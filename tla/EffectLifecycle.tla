--------------------------- MODULE EffectLifecycle ---------------------------
(***************************************************************************)
(* What the outbox promises of one captured effect, without claims, leases,*)
(* fences, grants or clocks.  A capture is queued, may be held or die, and *)
(* only an explicit requeue brings a held or dead capture back.  It ends   *)
(* delivered, which is final and needs the receiver's acknowledgement, or  *)
(* cancelled, which only that acknowledgement can still overrule.          *)
(***************************************************************************)
CONSTANT Effects

VARIABLES status, acked

Statuses == {"none", "queued", "held", "dead", "delivered", "cancelled"}

TypeOK == status \in [Effects -> Statuses] /\ acked \in [Effects -> BOOLEAN]

Init ==
    /\ status = [e \in Effects |-> "none"]
    /\ acked = [e \in Effects |-> FALSE]

Capture(e) ==
    /\ status[e] = "none"
    /\ status' = [status EXCEPT ![e] = "queued"]
    /\ UNCHANGED acked

\* The receiver accepts a POST of a capture that exists.
Acknowledge(e) ==
    /\ status[e] # "none"
    /\ acked' = [acked EXCEPT ![e] = TRUE]
    /\ UNCHANGED status

Deliver(e) ==
    /\ acked[e]
    /\ status[e] # "none"
    /\ status' = [status EXCEPT ![e] = "delivered"]
    /\ UNCHANGED acked

Die(e) ==
    /\ status[e] = "queued"
    /\ status' = [status EXCEPT ![e] = "dead"]
    /\ UNCHANGED acked

\* An authority change holds every capture it affects at once.
Hold(E) ==
    /\ \A e \in E : status[e] = "queued"
    /\ status' = [e \in Effects |-> IF e \in E THEN "held" ELSE status[e]]
    /\ UNCHANGED acked

Cancel(e) ==
    /\ status[e] \in {"queued", "held", "dead"}
    /\ status' = [status EXCEPT ![e] = "cancelled"]
    /\ UNCHANGED acked

Requeue(e) ==
    /\ status[e] \in {"held", "dead"}
    /\ status' = [status EXCEPT ![e] = "queued"]
    /\ UNCHANGED acked

Next ==
    \/ \E e \in Effects :
          \/ Capture(e) \/ Acknowledge(e) \/ Deliver(e) \/ Die(e)
          \/ Cancel(e) \/ Requeue(e)
    \/ \E E \in SUBSET Effects : Hold(E)

Spec == Init /\ [][Next]_<<status, acked>>
=============================================================================
