---------------------------- MODULE JobLifecycle ----------------------------
(***************************************************************************)
(* What the job queue promises of captured jobs, without claims, leases,   *)
(* fences, grants or clocks.  The mutation of a job happens when it        *)
(* succeeds, once, and never after it was held, rejected or given up: a    *)
(* capture that left the queue does not come back.  An operator may reject *)
(* it, or replace it by a new capture.                                     *)
(***************************************************************************)
EXTENDS Naturals

CONSTANT Jobs

VARIABLES status, done

Statuses == {"none", "queued", "held", "dead", "succeeded", "rejected"}

Init ==
    /\ status = [j \in Jobs |-> "none"]
    /\ done = [j \in Jobs |-> 0]

Capture(j) ==
    /\ status[j] = "none"
    /\ status' = [status EXCEPT ![j] = "queued"]
    /\ UNCHANGED done

\* The mutation and the end of its job are one step, which may capture other
\* jobs.
Succeed(j, K) ==
    /\ status[j] = "queued"
    /\ \A k \in K : status[k] = "none"
    /\ status' = [k \in Jobs |-> IF k = j THEN "succeeded"
                                 ELSE IF k \in K THEN "queued" ELSE status[k]]
    /\ done' = [done EXCEPT ![j] = @ + 1]

GiveUp(j) ==
    /\ status[j] = "queued"
    /\ status' = [status EXCEPT ![j] = "dead"]
    /\ UNCHANGED done

Hold(H) ==
    /\ \A j \in H : status[j] = "queued"
    /\ status' = [j \in Jobs |-> IF j \in H THEN "held" ELSE status[j]]
    /\ UNCHANGED done

Reject(j) ==
    /\ status[j] \in {"queued", "held", "dead"}
    /\ status' = [status EXCEPT ![j] = "rejected"]
    /\ UNCHANGED done

Replace(j, k) ==
    /\ status[j] \in {"held", "dead", "rejected"}
    /\ status[k] = "none"
    /\ status' = [status EXCEPT ![j] = "rejected", ![k] = "queued"]
    /\ UNCHANGED done

Next ==
    \/ \E j \in Jobs : Capture(j) \/ GiveUp(j) \/ Reject(j)
    \/ \E j \in Jobs : \E K \in SUBSET (Jobs \ {j}) : Succeed(j, K)
    \/ \E H \in SUBSET Jobs : Hold(H)
    \/ \E j \in Jobs : \E k \in Jobs \ {j} : Replace(j, k)

Spec == Init /\ [][Next]_<<status, done>>
=============================================================================
