---------------------------- MODULE MCRequests ----------------------------
(***************************************************************************)
(* A finite instance of submissions and of the clock that dates what they  *)
(* read: two submissions as in Requests, and two processes that tick the   *)
(* clock row, with one request that has taken a snapshot.  A request asks  *)
(* for its time within its transaction and shares nothing else with the    *)
(* ticks, so a behaviour explores one and the other keeps its first state. *)
(***************************************************************************)
EXTENDS Requests, LifecycleClock, TLC

CONSTANTS p1, p2, r1

\* Requests are interchangeable, and so are inputs: no action names one.
Interchangeable == Permutations(Requests) \cup Permutations(Inputs)

MCProcOf == [r \in Readers |-> p1]

VARIABLE part   \* the component this behaviour explores
submissionVars == <<part, vars, clockVars>>

SubmissionInit == part \in {"requests", "clock"} /\ Init /\ ClockInit
SubmissionNext ==
    \/ part = "requests" /\ Next /\ UNCHANGED <<part, clockVars>>
    \/ part = "clock" /\ ClockNext /\ UNCHANGED <<part, vars>>
SubmissionSpec == SubmissionInit /\ [][SubmissionNext]_submissionVars
=============================================================================
