---------------------------- MODULE MCRecurrence ----------------------------
(***************************************************************************)
(* A finite instance of Recurrence, with the scan of one schedule (repair, *)
(* run as service v1), and beside it                                       *)
(*   Turns    two schedules that wait for each other: sweep runs as        *)
(*            service v1, beat (target-free) as v2.                        *)
(* A behaviour explores one of the two; the other keeps its first state.   *)
(***************************************************************************)
EXTENDS Recurrence

CONSTANTS repair, sweep, beat, v1, v2

VARIABLES
    part,
    tnow, truntime, tgrants, trows, tcreated, tstatus, texpiry, tedits, toccurrences,
    tqueue, tscans, temitted, tmissed, ttwice

turnVars == <<tnow, truntime, tgrants, trows, tcreated, tstatus, texpiry, tedits,
              toccurrences, tqueue, tscans, temitted, tmissed, ttwice>>

MCServiceOf == [s \in Schedules |-> v1]

Turns == INSTANCE Recurrence WITH
    Schedules <- {sweep, beat}, Services <- {v1, v2},
    ServiceOf <- [s \in {sweep, beat} |-> IF s = beat THEN v2 ELSE v1],
    Selecting <- {sweep}, Repairing <- {}, Descending <- {},
    Interval <- 1, Caps <- {0, 1}, Expiries <- {0}, QueueLimit <- 1,
    MaxTime <- 1, MaxSeq <- 1, MaxVersion <- 2, MaxEpoch <- 2, MaxEdits <- 0,
    now <- tnow, runtime <- truntime, grants <- tgrants, rows <- trows,
    created <- tcreated, status <- tstatus, expiry <- texpiry, edits <- tedits,
    occurrences <- toccurrences, queue <- tqueue, scans <- tscans,
    emitted <- temitted, missed <- tmissed, twice <- ttwice

TurnsInit == part \in {"scan", "turns"} /\ Init /\ Turns!Init
TurnsNext ==
    \/ part = "scan" /\ Next /\ UNCHANGED <<part, turnVars>>
    \/ part = "turns" /\ Turns!Next /\ UNCHANGED <<part, vars>>
\* Fairness is that of the turns; the scan only counts for safety.
TurnsSpec ==
    /\ TurnsInit /\ [][TurnsNext]_<<part, vars, turnVars>>
    /\ WF_turnVars(Turns!Poll) /\ WF_turnVars(Turns!Settle)

\* Recurrence!DueServed of the two schedules: none that is due waits for ever while
\* the other one takes its turns (next_due, run_recurrence_once).
TurnsServed == Turns!DueServed
=============================================================================
