-------------------------------- MODULE Store --------------------------------
(***************************************************************************)
(* The life of a request's database work.  A request is admitted with      *)
(* permits, opens transactions one after another through its own gate, and *)
(* each transaction owns a provider session: a PostgreSQL connection with  *)
(* a second control connection that can cancel it and watch it disappear.  *)
(* The request's future may be dropped or timed out at any await, so the   *)
(* session is opened and stopped by tasks of its own, which hold the       *)
(* permits, the gate and the request's original deadline with them.  What  *)
(* cannot be shown to have stopped keeps its capacity for good.            *)
(*                                                                         *)
(* hour[r] is where the clock stands against r's deadline: "work" until    *)
(* CLEANUP_RESERVE before it, "reserve" until it, "over" after it.         *)
(***************************************************************************)
EXTENDS Integers, FiniteSets

CONSTANTS
    Requests,
    Capacity,         \* database permits of the process
    StatementLimit,   \* database_statements, at most 256
    POSTGRES_CLEANUP, \* statements set aside for stopping a session (40)
    Checks,           \* pg_stat_activity looks before a stop is given up (16)
    Looks,            \* the numbers of looks explored, a subset of 1 .. Checks
    \* bounds of the explored instance
    MaxStatements, MaxTransactions

ASSUME StoreAssumption ==
    /\ {Capacity, StatementLimit, Checks, MaxTransactions} \subseteq Nat \ {0}
    /\ {POSTGRES_CLEANUP, MaxStatements} \subseteq Nat
    /\ Looks \subseteq 1 .. Checks /\ Checks \in Looks
    \* the identity, a failed unlock, a cancellation and every look (38 of 40)
    /\ POSTGRES_CLEANUP >= 6 + 2 * Checks

VARIABLES
    hour,
    front,      \* where the request's future is
    answer,     \* what the client is told
    permit,     \* the admission's permits
    quarantine, \* Admission.quarantined
    pending,    \* Admission.commit_pending
    gate,       \* Root.provider, a semaphore of one
    meter,      \* Root.meter
    cleanup,    \* the lease's protected statements
    lease,      \* the ProviderLease and the Transaction around it
    registry,   \* [closed, active, quarantined], shared by every request
    shutdown,   \* result of Registry::shutdown
    session,    \* the provider's backend process, as the provider sees it
    applied,    \* the COMMIT took effect
    spent       \* [transactions, statements] begun so far

storeVars == <<hour, front, answer, permit, quarantine, pending, gate, meter, cleanup,
          lease, registry, shutdown, session, applied, spent>>

Unleased == [pc |-> "none", started |-> FALSE, control |-> FALSE, setup |-> FALSE,
             inFlight |-> FALSE, active |-> FALSE, commit |-> "not_attempted"]

StoreInit ==
    /\ hour = [r \in Requests |-> "work"]
    /\ front = [r \in Requests |-> "arriving"]
    /\ answer = [r \in Requests |-> "none"]
    /\ permit = [r \in Requests |-> "none"]
    /\ quarantine = [r \in Requests |-> FALSE]
    /\ pending = [r \in Requests |-> FALSE]
    /\ gate = [r \in Requests |-> "free"]
    /\ meter = [r \in Requests |->
                    [free |-> StatementLimit, reserved |-> 0, spent |-> 0]]
    /\ cleanup = [r \in Requests |-> 0]
    /\ lease = [r \in Requests |-> Unleased]
    /\ registry = [closed |-> FALSE, active |-> {}, quarantined |-> FALSE]
    /\ shutdown = "none"
    /\ session = [r \in Requests |-> "none"]
    /\ applied = [r \in Requests |-> FALSE]
    /\ spent = [r \in Requests |-> [transactions |-> 0, statements |-> 0]]

-----------------------------------------------------------------------------
(* Admission and the statement meter *)

Held == {r \in Requests : permit[r] \in {"held", "retained"}}

\* Meter::charge: refused unless that many free units are left.
Affordable(r, n) == meter[r].free >= n
Charged(m, n) == [m EXCEPT !.free = @ - n, !.spent = @ + n]
\* Meter::reserve.
Reserved(m, n) == [m EXCEPT !.free = @ - n, !.reserved = @ + n]
\* Cleanup::charge spends protected units; confirmed returns what is left.
CleanupCharged(m, n) == [m EXCEPT !.reserved = @ - n, !.spent = @ + n]
Refunded(m, n) == [m EXCEPT !.free = @ + n, !.reserved = @ - n]

\* RequestScope::checkpoint; a dropped future is the cancelled flag.
Checkpoint(r) == front[r] = "running" /\ hour[r] = "work"

Admit(r) ==
    /\ front[r] = "arriving" /\ Cardinality(Held) < Capacity
    /\ front' = [front EXCEPT ![r] = "running"]
    /\ permit' = [permit EXCEPT ![r] = "held"]
    /\ UNCHANGED <<hour, answer, quarantine, pending, gate, meter, cleanup, lease,
                   registry, shutdown, session, applied, spent>>

\* The request ends: its answer is fixed and its scope is gone.
Answered(r, what) ==
    /\ front' = [front EXCEPT ![r] = "ended"]
    /\ answer' = [answer EXCEPT ![r] = what]

\* Waiting for a permit, or for the gate a stop task still holds, past the deadline.
AdmitTimeout(r) ==
    /\ front[r] = "arriving" /\ hour[r] # "work"
    /\ Answered(r, "busy")
    /\ UNCHANGED <<hour, permit, quarantine, pending, gate, meter, cleanup, lease,
                   registry, shutdown, session, applied, spent>>

\* RequestError::database of an error that is not a commit failure.
Refuse(r) == Answered(r, "busy")

-----------------------------------------------------------------------------
(* AdmissionOwner::begin and connect::open *)

MayBegin(r) ==
    /\ front[r] = "running" /\ lease[r].pc = "none"
    /\ lease[r].commit \in {"not_attempted", "refused"}
    /\ spent[r].transactions < MaxTransactions

Begin(r) ==
    /\ MayBegin(r) /\ Checkpoint(r) /\ gate[r] = "free"
    /\ Affordable(r, POSTGRES_CLEANUP) /\ ~registry.closed
    /\ gate' = [gate EXCEPT ![r] = "held"]
    /\ meter' = [meter EXCEPT ![r] = Reserved(@, POSTGRES_CLEANUP)]
    /\ cleanup' = [cleanup EXCEPT ![r] = POSTGRES_CLEANUP]
    /\ registry' = [registry EXCEPT !.active = @ \cup {r}]
    /\ lease' = [lease EXCEPT ![r] = [Unleased EXCEPT !.pc = "dialing"]]
    /\ front' = [front EXCEPT ![r] = "awaiting"]
    /\ spent' = [spent EXCEPT ![r].transactions = @ + 1]
    /\ UNCHANGED <<hour, answer, permit, quarantine, pending, shutdown, session,
                   applied>>

\* Past the work deadline, no gate before it, too few units, or a closed
\* registry: the units already reserved are not refunded.
BeginRefused(r) ==
    /\ MayBegin(r)
    /\ \/ ~Checkpoint(r) /\ UNCHANGED meter
       \/ gate[r] = "forgotten" /\ hour[r] # "work" /\ UNCHANGED meter
       \/ gate[r] = "free" /\ ~Affordable(r, POSTGRES_CLEANUP) /\ UNCHANGED meter
       \/ /\ gate[r] = "free" /\ Affordable(r, POSTGRES_CLEANUP) /\ registry.closed
          /\ meter' = [meter EXCEPT ![r] = Reserved(@, POSTGRES_CLEANUP)]
    /\ Refuse(r)
    /\ UNCHANGED <<hour, permit, quarantine, pending, gate, cleanup, lease, registry,
                   shutdown, session, applied, spent>>

\* lease.started is set before the provider is dialed, so a dial that fails or
\* is cut off leaves a session nobody can name.
Dial(r) ==
    /\ lease[r].pc = "dialing" /\ hour[r] = "work"
    /\ \E reached \in BOOLEAN, ok \in BOOLEAN :
        /\ ok => reached
        /\ session' = [session EXCEPT ![r] = IF reached THEN "live" ELSE @]
        /\ lease' = [lease EXCEPT ![r].started = TRUE,
                                  ![r].setup = TRUE,
                                  ![r].pc = IF ok THEN "identify" ELSE "unnamed"]
    /\ UNCHANGED <<hour, front, answer, permit, quarantine, pending, gate, meter,
                   cleanup, registry, shutdown, applied, spent>>

\* Control::connect_metered: the identity of the session, on protected units.
Identify(r) ==
    /\ lease[r].pc = "identify" /\ hour[r] = "work" /\ cleanup[r] >= 1
    /\ cleanup' = [cleanup EXCEPT ![r] = @ - 1]
    /\ meter' = [meter EXCEPT ![r] = CleanupCharged(@, 1)]
    /\ \E ok \in BOOLEAN :
        lease' = [lease EXCEPT ![r].control = ok,
                               ![r].pc = IF ok THEN "setup" ELSE "unnamed"]
    /\ UNCHANGED <<hour, front, answer, permit, quarantine, pending, gate, registry,
                   shutdown, session, applied, spent>>

\* fsync, full_page_writes, synchronous_commit, the shared advisory lock, BEGIN.
SetupStatements == 5

\* The transaction is delivered to the request, or dropped if it has gone.
Setup(r) ==
    /\ lease[r].pc = "setup" /\ hour[r] = "work"
    /\ \E n \in {1, SetupStatements} :
        /\ Affordable(r, n)
        /\ meter' = [meter EXCEPT ![r] = Charged(@, n)]
        /\ lease' = [lease EXCEPT ![r].active = (n = SetupStatements),
                                  ![r].setup = (n # SetupStatements),
                                  ![r].pc = IF n # SetupStatements \/ front[r] = "ended"
                                            THEN "stop" ELSE "open"]
        /\ IF front[r] = "ended" THEN UNCHANGED <<front, answer>>
           ELSE IF n = SetupStatements
                THEN front' = [front EXCEPT ![r] = "running"] /\ UNCHANGED answer
                ELSE Refuse(r)
    /\ UNCHANGED <<hour, permit, quarantine, pending, gate, cleanup, registry,
                   shutdown, session, applied, spent>>

\* The setup fails, or its time or units run out: the half-made transaction is
\* dropped, and the request hears of it if it is still there.
OpenFails(r) ==
    /\ \/ lease[r].pc \in {"dialing", "identify", "setup"} /\ hour[r] # "work"
       \/ lease[r].pc = "setup" /\ ~Affordable(r, SetupStatements)
       \/ lease[r].pc = "unnamed"
    /\ lease' = [lease EXCEPT ![r].pc = "stop"]
    /\ IF front[r] = "ended" THEN UNCHANGED <<front, answer>> ELSE Refuse(r)
    /\ UNCHANGED <<hour, permit, quarantine, pending, gate, meter, cleanup, registry,
                   shutdown, session, applied, spent>>

-----------------------------------------------------------------------------
(* Statements, COMMIT and ROLLBACK *)

Open(r) == front[r] = "running" /\ lease[r].pc = "open"

\* ordinary_timeout, ordinary_charge and the statement itself: SET, then SQL.
PerStatement == 2

\* An error leaves in_flight set; the request then rolls back or gives up.
Statement(r) ==
    /\ Open(r) /\ Checkpoint(r) /\ Affordable(r, PerStatement)
    /\ ~lease[r].inFlight /\ spent[r].statements < MaxStatements
    /\ meter' = [meter EXCEPT ![r] = Charged(@, PerStatement)]
    /\ \E ok \in BOOLEAN : lease' = [lease EXCEPT ![r].inFlight = ~ok]
    /\ spent' = [spent EXCEPT ![r].statements = @ + 1]
    /\ UNCHANGED <<hour, front, answer, permit, quarantine, pending, gate, cleanup,
                   registry, shutdown, session, applied>>

\* Slip: a transaction dropped with its request is left as it is.
DroppedLeaked(l) == l

\* Dropping the transaction hands it to a task of its own.
Dropped(l) == [l EXCEPT !.pc = IF @ = "open" THEN "stop" ELSE @]

\* prepare_statement refused the COMMIT before anything was sent.
CommitUnsent(r) ==
    /\ Open(r) /\ ~lease[r].inFlight /\ (~Checkpoint(r) \/ ~Affordable(r, PerStatement))
    /\ lease' = [lease EXCEPT ![r] = Dropped(@)]
    /\ Refuse(r)
    /\ UNCHANGED <<hour, permit, quarantine, pending, gate, meter, cleanup, registry,
                   shutdown, session, applied, spent>>

\* The state is "sent" before the provider is polled.
CommitSend(r) ==
    /\ Open(r) /\ Checkpoint(r) /\ Affordable(r, PerStatement) /\ ~lease[r].inFlight
    /\ lease[r].commit = "not_attempted"
    /\ meter' = [meter EXCEPT ![r] = Charged(@, PerStatement)]
    /\ lease' = [lease EXCEPT ![r].commit = "sent", ![r].inFlight = TRUE]
    /\ pending' = [pending EXCEPT ![r] = TRUE]
    /\ UNCHANGED <<hour, front, answer, permit, quarantine, gate, cleanup, registry,
                   shutdown, session, applied, spent>>

\* The provider commits what it was sent, whoever is still listening.
ProviderCommits(r) ==
    /\ session[r] = "live" /\ lease[r].commit = "sent" /\ ~applied[r]
    /\ applied' = [applied EXCEPT ![r] = TRUE]
    /\ UNCHANGED <<hour, front, answer, permit, quarantine, pending, gate, meter,
                   cleanup, lease, registry, shutdown, session, spent>>

\* COMMIT acknowledged: prepared success is returned with no await between.
CommitAcknowledged(r) ==
    /\ Open(r) /\ lease[r].commit = "sent" /\ applied[r]
    /\ lease' = [lease EXCEPT ![r] = [Dropped(@) EXCEPT !.commit = "acknowledged",
                                                       !.active = FALSE,
                                                       !.inFlight = FALSE]]
    /\ pending' = [pending EXCEPT ![r] = FALSE]
    /\ Answered(r, "ok")
    /\ UNCHANGED <<hour, permit, quarantine, gate, meter, cleanup, registry, shutdown,
                   session, applied, spent>>

\* A provider refusal (serialization, deadlock, busy) is the only known abort.
CommitRefused(r) ==
    /\ Open(r) /\ lease[r].commit = "sent" /\ ~applied[r]
    /\ lease' = [lease EXCEPT ![r].commit = "refused"]
    /\ pending' = [pending EXCEPT ![r] = FALSE]
    /\ UNCHANGED <<hour, front, answer, permit, quarantine, gate, meter, cleanup,
                   registry, shutdown, session, applied, spent>>

\* finish_commit of any other error: may_have_committed.
CommitUncertain(r) ==
    /\ Open(r) /\ lease[r].commit = "sent"
    /\ lease' = [lease EXCEPT ![r] = Dropped(@)]
    /\ Answered(r, "unknown")
    /\ UNCHANGED <<hour, permit, quarantine, pending, gate, meter, cleanup, registry,
                   shutdown, session, applied, spent>>

\* rollback: the request waits for the stop it starts.
Rollback(r) ==
    /\ Open(r) /\ lease[r].commit # "sent"
    /\ lease' = [lease EXCEPT ![r] = Dropped(@)]
    /\ UNCHANGED <<hour, front, answer, permit, quarantine, pending, gate, meter,
                   cleanup, registry, shutdown, session, applied, spent>>

\* Slip: a timeout always reports the service as busy.
DeadlineAnswerBusy(r) == "busy"

\* The request's future is dropped at an await: a timeout around it asks
\* RequestError::deadline, a client that went away is told nothing.
DeadlineAnswer(r) == IF pending[r] THEN "unknown" ELSE "busy"

Cancel(r) ==
    /\ front[r] \in {"running", "awaiting"}
    /\ \/ hour[r] # "work" /\ answer' = [answer EXCEPT ![r] = DeadlineAnswer(r)]
       \/ UNCHANGED answer
    /\ front' = [front EXCEPT ![r] = "ended"]
    /\ lease' = [lease EXCEPT ![r] = Dropped(@)]
    /\ UNCHANGED <<hour, permit, quarantine, pending, gate, meter, cleanup, registry,
                   shutdown, session, applied, spent>>

\* The request finishes without writing.
Finish(r) ==
    /\ front[r] = "running" /\ lease[r].pc = "none"
    /\ Answered(r, "rejected")
    /\ UNCHANGED <<hour, permit, quarantine, pending, gate, meter, cleanup, lease,
                   registry, shutdown, session, applied, spent>>

-----------------------------------------------------------------------------
(* provider::stop, run by the request (rollback) or by a task of its own *)

CleanupAffordable(r, n) == cleanup[r] >= n
SpendCleanup(r, n) ==
    /\ cleanup' = [cleanup EXCEPT ![r] = @ - n]
    /\ meter' = [meter EXCEPT ![r] = CleanupCharged(@, n)]

NeedsCancel(l) == l.active \/ l.inFlight \/ l.setup

\* After an acknowledged COMMIT the advisory lock is released first.
StopUnlock(r) ==
    /\ lease[r].pc = "stop" /\ lease[r].control /\ hour[r] = "work"
    /\ ~NeedsCancel(lease[r]) /\ CleanupAffordable(r, 2)
    /\ SpendCleanup(r, 2)
    /\ \E ok \in BOOLEAN :
        lease' = [lease EXCEPT ![r].inFlight = ~ok,
                               ![r].pc = IF ok THEN "close" ELSE "cancel"]
    /\ UNCHANGED <<hour, front, answer, permit, quarantine, pending, gate, registry,
                   shutdown, session, applied, spent>>

\* Control::cancel, then ROLLBACK, which is no evidence about a COMMIT sent.
\* Slip: the control connection is configured again for every statement of it.
CancelStatementsTwice == 6
CancelStatements == 3
StopCancel(r) ==
    /\ \/ lease[r].pc = "cancel"
       \/ lease[r].pc = "stop" /\ lease[r].control
          /\ (NeedsCancel(lease[r]) \/ hour[r] # "work")
    /\ hour[r] # "over" /\ CleanupAffordable(r, CancelStatements)
    /\ SpendCleanup(r, CancelStatements)
    /\ lease' = [lease EXCEPT ![r].pc = "close"]
    /\ UNCHANGED <<hour, front, answer, permit, quarantine, pending, gate, registry,
                   shutdown, session, applied, spent>>

\* The provider ends a session whose socket was closed, or that lost its client.
SessionEnds(r) ==
    /\ session[r] = "live"
    /\ lease[r].pc \in {"close", "none"} \/ (lease[r].started /\ ~lease[r].control)
    /\ session' = [session EXCEPT ![r] = "none"]
    /\ UNCHANGED <<hour, front, answer, permit, quarantine, pending, gate, meter,
                   cleanup, lease, registry, shutdown, applied, spent>>

\* ProviderLease and Registration go: the gate opens and the units come back
\* only when the stop was confirmed.
Released(r, confirmed) ==
    /\ gate' = [gate EXCEPT ![r] = IF confirmed THEN "free" ELSE "forgotten"]
    /\ quarantine' = [quarantine EXCEPT ![r] = @ \/ ~confirmed]
    /\ registry' = [registry EXCEPT !.active = @ \ {r},
                                    !.quarantined = @ \/ ~confirmed]
    /\ lease' = [lease EXCEPT ![r] = [Unleased EXCEPT !.commit = lease[r].commit]]

\* Control::stopped: the session is gone from pg_stat_activity at the nth look.
StopConfirmed(r) ==
    /\ lease[r].pc = "close" /\ hour[r] # "over" /\ session[r] = "none"
    /\ \E n \in Looks :
        /\ CleanupAffordable(r, 2 * n)
        /\ cleanup' = [cleanup EXCEPT ![r] = 0]
        /\ meter' = [meter EXCEPT ![r] =
                        Refunded(CleanupCharged(@, 2 * n), cleanup[r] - 2 * n)]
    /\ Released(r, TRUE)
    /\ UNCHANGED <<hour, front, answer, permit, pending, shutdown, session, applied,
                   spent>>

\* A lease that never dialed has nothing to confirm.
StopUnstarted(r) ==
    /\ lease[r].pc = "stop" /\ ~lease[r].started
    /\ cleanup' = [cleanup EXCEPT ![r] = 0]
    /\ meter' = [meter EXCEPT ![r] = Refunded(@, cleanup[r])]
    /\ Released(r, TRUE)
    /\ UNCHANGED <<hour, front, answer, permit, pending, shutdown, session, applied,
                   spent>>

\* Slip: an unconfirmed stop frees its capacity like a confirmed one.
StopUnconfirmedFree(r) ==
    /\ lease[r].pc \in {"stop", "cancel", "close"} /\ lease[r].started
    /\ Released(r, TRUE)
    /\ UNCHANGED <<hour, front, answer, permit, pending, meter, cleanup, shutdown,
                   session, applied, spent>>

\* No control connection, an error of it, the last look, or the deadline.
StopUnconfirmed(r) ==
    /\ lease[r].pc \in {"stop", "cancel", "close"} /\ lease[r].started
    /\ Released(r, FALSE)
    /\ UNCHANGED <<hour, front, answer, permit, pending, meter, cleanup, shutdown,
                   session, applied, spent>>

-----------------------------------------------------------------------------
\* Drop for Admission, once the request and its provider have let go.
ReturnPermits(r) ==
    /\ permit[r] = "held" /\ front[r] = "ended" /\ lease[r].pc = "none"
    /\ permit' = [permit EXCEPT ![r] = IF quarantine[r] THEN "retained" ELSE "returned"]
    /\ UNCHANGED <<hour, front, answer, quarantine, pending, gate, meter, cleanup,
                   lease, registry, shutdown, session, applied, spent>>

\* Registry::shutdown: refuse new providers, wait for the active ones.
Close ==
    /\ ~registry.closed
    /\ registry' = [registry EXCEPT !.closed = TRUE]
    /\ UNCHANGED <<hour, front, answer, permit, quarantine, pending, gate, meter,
                   cleanup, lease, shutdown, session, applied, spent>>

Drained == registry.active = {}

\* Slip: the drain looks at the providers, not at what was left unconfirmed.
ShutDownForgiving ==
    /\ registry.closed /\ shutdown = "none" /\ Drained
    /\ shutdown' = "stopped"
    /\ UNCHANGED <<hour, front, answer, permit, quarantine, pending, gate, meter,
                   cleanup, lease, registry, session, applied, spent>>

ShutDown ==
    /\ registry.closed /\ shutdown = "none"
    /\ \/ /\ Drained
          /\ shutdown' = IF registry.quarantined THEN "unconfirmed" ELSE "stopped"
       \* the latest original deadline passes first
       \/ /\ ~Drained /\ \A r \in registry.active : hour[r] = "over"
          /\ shutdown' = "unconfirmed"
    /\ UNCHANGED <<hour, front, answer, permit, quarantine, pending, gate, meter,
                   cleanup, lease, registry, session, applied, spent>>

Tick(r) ==
    /\ hour[r] # "over"
    /\ hour' = [hour EXCEPT ![r] = IF @ = "work" THEN "reserve" ELSE "over"]
    /\ UNCHANGED <<front, answer, permit, quarantine, pending, gate, meter, cleanup,
                   lease, registry, shutdown, session, applied, spent>>

Stopping(r) ==
    \/ StopUnlock(r) \/ StopCancel(r) \/ StopConfirmed(r) \/ StopUnstarted(r)
    \/ StopUnconfirmed(r)
Opening(r) == Dial(r) \/ Identify(r) \/ Setup(r) \/ OpenFails(r)
Working(r) ==
    \/ Admit(r) \/ AdmitTimeout(r) \/ Begin(r) \/ BeginRefused(r) \/ Statement(r)
    \/ CommitUnsent(r) \/ CommitSend(r) \/ CommitAcknowledged(r) \/ CommitRefused(r)
    \/ CommitUncertain(r) \/ Rollback(r) \/ Cancel(r) \/ Finish(r)

StoreNext ==
    \/ \E r \in Requests : Stopping(r) \/ Opening(r) \/ Working(r) \/ ReturnPermits(r)
                           \/ ProviderCommits(r) \/ SessionEnds(r) \/ Tick(r)
    \/ Close \/ ShutDown

\* The runtime polls every task it was given and timers fire.
StoreFairness ==
    \A r \in Requests :
        /\ WF_storeVars(Stopping(r)) /\ WF_storeVars(Opening(r)) /\ WF_storeVars(Tick(r))
        /\ WF_storeVars(hour[r] # "work" /\ Cancel(r)) /\ WF_storeVars(ReturnPermits(r))

StoreSpec == StoreInit /\ [][StoreNext]_storeVars /\ StoreFairness

-----------------------------------------------------------------------------
(* Properties *)

Flags == {"started", "control", "setup", "inFlight", "active"}

\* Types, with the meter's three parts always adding up to the request's limit.
StoreTypeOK ==
    /\ \A r \in Requests :
        /\ hour[r] \in {"work", "reserve", "over"}
        /\ front[r] \in {"arriving", "running", "awaiting", "ended"}
        /\ answer[r] \in {"none", "ok", "busy", "unknown", "rejected"}
        /\ permit[r] \in {"none", "held", "returned", "retained"}
        /\ gate[r] \in {"free", "held", "forgotten"}
        /\ \A f \in Flags : lease[r][f] \in BOOLEAN
        /\ \A f \in DOMAIN meter[r] : meter[r][f] \in Nat
        /\ meter[r].free + meter[r].reserved + meter[r].spent = StatementLimit
        /\ cleanup[r] <= meter[r].reserved
    /\ registry.active \subseteq Requests

\* However a request is cancelled, timed out or refused, a provider session that
\* may still be running is covered by a permit: never returned to the semaphore
\* while the session lives (Drop for Admission, Drop for ProviderLease).
SessionsCovered == \A r \in Requests : session[r] = "live" => r \in Held

\* The reserve of POSTGRES_CLEANUP statements is enough for the longest stop,
\* so no session is left behind for want of units (Control::stopped).
CleanupFunded ==
    \A r \in Requests :
        CASE lease[r].pc = "identify" -> cleanup[r] >= 6 + 2 * Checks
          [] lease[r].pc = "stop" /\ lease[r].control -> cleanup[r] >= 5 + 2 * Checks
          [] lease[r].pc = "cancel" -> cleanup[r] >= 3 + 2 * Checks
          [] lease[r].pc = "close" -> cleanup[r] >= 2 * Checks
          [] OTHER -> TRUE

\* What the client is told is true for good: "ok" only of a COMMIT that took
\* effect, "busy" and "rejected" only of one that did not and never will
\* (finish_commit, RequestError::deadline, CommitState).
AnswersHonest ==
    \A r \in Requests :
        /\ answer[r] = "ok" => applied[r]
        /\ answer[r] \in {"busy", "rejected"} =>
              ~applied[r] /\ ~(lease[r].commit = "sent" /\ session[r] = "live")

\* A shutdown that reports success leaves no provider running and lets none start.
ShutdownConfirmed ==
    shutdown = "stopped" =>
        \A r \in Requests : session[r] = "none" /\ lease[r].pc = "none"

\* Provider sessions are accounted for from their permit to the shutdown.
ProvidersAccounted == StoreTypeOK /\ SessionsCovered /\ CleanupFunded /\ ShutdownConfirmed

\* Every provider task ends: its lease is released, confirmed or quarantined,
\* by the deadline of the request that started it.
LeaseEnds == \A r \in Requests : lease[r].pc # "none" ~> lease[r].pc = "none"
=============================================================================
