--------------------------- MODULE LifecycleClock ---------------------------
(***************************************************************************)
(* Durable lifecycle time: the row nx_clock that maintenance transactions  *)
(* advance, and in each process the Freshness state that decides whether a *)
(* request may use the time its own transaction has read.                  *)
(*                                                                         *)
(* Every process that serves requests or delivers effects ticks the same   *)
(* row, about once per unit of monotonic time, under a lease on its one    *)
(* maintenance slot.  A tick is begun, committed, cleaned up and published *)
(* in separate steps; requests read the row and ask for the time in        *)
(* separate steps too.  Wall clocks may show anything.                     *)
(***************************************************************************)
EXTENDS Integers, Sequences, FiniteSets

CONSTANTS
    Procs,          \* processes: servers and effect workers
    Readers,        \* request slots
    ProcOf,         \* [Readers -> Procs]
    Limit,          \* FRESHNESS_LIMIT (5 s)
    Keep,           \* PUBLISHED_TICKS (8)
    Second,         \* lifecycle units in one credential second (1000)
    Tolerance,      \* CLOCK_ROLLBACK_TOLERANCE (60 s)
    Lag,            \* CLOCK_PERSIST_LAG (2 s)
    Walls,          \* what a wall clock may show, in lifecycle units
    \* bounds of the explored instance
    MaxMono, MaxTicks, MaxDeployment, MaxClockFaults

ASSUME ClockAssumption ==
    /\ ProcOf \in [Readers -> Procs]
    /\ {Limit, Keep, Second} \subseteq Nat \ {0}
    /\ {Tolerance, Lag} \subseteq Nat
    /\ Walls \subseteq Nat
    /\ {MaxMono, MaxTicks, MaxDeployment, MaxClockFaults} \subseteq Nat

VARIABLES
    mono,           \* monotonic time, the same for all processes
    clock,          \* nx_clock: lifecycle_ms and lifecycle_version
    observed,       \* nx_clock.observed, in seconds
    generation,     \* nx_deployment.generation
    procs,          \* the Freshness and clock memory of each process
    leases,         \* the MaintenanceLease of each process
    requests,       \* the transactions of requests
    past,           \* history: the watermark at the end of recent instants
    committed,      \* history: the ticks that took effect
    written,        \* history: the latest time a committed write has used
    clockFaults     \* uncertain outcomes and process exits so far

durable == <<clock, observed, generation>>
clockHistory == <<past, committed, written>>
clockVars == <<mono, clock, observed, generation, procs, leases, requests, past,
              committed, written, clockFaults>>

-----------------------------------------------------------------------------
Later(a, b) == IF a >= b THEN a ELSE b

Clock == [ms : Nat, version : Nat]
TickRecord == [clock : Clock, started : Nat]

NoTick == [clock |-> [ms |-> 0, version |-> 0], started |-> 0]

\* A process, its generation (0 before activation), Freshness State and the
\* observed seconds in memory.  since and progress.started are 0 for None.
Proc == [up : BOOLEAN, gen : Nat, quarantined : BOOLEAN, since : Nat,
         progress : TickRecord, published : Seq(TickRecord), memory : Nat]

Down == [up |-> FALSE, gen |-> 0, quarantined |-> FALSE, since |-> 0,
         progress |-> NoTick, published |-> <<>>, memory |-> 0]

\* open: inside the transaction; committed and failed: its outcome is known;
\* unknown: COMMIT was not answered; publishing: cleaned up; lost: cleanup was
\* not confirmed, the backend may still commit.
LeasePhases == {"idle", "open", "committed", "failed", "unknown", "publishing",
                "lost"}

LeaseState == [phase : LeasePhases, permit : {"free", "held", "forgotten"},
          backends : Nat, wall : Nat, started : Nat, tick : TickRecord,
          seconds : Nat]

NoLease == [phase |-> "idle", permit |-> "free", backends |-> 0, wall |-> 0,
            started |-> 0, tick |-> NoTick, seconds |-> 0]

Request == [active : BOOLEAN, clock : Clock, observed : Nat, effective : Nat]

NoRequest == [active |-> FALSE, clock |-> NoTick.clock, observed |-> 0,
              effective |-> 0]

ClockTypeOK ==
    /\ {mono, observed, generation, written} \subseteq Nat
    /\ clock \in Clock
    /\ procs \in [Procs -> Proc]
    /\ \A p \in Procs : Len(procs[p].published) <= Keep
    /\ leases \in [Procs -> LeaseState]
    /\ requests \in [Readers -> Request]
    /\ past \in [1 .. Limit -> Nat]
    /\ committed \subseteq TickRecord
    /\ clockFaults \in 0 .. MaxClockFaults

ClockFault ==
    /\ clockFaults < MaxClockFaults
    /\ clockFaults' = clockFaults + 1

-----------------------------------------------------------------------------
(* Freshness.                                                              *)

\* Slip: a tick counts as recent one instant too long.
RecentLong(start) == start # 0 /\ mono - start <= Limit

recent(start) == start # 0 /\ mono - start < Limit

\* The comparison with earlier progress in validate_progress and attempt_at.
Follows(c, previous) ==
    /\ c.version >= previous.version
    /\ c.ms >= previous.ms
    /\ c.version = previous.version => c.ms = previous.ms

validate_progress(s, tick) ==
    /\ ~ s.quarantined
    /\ recent(tick.started)
    /\ tick.clock.version > 0
    /\ s.progress.started # 0 =>
          /\ tick.started >= s.progress.started
          /\ Follows(tick.clock, s.progress.clock)

\* State::publish.
publish(s, tick) ==
    [s EXCEPT
        !.published = Append(IF Len(@) = Keep THEN Tail(@) ELSE @, tick),
        !.progress = tick]

\* Freshness::attempt_at, for a request whose transaction has read c.
attempt_at(s, c) ==
    /\ ~ s.quarantined
    /\ recent(s.since)
    /\ \/ c.version > 0 /\ Follows(c, s.progress.clock)
       \/ \E i \in DOMAIN s.published :
            s.published[i].clock = c /\ recent(s.published[i].started)

-----------------------------------------------------------------------------
(* A tick under its maintenance lease.                                     *)

SetLease(p, l) == leases' = [leases EXCEPT ![p] = l]

\* Activation is tried once in the life of a process; the service then ticks
\* each second, and never beside a maintenance transaction of its own.
MayTick(p) ==
    /\ procs[p].up
    /\ leases[p].phase = "idle"
    /\ leases[p].permit = "free"
    /\ leases[p].started < mono
    /\ procs[p].gen # 0 \/ leases[p].started = 0

\* The row lock of a maintenance transaction (FOR UPDATE NOWAIT).
RowFree == \A p \in Procs : leases[p].phase \notin {"open", "unknown", "lost"}

Opened(p) == [leases[p] EXCEPT !.permit = "held", !.backends = @ + 1]

\* The lease begins and the tick samples both clocks.
LeaseBegin(p, wall) ==
    /\ MayTick(p)
    /\ RowFree
    /\ clock.version < MaxTicks
    /\ SetLease(p, [Opened(p) EXCEPT !.phase = "open", !.wall = wall,
                               !.started = mono])
    /\ UNCHANGED <<mono, durable, procs, requests, clockHistory, clockFaults>>

\* The row is locked by a request or by the tick of another process.
LeaseBusy(p) ==
    /\ MayTick(p)
    /\ SetLease(p, [Opened(p) EXCEPT !.phase = "failed", !.started = mono])
    /\ UNCHANGED <<mono, durable, procs, requests, clockHistory, clockFaults>>

\* A connection that may or may not exist (an error other than ConnectStopped):
\* the slot is forgotten and the process quarantined.
LeaseUncertain(p) ==
    /\ MayTick(p)
    /\ ClockFault
    /\ SetLease(p, [Opened(p) EXCEPT !.permit = "forgotten", !.started = mono])
    /\ procs' = [procs EXCEPT ![p].quarantined = TRUE]
    /\ UNCHANGED <<mono, durable, requests, clockHistory>>

\* observe_clock_read against the durable mark: the raw second now is refused
\* when it lies too far behind what the database or this process has seen.
HighMark(s, mark) == Later(mark, s.memory)
Tolerated(s, mark, now) == HighMark(s, mark) - now <= Tolerance
Effective(s, mark, now) == Later(now, HighMark(s, mark))

Seconds(p) == leases[p].wall \div Second

\* tick_sampled: the next durable clock.
NextClock(p) == [ms |-> Later(clock.ms, leases[p].wall),
                 version |-> clock.version + 1]

Ticked(p) == [clock |-> NextClock(p), started |-> leases[p].started]

\* admission, or deployment(.., activate) for a process not yet activated.
TickAdmitted(p) == procs[p].gen \in {0, generation}

TickSucceeds(p) ==
    /\ leases[p].phase = "open"
    /\ TickAdmitted(p)
    /\ Tolerated(procs[p], observed, Seconds(p))

\* The transaction has done its work and is about to commit.
Prepared(p) ==
    [leases[p] EXCEPT !.tick = Ticked(p),
                      !.seconds = Effective(procs[p], observed, Seconds(p))]

\* The transaction of lease l takes effect.
Apply(l) ==
    /\ clock' = l.tick.clock
    /\ observed' = l.seconds
    /\ committed' = committed \cup {l.tick}
    /\ UNCHANGED <<past, written>>

Remember(p, seconds) ==
    procs' = [procs EXCEPT ![p].memory = Later(@, seconds)]

\* Activation may replace the deployment in the same transaction.
TickCommit(p, rotate) ==
    /\ TickSucceeds(p)
    /\ rotate => procs[p].gen = 0 /\ generation < MaxDeployment
    /\ generation' = IF rotate THEN generation + 1 ELSE generation
    /\ Apply(Prepared(p))
    /\ Remember(p, Seconds(p))
    /\ SetLease(p, [Prepared(p) EXCEPT !.phase = "committed"])
    /\ UNCHANGED <<mono, requests, clockFaults>>

\* Retired, refused, a conflict, or a COMMIT known to have failed.
TickFail(p) ==
    /\ leases[p].phase = "open"
    /\ \/ TickAdmitted(p) /\ Remember(p, Seconds(p))
       \/ ~ TickAdmitted(p) /\ UNCHANGED procs
    /\ SetLease(p, [leases[p] EXCEPT !.phase = "failed"])
    /\ UNCHANGED <<mono, durable, requests, clockHistory, clockFaults>>

\* COMMIT is sent and not answered.
TickUnknown(p) ==
    /\ TickSucceeds(p)
    /\ ClockFault
    /\ Remember(p, Seconds(p))
    /\ SetLease(p, [Prepared(p) EXCEPT !.phase = "unknown"])
    /\ UNCHANGED <<mono, durable, requests, clockHistory>>

\* It takes effect after all, before its backend is stopped.
LateCommit(p) ==
    /\ leases[p].phase \in {"unknown", "lost"}
    /\ Apply(leases[p])
    /\ SetLease(p, [leases[p] EXCEPT
                !.phase = IF @ = "lost" THEN "idle" ELSE "failed"])
    /\ UNCHANGED <<mono, generation, procs, requests, clockFaults>>

Finished == {"committed", "failed", "unknown"}

\* Slip: an unanswered COMMIT is taken for a confirmed one.
AfterFinishHopeful(p) ==
    [leases[p] EXCEPT
        !.phase = IF @ \in {"committed", "unknown"} THEN "publishing" ELSE "idle"]

\* What finish leaves to do: only a confirmed tick is published.
AfterFinish(p) ==
    [leases[p] EXCEPT
        !.phase = IF @ = "committed" THEN "publishing" ELSE "idle"]

\* MaintenanceLease::finish, or the task that a dropped lease leaves behind:
\* the backend is confirmed stopped and the slot returned.
FinishLease(p) ==
    /\ leases[p].phase \in Finished
    /\ SetLease(p, [AfterFinish(p) EXCEPT !.permit = "free", !.backends = @ - 1])
    /\ UNCHANGED <<mono, durable, procs, requests, clockHistory, clockFaults>>

\* Slip: the slot is given back although the backend was not seen to stop.
UnconfirmedPermitFree == "free"

\* CleanupCapacity::drop forgets the permit.
UnconfirmedPermit == "forgotten"

\* The backend is not confirmed stopped.
FinishUncertain(p) ==
    /\ leases[p].phase \in Finished
    /\ ClockFault
    /\ SetLease(p, [leases[p] EXCEPT
                !.phase = IF @ = "unknown" THEN "lost" ELSE "idle",
                !.permit = UnconfirmedPermit])
    /\ procs' = [procs EXCEPT ![p].quarantined = TRUE]
    /\ UNCHANGED <<mono, durable, requests, clockHistory>>

\* Freshness::committed and publish_clock; activation ends with it.
Publish(p) ==
    LET tick == leases[p].tick  s == procs[p] IN
    /\ leases[p].phase = "publishing"
    /\ procs' = IF validate_progress(s, tick)
                THEN [procs EXCEPT
                        ![p] = [publish(s, tick) EXCEPT
                            !.since = tick.started,
                            !.gen = IF @ = 0 THEN generation ELSE @,
                            !.memory = Later(@, leases[p].seconds)]]
                ELSE procs
    /\ SetLease(p, [leases[p] EXCEPT !.phase = "idle"])
    /\ UNCHANGED <<mono, durable, requests, clockHistory, clockFaults>>

-----------------------------------------------------------------------------
(* Requests.                                                               *)

\* A transaction passes admission, reads the row and observes the second now.
RequestBegin(r, wall) ==
    LET p == ProcOf[r]  s == procs[p]  now == wall \div Second IN
    /\ ~ requests[r].active
    /\ s.up /\ s.gen = generation
    /\ IF Tolerated(s, observed, now)
       THEN /\ Remember(p, Effective(s, observed, now))
            /\ requests' = [requests EXCEPT ![r] =
                  [active |-> TRUE, clock |-> clock, observed |-> observed,
                   effective |-> Effective(s, observed, now)]]
       ELSE /\ Remember(p, now)
            /\ UNCHANGED requests
    /\ UNCHANGED <<mono, durable, leases, clockHistory, clockFaults>>

\* A read-only request ends, with or without a lifecycle time (attempt_at).
RequestEnd(r) ==
    /\ requests[r].active
    /\ requests' = [requests EXCEPT ![r] = NoRequest]
    /\ UNCHANGED <<mono, durable, procs, leases, clockHistory, clockFaults>>

\* Slip: the mark is persisted one second late.
BehindLate(r) == requests[r].effective - requests[r].observed > Lag + 1

\* observe_clock_bounded: the mark this request read is too far behind.
Behind(r) == requests[r].effective - requests[r].observed > Lag

\* A write commits; it persists the mark when that is behind, which conflicts
\* with every other writer of the row since its snapshot.
RequestCommit(r) ==
    LET q == requests[r] IN
    /\ q.active
    /\ procs[ProcOf[r]].gen = generation
    /\ Behind(r) => RowFree /\ clock = q.clock /\ observed = q.observed
    /\ observed' = IF Behind(r) THEN q.effective ELSE observed
    /\ written' = Later(written, q.effective)
    /\ requests' = [requests EXCEPT ![r] = NoRequest]
    /\ UNCHANGED <<mono, clock, generation, procs, leases, past, committed,
                   clockFaults>>

-----------------------------------------------------------------------------
(* Processes, operators and time.                                          *)

Start(p) ==
    /\ ~ procs[p].up
    /\ procs' = [procs EXCEPT ![p] = [Down EXCEPT !.up = TRUE]]
    /\ UNCHANGED <<mono, durable, leases, requests, clockHistory, clockFaults>>

Exit(p) ==
    /\ procs[p].up
    /\ ClockFault
    /\ procs' = [procs EXCEPT ![p] = Down]
    /\ SetLease(p, NoLease)
    /\ requests' = [r \in Readers |->
                      IF ProcOf[r] = p THEN NoRequest ELSE requests[r]]
    /\ UNCHANGED <<mono, durable, clockHistory>>

\* Database::recover_clock: the credential mark follows the wall, the
\* lifecycle columns stay; every process is retired by the new generation.
RecoverDeployment(wall) ==
    /\ RowFree
    /\ generation < MaxDeployment
    /\ generation' = generation + 1
    /\ observed' = wall \div Second
    /\ written' = 0
    /\ UNCHANGED <<mono, clock, procs, leases, requests, past, committed,
                   clockFaults>>

Advance ==
    /\ mono < MaxMono
    /\ mono' = mono + 1
    /\ past' = [i \in 1 .. Limit |-> IF i = Limit THEN clock.ms ELSE past[i + 1]]
    /\ UNCHANGED <<durable, procs, leases, requests, committed, written,
                   clockFaults>>

-----------------------------------------------------------------------------
ClockInit ==
    /\ mono = 1
    /\ clock = NoTick.clock
    /\ observed = 0
    /\ generation = 1
    /\ procs = [p \in Procs |-> Down]
    /\ leases = [p \in Procs |-> NoLease]
    /\ requests = [r \in Readers |-> NoRequest]
    /\ past = [i \in 1 .. Limit |-> 0]
    /\ committed = {}
    /\ written = 0
    /\ clockFaults = 0

MaintenanceStep(p) ==
    \/ \E wall \in Walls : LeaseBegin(p, wall)
    \/ LeaseBusy(p)
    \/ LeaseUncertain(p)
    \/ \E rotate \in BOOLEAN : TickCommit(p, rotate)
    \/ TickFail(p)
    \/ TickUnknown(p)
    \/ LateCommit(p)
    \/ FinishLease(p)
    \/ FinishUncertain(p)
    \/ Publish(p)

RequestStep(r) ==
    \/ \E wall \in Walls : RequestBegin(r, wall)
    \/ RequestEnd(r)
    \/ RequestCommit(r)

ClockNext ==
    \/ \E p \in Procs : MaintenanceStep(p) \/ Start(p) \/ Exit(p)
    \/ \E r \in Readers : RequestStep(r)
    \/ \E wall \in Walls : RecoverDeployment(wall)
    \/ Advance

ClockSpec == ClockInit /\ [][ClockNext]_clockVars

-----------------------------------------------------------------------------
\* The lifecycle time a request would be given now.
Accepted(r) ==
    /\ requests[r].active
    /\ attempt_at(procs[ProcOf[r]], requests[r].clock)

\* The time a request gets is behind by less than FRESHNESS_LIMIT: it is no
\* earlier than the watermark every process could have seen that long ago, however
\* old the request's snapshot is, whoever ticks, and whatever the wall shows.
StalenessBounded ==
    \A r \in Readers : Accepted(r) => requests[r].clock.ms >= past[1]

\* Freshness evidence comes only from ticks that took effect: no failed or
\* unanswered COMMIT is ever published.
PublishedCommitted ==
    \A p \in Procs : \A i \in DOMAIN procs[p].published :
        procs[p].published[i] \in committed

\* A process has at most one maintenance backend, and a slot is free only if it
\* has none; with a backend that is not confirmed stopped it serves no time.
OneMaintenance ==
    \A p \in Procs :
        /\ leases[p].backends <= 1
        /\ leases[p].permit = "free" => leases[p].backends = 0
        /\ leases[p].permit = "forgotten" =>
              \A r \in Readers : ProcOf[r] = p => ~ Accepted(r)

\* "If the tick stalls, requests keep the persisted mark within this bound": no
\* committed write has used a time more than CLOCK_PERSIST_LAG ahead of the mark.
WritesCovered == written - observed <= Lag

\* The mark, its backends and the writes agree: what was written is covered by the
\* mark although at most one, possibly unconfirmed, maintenance backend moves it.
ClockSound == ClockTypeOK /\ OneMaintenance /\ WritesCovered
=============================================================================
