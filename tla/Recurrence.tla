----------------------------- MODULE Recurrence -----------------------------
(***************************************************************************)
(* Recurring schedules: the rows of nx_job_recurring, the poll that takes  *)
(* the oldest due one, scans a bounded page of records behind a cursor and *)
(* emits a job per record, and the operator commands and startups that     *)
(* pause, resume and reset schedules.                                      *)
(*                                                                         *)
(* run_recurrence_once is one transaction and one action here; a poll that *)
(* fails rolls back and changes nothing.  A scan spans many polls, while   *)
(* records are created, edited and removed between them.  Records are      *)
(* named by their creation sequence, which also stands for the incarnation *)
(* of the record.  The schedules of one tenant are modelled.               *)
(***************************************************************************)
EXTENDS Integers, FiniteSets

CONSTANTS
    Schedules,      \* recurring schedules of the manifest
    Services,       \* the service workers they run as
    ServiceOf,      \* [Schedules -> Services]
    Selecting,      \* schedules with a selection; the others are target-free
    Repairing,      \* selections for expiry repair
    Descending,     \* selections listed newest first
    Interval,       \* the interval of every schedule
    Caps,           \* what candidate_cap may leave for a page
    Expiries,       \* values of an expiry field
    QueueLimit,     \* pending_per_tenant
    \* bounds of the explored instance
    MaxTime, MaxSeq, MaxVersion, MaxEpoch, MaxEdits

ASSUME RecurrenceAssumption ==
    /\ ServiceOf \in [Schedules -> Services]
    /\ Repairing \subseteq Selecting /\ Descending \subseteq Selecting
    /\ Selecting \subseteq Schedules
    /\ Interval \in Nat \ {0}
    /\ Caps \subseteq 0 .. QueueLimit
    /\ Expiries \subseteq Nat
    /\ {QueueLimit, MaxTime, MaxSeq, MaxVersion, MaxEpoch, MaxEdits}
          \subseteq Nat

VARIABLES
    now,            \* the lifecycle clock
    runtime,        \* nx_job_runtime: generation, epoch, state
    grants,         \* nx_job_grants
    rows,           \* nx_job_recurring of the runtime's generation
    created,        \* the creation counter
    status,         \* what each record is to the selections
    expiry,         \* the expiry field of each record
    edits,          \* edits of records so far
    occurrences,    \* the keys of nx_job_occurrences
    queue,          \* jobs that count against the queue limit
    scans,          \* history: when each scan began and what it owes
    emitted,        \* history: the jobs emitted
    missed, twice   \* history: records a scan left out or emitted again

authority == <<runtime, grants>>
records == <<created, status, expiry, edits>>
history == <<scans, emitted, missed, twice>>
vars == <<now, runtime, grants, rows, created, status, expiry, edits,
          occurrences, queue, scans, emitted, missed, twice>>

-----------------------------------------------------------------------------
Ids == 1 .. MaxSeq

\* The record of a target-free occurrence.
NoRecord == 0

\* Cursors: none, the start frontier without a position, or after a record.
NoCursor == -1
StartFrontier == 0

\* eligible: listed, readable and sealable; hidden: matched by the list's filter
\* but refused by a later read; out: not matched, or no such record.
Status == {"out", "hidden", "eligible"}

Row == [state : {"active", "paused"}, version : Nat, epoch : Nat, next : Nat,
        cutoff : Nat, cutoffSeq : Nat, cursor : Int]

Scan == [start : Nat, began : Nat, owed : SUBSET Nat]

Emission == [schedule : Schedules, gen : Nat, record : Nat, expiry : Nat,
             start : Nat, began : Nat]

\* The state is well typed, a row without a cursor has no cutoffs, and the queue
\* stays within its limit.
TypeOK ==
    /\ now \in 0 .. MaxTime
    /\ runtime \in [gen : Nat, epoch : Nat, state : {"active", "paused"}]
    /\ grants \in [Services -> [version : Nat, epoch : Nat,
                                state : {"active", "revoked"}]]
    /\ rows \in [Schedules -> Row]
    /\ \A s \in Schedules :
          /\ rows[s].cursor >= NoCursor
          /\ rows[s].cursor = NoCursor =>
                rows[s].cutoff = 0 /\ rows[s].cutoffSeq = 0
    /\ created \in 0 .. MaxSeq
    /\ status \in [Ids -> Status]
    /\ expiry \in [Ids -> Nat]
    /\ edits \in 0 .. MaxEdits
    /\ queue \in 0 .. QueueLimit
    /\ scans \in [Schedules -> Scan]
    /\ emitted \subseteq Emission
    /\ {missed, twice} \subseteq SUBSET (Schedules \X Nat)

-----------------------------------------------------------------------------
\* schedule_grant and the first checks of begin_recurrence.  A row that fails
\* only the latter would be paused; by ActiveGranted there is none.
Authorized(s) ==
    LET g == grants[ServiceOf[s]] IN
    /\ runtime.state = "active"
    /\ g.state = "active" /\ g.epoch = runtime.epoch
    /\ rows[s].epoch = runtime.epoch /\ rows[s].version = g.version

\* NEXT_DUE_RECURRING; equal due times are ordered by tenant and name.
Due == {s \in Schedules : rows[s].state = "active" /\ rows[s].next <= now}

NextDue(s) == s \in Due /\ \A t \in Due : rows[s].next <= rows[t].next

\* Slip: every page takes the counter as it is now.
PositionMoving(s) ==
    [cutoff |-> now, seq |-> created, cursor |-> rows[s].cursor]

\* The RecurrenceCursor of begin_recurrence.
Position(s) ==
    IF rows[s].cursor = NoCursor
    THEN [cutoff |-> now, seq |-> created, cursor |-> NoCursor]
    ELSE [cutoff |-> rows[s].cutoff, seq |-> rows[s].cutoffSeq,
          cursor |-> rows[s].cursor]

\* Slip: every occurrence is keyed by its scan.
KeyByScan(s, p, i) == <<s, runtime.gen, i, p.cutoff, p.seq>>

\* Slip: a new grant makes new occurrences.
KeyByGrant(s, p, i) ==
    <<s, runtime.gen, i, p.cutoff, p.seq, rows[s].version>>

\* occurrence_key: repairs leave the scan out, and the grant version is in none.
OccurrenceKey(s, p, i) ==
    IF s \in Repairing
    THEN <<s, runtime.gen, i, expiry[i]>>
    ELSE <<s, runtime.gen, i, p.cutoff, p.seq>>

-----------------------------------------------------------------------------
(***************************************************************************)
(* select_recurring: one page of the canonical list frontier.              *)
(***************************************************************************)
Precedes(s, i, j) == IF s \in Descending THEN i > j ELSE i < j

\* The rows behind the frontier that the native query can return.
Listed(s, p) ==
    {i \in 1 .. p.seq :
        status[i] # "out" /\ (p.cursor > 0 => Precedes(s, p.cursor, i))}

\* FrontierContext::window: the first cap of them.
PageWindow(s, p, cap) ==
    LET c == Listed(s, p)
    IN {i \in c : Cardinality({j \in c : Precedes(s, j, i)}) < cap}

\* Slip: a full page is taken for the last one.
ExhaustedFull(s, p, cap) == Cardinality(Listed(s, p)) <= cap + 1

\* PageWindow.exhausted: the stream ended before its limit.
Exhausted(s, p, cap) == Cardinality(Listed(s, p)) < cap

\* The candidates sealed as targets; the frontier passes the others.
Items(s, p, cap) ==
    {i \in PageWindow(s, p, cap) :
        status[i] = "eligible" /\ (s \in Repairing => expiry[i] <= p.cutoff)}

NextCursor(s, p, cap) ==
    IF Exhausted(s, p, cap) THEN NoCursor
    ELSE CHOOSE i \in PageWindow(s, p, cap) :
            \A j \in PageWindow(s, p, cap) : j = i \/ Precedes(s, j, i)

-----------------------------------------------------------------------------
\* Slip: a completed scan keeps its cutoffs.
FinishedKept(s, p, cursor) ==
    [rows[s] EXCEPT !.next = now + Interval, !.cursor = cursor,
                    !.cutoff = p.cutoff, !.cutoffSeq = p.seq]

\* finish_recurrence.
Finished(s, p, cursor) ==
    [rows[s] EXCEPT
        !.next = now + Interval, !.cursor = cursor,
        !.cutoff = IF cursor = NoCursor THEN 0 ELSE p.cutoff,
        !.cutoffSeq = IF cursor = NoCursor THEN 0 ELSE p.seq]

\* defer_recurrence.
Deferred(s) == [rows[s] EXCEPT !.next = now + 1]

\* What a scan of s that begins now owes an occurrence.
Owed(s) ==
    IF s \notin Selecting THEN {NoRecord}
    ELSE {i \in 1 .. created :
            status[i] = "eligible" /\ (s \in Repairing => expiry[i] <= now)}

ScanOf(s) ==
    IF rows[s].cursor = NoCursor
    THEN [start |-> now, began |-> created, owed |-> Owed(s)]
    ELSE scans[s]

ExpiryOf(s, i) == IF s \in Repairing THEN expiry[i] ELSE 0

EmissionOf(s, i) ==
    [schedule |-> s, gen |-> runtime.gen, record |-> i,
     expiry |-> ExpiryOf(s, i), start |-> ScanOf(s).start,
     began |-> ScanOf(s).began]

\* The job of an occurrence, by what makes two occurrences the same.
Emitted(s, i, jobs) ==
    \E e \in jobs :
        /\ e.schedule = s /\ e.gen = runtime.gen /\ e.record = i
        /\ IF s \in Repairing
           THEN e.expiry = expiry[i]
           ELSE e.start = ScanOf(s).start /\ e.began = ScanOf(s).began

\* emit_recurrence for every item, then finish_recurrence; a full queue rolls
\* the whole batch back.
EmitAndFinish(s, p, items, cursor) ==
    LET fresh == {i \in items : OccurrenceKey(s, p, i) \notin occurrences}
        jobs == emitted \cup {EmissionOf(s, i) : i \in fresh}
        left == {i \in ScanOf(s).owed : ~ Emitted(s, i, jobs)}
    IN /\ queue + Cardinality(fresh) <= QueueLimit
       /\ queue' = queue + Cardinality(fresh)
       /\ occurrences' = occurrences \cup {OccurrenceKey(s, p, i) : i \in fresh}
       /\ rows' = [rows EXCEPT ![s] = Finished(s, p, cursor)]
       /\ emitted' = jobs
       /\ twice' = twice \cup
              {<<s, i>> : i \in {j \in fresh : Emitted(s, j, emitted)}}
       /\ missed' = IF cursor = NoCursor
                    THEN missed \cup {<<s, i>> : i \in left}
                    ELSE missed
       /\ scans' = [scans EXCEPT ![s] = ScanOf(s)]

(***************************************************************************)
(* run_recurrence_once.                                                    *)
(***************************************************************************)
\* A schedule without a selection: one occurrence.
TargetFree(s) ==
    /\ NextDue(s) /\ Authorized(s) /\ s \notin Selecting
    /\ EmitAndFinish(s, Position(s), {NoRecord}, NoCursor)
    /\ UNCHANGED <<now, authority, records>>

\* A page of the selection.
SelectPage(s, cap) ==
    /\ NextDue(s) /\ Authorized(s) /\ s \in Selecting
    /\ cap > 0
    /\ LET p == Position(s)
       IN EmitAndFinish(s, p, Items(s, p, cap), NextCursor(s, p, cap))
    /\ UNCHANGED <<now, authority, records>>

\* The budget affords no candidate: a scan that begins stores its start frontier.
OpenScan(s) ==
    /\ NextDue(s) /\ Authorized(s) /\ s \in Selecting
    /\ 0 \in Caps /\ rows[s].cursor = NoCursor
    /\ EmitAndFinish(s, Position(s), {}, StartFrontier)
    /\ UNCHANGED <<now, authority, records>>

\* The budget affords no candidate: a resumed scan is put off.
DeferScan(s) ==
    /\ NextDue(s) /\ Authorized(s) /\ s \in Selecting
    /\ 0 \in Caps /\ rows[s].cursor # NoCursor
    /\ rows' = [rows EXCEPT ![s] = Deferred(s)]
    /\ UNCHANGED <<now, authority, records, occurrences, queue, history>>

Poll ==
    \E s \in Schedules :
        \/ TargetFree(s)
        \/ \E cap \in Caps : SelectPage(s, cap)
        \/ OpenScan(s)
        \/ DeferScan(s)

-----------------------------------------------------------------------------
\* A job is settled, or cancelled by the operator.
Settle ==
    /\ queue > 0
    /\ queue' = queue - 1
    /\ UNCHANGED <<now, authority, rows, records, occurrences, history>>

\* An action creates a record.
Create ==
    /\ created < MaxSeq
    /\ created' = created + 1
    /\ \E x \in Expiries : expiry' = [expiry EXCEPT ![created + 1] = x]
    /\ status' = [status EXCEPT ![created + 1] = "eligible"]
    /\ UNCHANGED <<now, authority, rows, edits, occurrences, queue, history>>

\* An action edits or removes a record, or changes who may read it.
Edit(i) ==
    /\ i <= created /\ edits < MaxEdits
    /\ edits' = edits + 1
    /\ \E st \in Status, x \in Expiries :
          /\ status' = [status EXCEPT ![i] = st]
          /\ expiry' = [expiry EXCEPT ![i] = x]
    /\ <<status', expiry'>> # <<status, expiry>>
    /\ scans' = [s \in Schedules |-> [scans[s] EXCEPT !.owed = @ \ {i}]]
    /\ UNCHANGED <<now, authority, rows, created, occurrences, queue, emitted,
                   missed, twice>>

Advance ==
    /\ now < MaxTime
    /\ now' = now + 1
    /\ UNCHANGED <<authority, rows, records, occurrences, queue, history>>

(***************************************************************************)
(* Operators and startup.                                                  *)
(***************************************************************************)
\* Slip: the schedules keep their state.
KeptRows == rows

\* PAUSE_TENANT_RECURRING and PAUSE_DEPLOYMENT_RECURRING.
PausedRows == [s \in Schedules |-> [rows[s] EXCEPT !.state = "paused"]]

\* UPSERT_RECURRING: the scan starts over, due at once.
Installed(epoch, version, state) ==
    [state |-> state, version |-> version, epoch |-> epoch, next |-> 0,
     cutoff |-> 0, cutoffSeq |-> 0, cursor |-> NoCursor]

\* revoke_job_grant pauses every schedule of the tenant.
Revoke(w) ==
    /\ grants' = [grants EXCEPT ![w].state = "revoked"]
    /\ rows' = PausedRows
    /\ UNCHANGED <<now, runtime, records, occurrences, queue, history>>

\* grant_job_service resumes the schedules of that worker only.
GrantService(w) ==
    LET version == grants[w].version + 1 IN
    /\ version <= MaxVersion
    /\ grants' = [grants EXCEPT ![w] = [version |-> version,
                                        epoch |-> runtime.epoch,
                                        state |-> "active"]]
    /\ rows' = [s \in Schedules |->
                  IF ServiceOf[s] = w
                  THEN Installed(runtime.epoch, version, "active")
                  ELSE rows[s]]
    /\ runtime' = [runtime EXCEPT !.state = "active"]
    /\ UNCHANGED <<now, records, occurrences, queue, history>>

\* fork_job_runtime.  Clock recovery leaves these tables the same way and retires
\* the deployment, so that Activate follows.
Fork ==
    /\ runtime.epoch < MaxEpoch
    /\ runtime' = [runtime EXCEPT !.epoch = @ + 1, !.state = "paused"]
    /\ grants' = [w \in Services |-> [grants[w] EXCEPT !.state = "revoked"]]
    /\ rows' = PausedRows
    /\ UNCHANGED <<now, records, occurrences, queue, history>>

\* activate_jobs binds a new generation; a paused runtime stays paused.
Activate ==
    LET kept == runtime.state = "paused"
        epoch == runtime.epoch + 1
    IN /\ epoch <= MaxEpoch
       /\ runtime' = [runtime EXCEPT !.gen = @ + 1, !.epoch = epoch]
       /\ grants' = [w \in Services |->
                        [version |-> 1, epoch |-> epoch,
                         state |-> IF kept THEN "revoked" ELSE "active"]]
       /\ rows' = [s \in Schedules |->
                     Installed(epoch, 1, IF kept THEN "paused" ELSE "active")]
       /\ UNCHANGED <<now, records, occurrences, queue, history>>

-----------------------------------------------------------------------------
Init ==
    /\ now = 0
    /\ runtime = [gen |-> 1, epoch |-> 1, state |-> "active"]
    /\ grants = [w \in Services |->
                    [version |-> 1, epoch |-> 1, state |-> "active"]]
    /\ rows = [s \in Schedules |-> Installed(1, 1, "active")]
    /\ created = 0
    /\ status = [i \in Ids |-> "out"]
    /\ expiry = [i \in Ids |-> 0]
    /\ occurrences = {} /\ emitted = {} /\ missed = {} /\ twice = {}
    /\ queue = 0 /\ edits = 0
    /\ scans = [s \in Schedules |-> [start |-> 0, began |-> 0, owed |-> {}]]

Next ==
    \/ Poll
    \/ Settle
    \/ Create
    \/ \E i \in Ids : Edit(i)
    \/ Advance
    \/ \E w \in Services : Revoke(w) \/ GrantService(w)
    \/ Fork
    \/ Activate

Spec == Init /\ [][Next]_vars

\* Workers poll every second and the queue is worked off.
FairSpec == Spec /\ WF_vars(Poll) /\ WF_vars(Settle)

-----------------------------------------------------------------------------
\* An active schedule runs under the authority that is current: run_recurrence_once
\* never fails on the schedule it takes for want of a grant, which would leave it
\* the oldest due one and keep every other schedule from its turn.
ActiveGranted ==
    \A s \in Schedules : rows[s].state = "active" => Authorized(s)

\* A scan emits no record created after it began, however many polls it takes
\* (cutoff_seq enters the query before its limit).
CutoffKept == \A e \in emitted : e.record <= e.began

\* "Ordinary occurrence keys include the scan cutoff and target incarnation. Expiry
\* repair deduplicates ... across later repair scans": no occurrence has two jobs,
\* although operators reset scans and every scan passes the same records.
EmittedOnce == twice = {}

\* A scan that completes has emitted every record that was eligible when it began
\* and has not been changed since, whatever happened to the records around it.
ScanComplete == missed = {}

\* A scan works under current authority and emits what existed when it began, all
\* of it and nothing younger.
ScanSound == TypeOK /\ ActiveGranted /\ CutoffKept /\ ScanComplete

\* A due schedule gets its turn: neither a deferred scan nor a continued one stays
\* ahead of the others.
DueServed ==
    \A s \in Schedules : s \in Due ~> s \notin Due
=============================================================================
