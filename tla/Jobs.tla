-------------------------------- MODULE Jobs --------------------------------
(***************************************************************************)
(* Durable internal jobs: the rows of nx_jobs, the service grants and the  *)
(* runtime row they are captured and executed under, the workers that      *)
(* claim and execute them, and the operator and startup commands.          *)
(*                                                                         *)
(* Short transactions (claim, fail, enqueue, operator commands) are one    *)
(* action each.  The execution transaction is long: it locks the runtime   *)
(* and grant rows for share and the job row for update, runs the guest     *)
(* action, and commits mutation, receipt and success together.  It is two  *)
(* steps here, and what others may do between them is what those locks     *)
(* leave possible on PostgreSQL; SQLite's single writer allows less.       *)
(***************************************************************************)
EXTENDS Integers, FiniteSets

CONSTANTS
    Jobs,           \* capture identities
    NoJob,
    Services,       \* approved (tenant, worker) grants
    Tenants,
    ServiceOf,      \* [Jobs -> Services]
    TenantOf,       \* [Services -> Tenants]
    Hosts,          \* processes that run job workers
    Workers,        \* worker slots of those processes
    HostOf,         \* [Workers -> Hosts]
    MaxAttempts,    \* MAX_JOB_ATTEMPTS (5)
    MaxTries,       \* transactions tried under one claim (3)
    Lease,          \* JOB_LEASE_MILLIS (30 s)
    Window,         \* JOB_RETRY_WINDOW_MILLIS (24 h)
    Backoff,        \* [1..MaxAttempts-1 -> Nat], retry_delay without jitter
    Jitter,         \* the jitters a delay may get
    Delays,         \* how far ahead an action may schedule
    PendingLimit, TenantLimit, Concurrency,
    \* bounds of the explored instance
    MaxTime, MaxVersion, MaxEpoch, MaxInterruptions

ASSUME MapAssumption ==
    /\ ServiceOf \in [Jobs -> Services]
    /\ TenantOf \in [Services -> Tenants]
    /\ HostOf \in [Workers -> Hosts]
    /\ NoJob \notin Jobs

ASSUME LimitAssumption ==
    /\ MaxAttempts \in Nat \ {0}
    /\ MaxTries \in Nat \ {0}
    /\ Lease \in Nat \ {0}
    /\ Window \in Nat \ {0}
    /\ Backoff \in [1 .. MaxAttempts - 1 -> Nat]
    /\ Jitter \subseteq Nat
    /\ Delays \subseteq Nat
    /\ PendingLimit \in Nat \ {0}
    /\ TenantLimit \in 1 .. PendingLimit
    /\ Concurrency \in 1 .. 2
    /\ {MaxTime, MaxVersion, MaxEpoch, MaxInterruptions} \subseteq Nat

VARIABLES
    now,            \* durable lifecycle watermark
    deployment,     \* nx_deployment.generation
    runtime,        \* nx_job_runtime: generation bound, epoch, state
    grants,         \* nx_job_grants of the runtime's generation
    seq,            \* nx_job_queue.claim_seq
    tenantSeq,      \* nx_job_tenants.claim_seq of this generation
    rows,           \* nx_jobs
    receipts,       \* nx_receipts: the jobs whose nonce has an outcome
    hosts,          \* the worker processes and the generation they joined
    workers,        \* what each worker slot is doing
    mutations,      \* history: how often a job's mutation was committed
    ran,            \* history: the fences under which a job was executed
    interruptions   \* lost acknowledgements and process exits so far

authority == <<deployment, runtime, grants>>
queue == <<seq, tenantSeq>>
history == <<mutations, ran>>
vars == <<now, deployment, runtime, grants, seq, tenantSeq, rows, receipts,
          hosts, workers, mutations, ran, interruptions>>

-----------------------------------------------------------------------------
Live == {"pending", "running"}
Occupying == {"pending", "running", "paused"}
States == {"none", "pending", "running", "succeeded", "rejected", "dead",
           "paused"}
Phases == {"idle", "claimed", "executing", "failing"}
Failure == {"rejected", "transient"}

Row == [state : States, attempts : 0 .. MaxAttempts, fence : Nat, lease : Nat,
        eligible : Nat, first : Nat, gen : Nat, epoch : Nat, version : Nat,
        from : Jobs \cup {NoJob}]

NoRow == [state |-> "none", attempts |-> 0, fence |-> 0, lease |-> 0,
          eligible |-> 0, first |-> 0, gen |-> 0, epoch |-> 0, version |-> 0,
          from |-> NoJob]

Grant == [state : {"active", "revoked"}, version : Nat, epoch : Nat]

\* A Claim, how far its worker has come, the time its execution sampled and the
\* failure it has to record.
Attempt == [phase : Phases, job : Jobs \cup {NoJob}, fence : Nat, lease : Nat,
            exhausted : BOOLEAN, tries : 0 .. MaxTries, at : Nat,
            failure : Failure]

Idle == [phase |-> "idle", job |-> NoJob, fence |-> 0, lease |-> 0,
         exhausted |-> FALSE, tries |-> 0, at |-> 0, failure |-> "transient"]

TypeOK ==
    /\ {now, deployment, seq} \subseteq Nat
    /\ runtime \in [gen : Nat, epoch : Nat, state : {"active", "paused"}]
    /\ grants \in [Services -> Grant]
    /\ tenantSeq \in [Tenants -> Nat]
    /\ rows \in [Jobs -> Row]
    /\ receipts \subseteq Jobs
    /\ hosts \in [Hosts -> [up : BOOLEAN, gen : Nat]]
    /\ workers \in [Workers -> Attempt]
    /\ mutations \in [Jobs -> Nat]
    /\ ran \in [Jobs -> SUBSET Nat]
    /\ interruptions \in 0 .. MaxInterruptions

-----------------------------------------------------------------------------
(* Authority and locks.                                                    *)

\* runtime_snapshot: the row is visible only while bound to the deployment.
RuntimeBound == runtime.gen = deployment

\* QueueContext::schedule_grant.
Granted(s) ==
    /\ RuntimeBound
    /\ runtime.state = "active"
    /\ grants[s].state = "active"
    /\ grants[s].epoch = runtime.epoch

\* The comparison of lock_execution_with_time, succeed and fail, with
\* Grant::permits.
Authority(j) ==
    LET g == grants[ServiceOf[j]] IN
    /\ runtime.state = "active"
    /\ runtime.gen = rows[j].gen
    /\ runtime.epoch = rows[j].epoch
    /\ g.state = "active"
    /\ g.version = rows[j].version
    /\ g.epoch = rows[j].epoch

Executing == {w \in Workers : workers[w].phase = "executing"}

\* LOCK_JOB_FENCE of an execution transaction that is still open.
RowLocked(j) == \E w \in Executing : workers[w].job = j

\* LOCK_RUNTIME waits for every share lock of an open execution.
RuntimeExclusive == Executing = {}

\* temporal_attempt: a process of another generation is retired.
Admitted(h) == hosts[h].up /\ hosts[h].gen = deployment /\ RuntimeBound

-----------------------------------------------------------------------------
(* Capture.                                                                *)

\* Slip: the limits are compared as if the new row were not counted.
QuotaFreeLate(R, t) ==
    LET active == {j \in Jobs : R[j].state \in Occupying} IN
    /\ Cardinality(active) <= PendingLimit
    /\ Cardinality({j \in active : TenantOf[ServiceOf[j]] = t}) <= TenantLimit

\* ACTIVE_JOB_COUNTS over the rows R.
QuotaFree(R, t) ==
    LET active == {j \in Jobs : R[j].state \in Occupying} IN
    /\ Cardinality(active) < PendingLimit
    /\ Cardinality({j \in active : TenantOf[ServiceOf[j]] = t}) < TenantLimit

\* INSERT_JOB, for work due after d.
Inserted(j, d, parent) ==
    [NoRow EXCEPT !.state = "pending", !.eligible = now + d, !.first = now + d,
                  !.gen = deployment, !.epoch = runtime.epoch,
                  !.version = grants[ServiceOf[j]].version, !.from = parent]

\* QueueContext::enqueue of a fresh capture into the rows R.
MayEnqueue(R, j, d) ==
    /\ now + d + Window + Lease <= MaxTime
    /\ Granted(ServiceOf[j])
    /\ R[j].state = "none"
    /\ QuotaFree(R, TenantOf[ServiceOf[j]])

\* enqueue_action_jobs, in the transaction of a web action.
Enqueue(j, d) ==
    /\ MayEnqueue(rows, j, d)
    /\ rows' = [rows EXCEPT ![j] = Inserted(j, d, NoJob)]
    /\ UNCHANGED <<now, authority, queue, receipts, hosts, workers, history,
                   interruptions>>

-----------------------------------------------------------------------------
(* Claim.                                                                  *)

\* Slip: an expired lease gives its capacity back.
CapacityUnexpired ==
    Cardinality({j \in Jobs : /\ rows[j].state = "running"
                              /\ rows[j].lease > now}) < Concurrency

\* RUNNING_JOB_COUNT counts every running row, expired leases too.
Capacity == Cardinality({j \in Jobs : rows[j].state = "running"}) < Concurrency

\* Slip: only pending rows are candidates.
ClaimablePending(h) ==
    {j \in Jobs :
        /\ rows[j].gen = hosts[h].gen
        /\ ~ RowLocked(j)
        /\ rows[j].state = "pending" /\ rows[j].eligible <= now /\ Capacity}

\* The WHERE clause of next_claimable, with SKIP LOCKED.
Claimable(h) ==
    {j \in Jobs :
        /\ rows[j].gen = hosts[h].gen
        /\ ~ RowLocked(j)
        /\ \/ rows[j].state = "running" /\ rows[j].lease <= now
           \/ rows[j].state = "pending" /\ rows[j].eligible <= now /\ Capacity}

SeqOf(j) == tenantSeq[TenantOf[ServiceOf[j]]]

\* ORDER BY claim_seq, eligible_ms, id LIMIT 1; the id is a digest.
NextClaimable(h) ==
    {j \in Claimable(h) :
        \A k \in Claimable(h) :
            \/ SeqOf(j) < SeqOf(k)
            \/ SeqOf(j) = SeqOf(k) /\ rows[j].eligible <= rows[k].eligible}

\* CLAIM_JOB.
Claimed(r) ==
    [r EXCEPT !.state = "running", !.fence = @ + 1, !.lease = now + Lease,
              !.attempts = IF @ < MaxAttempts THEN @ + 1 ELSE @]

\* Slip: the claim after the last attempt is not told that it is exhausted.
ClaimOfLate(j) ==
    [Idle EXCEPT !.phase = "claimed", !.job = j, !.fence = rows[j].fence + 1,
                 !.lease = now + Lease,
                 !.exhausted = rows[j].attempts > MaxAttempts]

ClaimOf(j) ==
    [Idle EXCEPT !.phase = "claimed", !.job = j, !.fence = rows[j].fence + 1,
                 !.lease = now + Lease,
                 !.exhausted = rows[j].attempts >= MaxAttempts]

\* QueueContext::claim.  A poll that finds nothing advances claim_seq alone,
\* which leaves the order of the tenants as it is.
ClaimTx(w, j) ==
    LET h == HostOf[w] IN
    /\ workers[w].phase = "idle"
    /\ Admitted(h)
    /\ runtime.state = "active"
    /\ j \in NextClaimable(h)
    /\ rows' = [rows EXCEPT ![j] = Claimed(@)]
    /\ seq' = seq + 1
    /\ tenantSeq' = [tenantSeq EXCEPT ![TenantOf[ServiceOf[j]]] = seq + 1]
    /\ UNCHANGED <<now, authority, receipts, hosts, history>>

Claim(w, j) ==
    /\ ClaimTx(w, j)
    /\ workers' = [workers EXCEPT ![w] = ClaimOf(j)]
    /\ UNCHANGED interruptions

Interrupt ==
    /\ interruptions < MaxInterruptions
    /\ interruptions' = interruptions + 1

\* The claim took effect and its acknowledgement was lost.
ClaimLost(w, j) ==
    /\ ClaimTx(w, j)
    /\ Interrupt
    /\ UNCHANGED workers

-----------------------------------------------------------------------------
(* Execution: lock_execution_with_time, the action, succeed or fail.       *)

JobAt(w) == workers[w].job
RowAt(w) == rows[JobAt(w)]
RetryEnd(r) == r.first + Window

\* Slip: the row is found by its fence, whatever became of it.
HoldsSettled(w) == RowAt(w).fence = workers[w].fence

\* The row is still running under this claim (LOCK_JOB_FENCE and the state
\* checked by lock_execution_with_time, succeed and fail).
Holds(w) ==
    /\ RowAt(w).fence = workers[w].fence
    /\ RowAt(w).state = "running"

\* Slip: the lease outlives the settlement.
SettledLeased(r, state, eligible) ==
    [r EXCEPT !.state = state, !.eligible = eligible]

\* FINISH_RUNNING_JOB, through QueueContext::transition.
Settled(r, state, eligible) ==
    [r EXCEPT !.state = state, !.eligible = eligible, !.lease = 0]

To(w, a) == workers' = [workers EXCEPT ![w] = a]

\* The transactions of worker w are admitted and do not wait for a row lock.
TxReady(w) == Admitted(HostOf[w]) /\ ~ RowLocked(JobAt(w))

\* What lock_execution_with_time makes of a row that this claim holds:
\* "running" goes on to the action, anything else is settled and committed.
LockedRow(w) ==
    LET r == RowAt(w) IN
    IF JobAt(w) \in receipts THEN Settled(r, "succeeded", r.first)
    ELSE IF now >= r.lease THEN r
    ELSE IF ~ Authority(JobAt(w)) THEN Settled(r, "paused", now)
    ELSE IF now >= RetryEnd(r) \/ workers[w].exhausted
    THEN Settled(r, "dead", now)
    ELSE r

\* Execution::Ready: the transaction stays open.
LockReady(w) ==
    /\ workers[w].phase = "claimed"
    /\ TxReady(w)
    /\ Holds(w)
    /\ now < RowAt(w).lease
    /\ LockedRow(w).state = "running"
    /\ To(w, [workers[w] EXCEPT !.phase = "executing", !.at = now])
    /\ ran' = [ran EXCEPT ![JobAt(w)] = @ \cup {workers[w].fence}]
    /\ UNCHANGED <<now, authority, queue, rows, receipts, hosts, mutations,
                   interruptions>>

\* Execution::Recovered, Paused or Dead, committed at once; or the claim is
\* superseded, settled or expired, which is an error that changes nothing.
LockSettle(w) ==
    /\ workers[w].phase = "claimed"
    /\ TxReady(w)
    /\ ~ Holds(w) \/ now >= RowAt(w).lease \/ LockedRow(w).state # "running"
    /\ rows' = IF Holds(w) THEN [rows EXCEPT ![JobAt(w)] = LockedRow(w)]
               ELSE rows
    /\ To(w, Idle)
    /\ UNCHANGED <<now, authority, queue, receipts, hosts, history,
                   interruptions>>

\* The claimed execution does not begin: its process is retired, its database
\* call fails, or a settlement is not committed.  The row keeps its lease.
LockFail(w) ==
    /\ workers[w].phase = "claimed"
    /\ \/ ~ Admitted(HostOf[w]) /\ UNCHANGED interruptions
       \/ Interrupt
    /\ To(w, Idle)
    /\ UNCHANGED <<now, authority, queue, rows, receipts, hosts, history>>

\* Mutation, receipt, follow-up captures and QueueContext::succeed in one
\* COMMIT.  The worker is done whether or not it is acknowledged.
ExecuteCommit(w, K, d) ==
    LET j == JobAt(w) IN
    /\ workers[w].phase = "executing"
    /\ Holds(w)
    /\ Authority(j)
    /\ \A k \in K : MayEnqueue(rows, k, d)
    /\ rows' = [k \in Jobs |->
                  IF k = j THEN Settled(rows[j], "succeeded", rows[j].lease)
                  ELSE IF k \in K THEN Inserted(k, d, NoJob) ELSE rows[k]]
    /\ receipts' = receipts \cup {j}
    /\ mutations' = [mutations EXCEPT ![j] = @ + 1]
    /\ To(w, Idle)
    /\ UNCHANGED <<now, authority, queue, hosts, ran, interruptions>>

\* A known abort, or a COMMIT known to have failed: try again under the same
\* claim while the error is retryable, otherwise record a transient failure.
ExecuteAbort(w) ==
    /\ workers[w].phase = "executing"
    /\ \/ /\ workers[w].tries < MaxTries - 1
          /\ To(w, [workers[w] EXCEPT !.phase = "claimed", !.tries = @ + 1])
       \/ To(w, [workers[w] EXCEPT !.phase = "failing",
                                   !.failure = "transient"])
    /\ UNCHANGED <<now, authority, queue, rows, receipts, hosts, history,
                   interruptions>>

\* The action rejected, conflicted, or was refused before it ran.
ExecuteReject(w) ==
    /\ workers[w].phase = "executing"
    /\ To(w, [workers[w] EXCEPT !.phase = "failing", !.failure = "rejected"])
    /\ UNCHANGED <<now, authority, queue, rows, receipts, hosts, history,
                   interruptions>>

\* A raw error, or the work deadline: the transaction is rolled back and the
\* row stays running for recovery after its lease.
ExecuteError(w) ==
    /\ workers[w].phase = "executing"
    /\ To(w, Idle)
    /\ UNCHANGED <<now, authority, queue, rows, receipts, hosts, history,
                   interruptions>>

\* retry_delay from the time that the failed execution sampled.
NextRetry(w, jitter) == workers[w].at + Backoff[RowAt(w).attempts] + jitter

\* The allowance or the window is used up.
Spent(w) ==
    \/ RowAt(w).attempts >= MaxAttempts
    \/ workers[w].at >= RetryEnd(RowAt(w))

\* QueueContext::fail of a row that this claim holds.
FailedRow(w, jitter) ==
    LET r == RowAt(w)  a == workers[w] IN
    IF JobAt(w) \in receipts THEN Settled(r, "succeeded", a.at)
    ELSE IF ~ Authority(JobAt(w)) THEN Settled(r, "paused", a.at)
    ELSE IF a.failure = "rejected" THEN Settled(r, "rejected", a.at)
    ELSE IF Spent(w) \/ NextRetry(w, jitter) >= RetryEnd(r)
    THEN Settled(r, "dead", a.at)
    ELSE Settled(r, "pending", NextRetry(w, jitter))

\* finish_job_failure, in a fresh transaction.
Fail(w, jitter) ==
    /\ workers[w].phase = "failing"
    /\ TxReady(w)
    /\ rows' = IF Holds(w)
               THEN [rows EXCEPT ![JobAt(w)] = FailedRow(w, jitter)]
               ELSE rows
    /\ To(w, Idle)
    /\ UNCHANGED <<now, authority, queue, receipts, hosts, history,
                   interruptions>>

\* That transaction is not admitted, fails, or is not committed.
FailLost(w) ==
    /\ workers[w].phase = "failing"
    /\ \/ ~ Admitted(HostOf[w]) /\ UNCHANGED interruptions
       \/ Interrupt
    /\ To(w, Idle)
    /\ UNCHANGED <<now, authority, queue, rows, receipts, hosts, history>>

-----------------------------------------------------------------------------
(* Processes and the clock.                                                *)

\* activate and start_job_service join the current generation.
HostStart(h) ==
    /\ ~ hosts[h].up
    /\ RuntimeBound
    /\ hosts' = [hosts EXCEPT ![h] = [up |-> TRUE, gen |-> deployment]]
    /\ UNCHANGED <<now, authority, queue, rows, receipts, workers, history,
                   interruptions>>

\* A process ends at any point; its open transactions are rolled back.
HostExit(h) ==
    /\ hosts[h].up
    /\ Interrupt
    /\ hosts' = [hosts EXCEPT ![h].up = FALSE]
    /\ workers' = [w \in Workers |-> IF HostOf[w] = h THEN Idle ELSE workers[w]]
    /\ UNCHANGED <<now, authority, queue, rows, receipts, history>>

\* A process of a retired generation is shut down and replaced.
HostRetire(h) ==
    /\ hosts[h].up
    /\ hosts[h].gen # deployment
    /\ \A w \in Workers : HostOf[w] = h => workers[w].phase = "idle"
    /\ hosts' = [hosts EXCEPT ![h].up = FALSE]
    /\ UNCHANGED <<now, authority, queue, rows, receipts, workers, history,
                   interruptions>>

\* The request deadline of a claim covers its execution and its failure and lies
\* below the lease: a worker is overtaken by its own lease only when it stalls
\* past its deadline or the durable clock jumps.
Overtaken == \E w \in Workers : workers[w].lease = now + 1

\* lifecycle_clock::tick.  Past MaxTime it only outlasts the leases left.
Tick ==
    /\ now < MaxTime \/ \E j \in Jobs : rows[j].lease > now
    /\ IF Overtaken THEN Interrupt ELSE UNCHANGED interruptions
    /\ now' = now + 1
    /\ UNCHANGED <<authority, queue, rows, receipts, hosts, workers, history>>

-----------------------------------------------------------------------------
(* Operator commands, each under the exclusive runtime lock.               *)

Operator ==
    /\ RuntimeBound
    /\ RuntimeExclusive
    /\ UNCHANGED <<now, deployment, queue, receipts, hosts, workers, history,
                   interruptions>>

\* Every PAUSE_... statement, for the jobs J.
PauseOf(J) ==
    [j \in Jobs |->
        IF rows[j].state \in Live /\ j \in J
        THEN [rows[j] EXCEPT !.state = "paused", !.lease = 0]
        ELSE rows[j]]

\* Slip: the statement that pauses a worker's jobs selects none.
NoJobsOf(s) == {}

\* PAUSE_WORKER_JOBS_REVOKED and PAUSE_WORKER_JOBS_CHANGED.
JobsOf(s) == {j \in Jobs : ServiceOf[j] = s /\ rows[j].gen = deployment}

\* revoke_job_grant keeps the version: only the state changes.
Revoke(s) ==
    /\ Operator
    /\ grants[s].state = "active"
    /\ grants' = [grants EXCEPT ![s].state = "revoked"]
    /\ rows' = PauseOf(JobsOf(s))
    /\ UNCHANGED runtime

\* grant_job_service: a new version under the current epoch; ends a pause.
GrantService(s) ==
    /\ Operator
    /\ grants[s].version < MaxVersion
    /\ grants' = [grants EXCEPT ![s] = [state |-> "active",
                                        version |-> @.version + 1,
                                        epoch |-> runtime.epoch]]
    /\ rows' = PauseOf(JobsOf(s))
    /\ runtime' = [runtime EXCEPT !.state = "active"]

\* grant_effect_endpoint ends a pause of the shared runtime too.
GrantEffect ==
    /\ Operator
    /\ runtime.state = "paused"
    /\ runtime' = [runtime EXCEPT !.state = "active"]
    /\ UNCHANGED <<grants, rows>>

\* Slip: a job that succeeded can be cancelled.
CancellableAny == {"pending", "running", "paused", "dead", "succeeded"}

\* CANCEL_JOB.
Cancellable == {"pending", "running", "paused", "dead"}

Rejected(r) == [r EXCEPT !.state = "rejected", !.lease = 0]

Cancel(j) ==
    /\ Operator
    /\ rows[j].state \in Cancellable
    /\ rows' = [rows EXCEPT ![j] = Rejected(@)]
    /\ UNCHANGED <<runtime, grants>>

\* A replacement's identity is derived from its source and the current grant:
\* the same reconciliation again finds it stored.
AlreadyReconciled(j) ==
    \E k \in Jobs :
        /\ rows[k].from = j
        /\ rows[k].gen = deployment
        /\ rows[k].epoch = runtime.epoch
        /\ rows[k].version = grants[ServiceOf[j]].version

\* reconciliation_source, schedule_grant and enqueue_reconciled: the source is
\* settled, and k is enqueued in its place, in one transaction.
Reconcile(j, k) ==
    LET settled == [rows EXCEPT ![j] = Rejected(@)] IN
    /\ Operator
    /\ rows[j].state \in {"paused", "dead", "rejected"}
    /\ ServiceOf[k] = ServiceOf[j]
    /\ ~ AlreadyReconciled(j)
    /\ MayEnqueue(settled, k, 0)
    /\ rows' = [settled EXCEPT ![k] = Inserted(k, 0, j)]
    /\ UNCHANGED <<runtime, grants>>

\* The paused runtime of a new epoch, everything queued under it held.
NewEpoch ==
    /\ runtime.epoch < MaxEpoch
    /\ runtime' = [runtime EXCEPT !.epoch = @ + 1, !.state = "paused"]
    /\ rows' = PauseOf(Jobs)

\* fork_job_runtime, with apply_job_fork.
Fork ==
    /\ Operator
    /\ NewEpoch
    /\ grants' = [s \in Services |-> [grants[s] EXCEPT !.state = "revoked"]]

\* Database::recover_clock retires the generation; active grants also lose
\* their version.
RecoverClock ==
    /\ RuntimeBound
    /\ RuntimeExclusive
    /\ NewEpoch
    /\ deployment' = deployment + 1
    /\ grants' = [s \in Services |->
          IF grants[s].state = "active"
          THEN [grants[s] EXCEPT !.state = "revoked", !.version = @ + 1]
          ELSE grants[s]]
    /\ UNCHANGED <<now, queue, receipts, hosts, workers, history,
                   interruptions>>

\* activate_jobs for another generation, new or left by clock recovery: rotate
\* the epoch, hold everything, install the approved grants at version 1.  A
\* paused runtime stays paused and its grants start revoked.  Under the same
\* generation and approval activate_jobs changes nothing.
Activate(g) ==
    /\ g # runtime.gen
    /\ RuntimeExclusive
    /\ runtime.epoch < MaxEpoch
    /\ deployment' = g
    /\ runtime' = [runtime EXCEPT !.gen = g, !.epoch = @ + 1]
    /\ rows' = PauseOf(Jobs)
    /\ grants' = [s \in Services |->
          [state |-> IF runtime.state = "active" THEN "active" ELSE "revoked",
           version |-> 1, epoch |-> runtime.epoch + 1]]
    /\ tenantSeq' = [t \in Tenants |-> 0]
    /\ UNCHANGED <<now, seq, receipts, hosts, workers, history, interruptions>>

-----------------------------------------------------------------------------
\* A first activation has bound an empty store.
Init ==
    /\ now = 1
    /\ deployment = 1
    /\ runtime = [gen |-> 1, epoch |-> 1, state |-> "active"]
    /\ grants = [s \in Services |->
                    [state |-> "active", version |-> 1, epoch |-> 1]]
    /\ seq = 0
    /\ tenantSeq = [t \in Tenants |-> 0]
    /\ rows = [j \in Jobs |-> NoRow]
    /\ receipts = {}
    /\ hosts = [h \in Hosts |-> [up |-> FALSE, gen |-> 0]]
    /\ workers = [w \in Workers |-> Idle]
    /\ mutations = [j \in Jobs |-> 0]
    /\ ran = [j \in Jobs |-> {}]
    /\ interruptions = 0

WorkerStep(w) ==
    \/ \E j \in Jobs : Claim(w, j) \/ ClaimLost(w, j)
    \/ LockReady(w)
    \/ LockSettle(w)
    \/ LockFail(w)
    \/ ExecuteCommit(w, {}, 0)
    \/ \E k \in Jobs : \E d \in Delays : ExecuteCommit(w, {k}, d)
    \/ ExecuteAbort(w)
    \/ ExecuteReject(w)
    \/ ExecuteError(w)
    \/ \E jitter \in Jitter : Fail(w, jitter)
    \/ FailLost(w)

OperatorStep ==
    \/ \E s \in Services : Revoke(s) \/ GrantService(s)
    \/ GrantEffect
    \/ \E j \in Jobs : Cancel(j)
    \/ \E j, k \in Jobs : Reconcile(j, k)
    \/ Fork

StartupStep ==
    \/ RecoverClock
    \/ \E g \in {deployment, deployment + 1} : Activate(g)

Next ==
    \/ \E j \in Jobs : \E d \in Delays : Enqueue(j, d)
    \/ \E w \in Workers : WorkerStep(w)
    \/ \E h \in Hosts : HostStart(h) \/ HostExit(h) \/ HostRetire(h)
    \/ Tick
    \/ OperatorStep
    \/ StartupStep

Spec == Init /\ [][Next]_vars

-----------------------------------------------------------------------------
\* Every pending or running job carries the authority that is current now: the
\* commands that revoke, grant, fork, activate or recover pause what they affect
\* in the same transaction, so neither a claim nor an execution transaction can
\* meet a stale envelope, open executions included.
EnvelopeCurrent ==
    \A j \in Jobs : rows[j].state \in Live => RuntimeBound /\ Authority(j)

\* At most `concurrency` jobs are running, over all processes, although expired
\* leases are claimed again without asking for capacity (claim).
RunningWithinConcurrency ==
    Cardinality({j \in Jobs : rows[j].state = "running"}) <= Concurrency

\* "At most five attempts": no capture is executed under more than MaxAttempts
\* claims, whatever is lost, expired, retried or claimed again.
AttemptsBounded == \A j \in Jobs : Cardinality(ran[j]) <= MaxAttempts

\* The shape that QueueContext::row asserts of every stored row, and that a claim
\* holding the fence finds its own lease; a violation would leave the row
\* unreadable to its worker for good.
StoredShape ==
    /\ \A j \in Jobs :
        LET r == rows[j] IN
        /\ r.state # "none" => r.eligible >= r.first
        /\ r.state = "running" => r.lease > 0 /\ r.fence > 0 /\ r.attempts > 0
        /\ r.state = "pending" => r.attempts < MaxAttempts
        /\ r.state # "running" => r.lease = 0
    /\ \A w \in Workers :
        workers[w].phase # "idle" /\ Holds(w) => RowAt(w).lease = workers[w].lease

\* A receipt exists exactly for the jobs that succeeded: recovery by receipt
\* never meets "receipt with inconsistent job state".
ReceiptMeansSuccess == receipts = {j \in Jobs : rows[j].state = "succeeded"}

\* Every stored row can be read again, by its worker and by the recovery by
\* receipt, whatever interleaved with the attempt that wrote it.
StoredSound == TypeOK /\ StoredShape /\ ReceiptMeansSuccess

\* Pending, running and paused captures stay within the limits of the app and of
\* the tenant, replacements and follow-ups included.
JobQuotaRespected ==
    LET active == {j \in Jobs : rows[j].state \in Occupying} IN
    /\ Cardinality(active) <= PendingLimit
    /\ \A t \in Tenants :
        Cardinality({j \in active : TenantOf[ServiceOf[j]] = t}) <= TenantLimit

-----------------------------------------------------------------------------
Status(r) ==
    CASE r.state \in Live -> "queued"
      [] r.state = "paused" -> "held"
      [] OTHER -> r.state

Lifecycle == INSTANCE JobLifecycle
    WITH status <- [j \in Jobs |-> Status(rows[j])], done <- mutations

\* The queue implements JobLifecycle: a mutation is committed once and only from
\* the queue, and a job that was held, rejected, given up or done is not brought
\* back by a late worker.
JobLifecycleSpec == Lifecycle!Spec

\* start_job_service polls every second in each worker and an action has a
\* deadline; the tick runs every second; a supervisor starts the process again.
Fairness ==
    /\ \A w \in Workers : WF_vars(WorkerStep(w))
    /\ \A h \in Hosts : WF_vars(HostStart(h))
    /\ WF_vars(Tick)

FairSpec == Spec /\ Fairness

\* No job is stranded: what is pending or running ends succeeded, rejected, dead
\* or paused, although claims and settlements are lost and processes die.
JobSettles ==
    \A j \in Jobs : rows[j].state \in Live ~> rows[j].state \notin Live
=============================================================================
