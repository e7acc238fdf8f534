------------------------------- MODULE Outbox -------------------------------
(***************************************************************************)
(* The transactional outbox of approved external effects: the rows of      *)
(* nx_outbox, the authority they are captured and sent under (the shared   *)
(* runtime row, endpoint grants, secret grants), the delivery workers that *)
(* claim, check, send and settle them, and the operator and startup        *)
(* commands that change the authority meanwhile.                           *)
(*                                                                         *)
(* Every database transaction of the code runs SERIALIZABLE (BEGIN         *)
(* IMMEDIATE on SQLite), so one transaction is one action.  What           *)
(* interleaves is the sequence of transactions of one delivery attempt     *)
(* (claim, preflight, finalize or release) with those of the other         *)
(* workers, of the operator and of startup, and with the clock.  A COMMIT  *)
(* may be refused, or may take effect without its acknowledgement: each    *)
(* worker transaction has both failures.                                   *)
(***************************************************************************)
EXTENDS Integers, FiniteSets

CONSTANTS
    Effects,        \* capture identities (digest of origin scope and ordinal)
    NoEffect,       \* "this slot has marked no capture"
    Endpoints,      \* approved (tenant, endpoint) bindings
    Tenants,
    Slots,          \* secret slots
    NoSlot,         \* "this endpoint uses no secret"
    Dirs,           \* owner directories; one delivery process each (flock)
    Workers,        \* physical delivery slots of those processes
    EndpointOf,     \* [Effects -> Endpoints]
    TenantOf,       \* [Endpoints -> Tenants]
    SlotOf,         \* [Endpoints -> Slots \cup {NoSlot}]
    HomeOf,         \* [Workers -> Dirs]
    HomeDir,        \* the directory that first binds the queue
    MaxAttempts,    \* MAX_EFFECT_ATTEMPTS (5)
    Lease,          \* EFFECT_LEASE_MILLIS (60 s)
    Window,         \* EFFECT_RETRY_WINDOW_MILLIS (24 h)
    Backoff,        \* [1..MaxAttempts-1 -> Nat], the base retry delays
    RetryAfter,     \* the Retry-After values a receiver may send
    AppLimit,       \* nx_effect_queue.pending_limit
    TenantLimit,    \* nx_effect_queue.tenant_limit
    Concurrency,    \* nx_effect_queue.concurrency (1 or 2)
    Failures,       \* the failures considered: "commit", "retain", "exit"
    \* bounds of the explored instance
    MaxTime, MaxVersion, MaxEpoch, MaxRound, MaxInterruptions

ASSUME MapAssumption ==
    /\ EndpointOf \in [Effects -> Endpoints]
    /\ TenantOf \in [Endpoints -> Tenants]
    /\ SlotOf \in [Endpoints -> Slots \cup {NoSlot}]
    /\ HomeOf \in [Workers -> Dirs]
    /\ HomeDir \in Dirs
    /\ NoSlot \notin Slots
    /\ NoEffect \notin Effects

ASSUME LimitAssumption ==
    /\ MaxAttempts \in Nat \ {0}
    /\ Lease \in Nat \ {0}
    /\ Window \in Nat \ {0}
    /\ Backoff \in [1 .. MaxAttempts - 1 -> Nat]
    /\ RetryAfter \subseteq Nat
    /\ AppLimit \in Nat \ {0}
    /\ TenantLimit \in 1 .. AppLimit
    /\ Concurrency \in 1 .. 2
    /\ MaxTime \in Nat
    /\ MaxVersion \in Nat
    /\ MaxEpoch \in Nat
    /\ MaxRound \in Nat
    /\ MaxInterruptions \in Nat

VARIABLES
    now,            \* durable lifecycle watermark, the time of every attempt
    deployment,     \* nx_deployment.generation
    runtime,        \* nx_job_runtime: generation bound, epoch, state
    grants,         \* nx_effect_grants of the runtime's generation
    secrets,        \* nx_effect_secrets of the runtime's generation
    queue,          \* nx_effect_queue: bound directory, claim sequence
    tenantSeq,      \* nx_effect_tenants.claim_seq of this generation
    rows,           \* nx_outbox
    owner,          \* the delivery process of each directory
    workers,        \* the attempt each physical slot is running
    sent,           \* history: sends admitted in the row's current round
    acks,           \* history: fences whose POST the receiver answered 2xx
    interruptions   \* failures injected so far

db == <<runtime, grants, secrets>>
history == <<sent, acks>>
vars == <<now, deployment, runtime, grants, secrets, queue, tenantSeq, rows,
          owner, workers, sent, acks, interruptions>>

-----------------------------------------------------------------------------
(* Rows, grants and attempts.                                              *)

Live == {"pending", "running"}
Occupying == {"pending", "running", "paused"}
RowStates == {"none", "pending", "running", "delivered", "dead", "paused",
              "cancelled"}
Phases == {"idle", "claimed", "releasing", "admitted", "posted", "done",
           "retained"}
Results == {"delivered", "retry", "terminal"}

NoRow == [state |-> "none", attempts |-> 0, fence |-> 0, lease |-> 0,
          eligible |-> 0, first |-> 0, round |-> 0, gen |-> 0, epoch |-> 0,
          grantVersion |-> 0, secretVersion |-> 0]

Row == [state : RowStates, attempts : 0 .. MaxAttempts, fence : Nat,
        lease : Nat, eligible : Nat, first : Nat, round : Nat, gen : Nat,
        epoch : Nat, grantVersion : Nat, secretVersion : Nat]

Grant == [state : {"active", "revoked"}, version : Nat, epoch : Nat]

\* EffectClaim, with the phase its attempt has reached and the result of its
\* POST.
Attempt == [phase : Phases, effect : Effects \cup {NoEffect}, fence : Nat,
            gen : Nat, lease : Nat, epoch : Nat, exhausted : BOOLEAN,
            result : Results]

Idle == [phase |-> "idle", effect |-> NoEffect, fence |-> 0, gen |-> 0,
         lease |-> 0, epoch |-> 0, exhausted |-> FALSE, result |-> "retry"]

TypeOK ==
    /\ now \in Nat
    /\ deployment \in Nat
    /\ runtime \in [gen : Nat, epoch : Nat, state : {"active", "paused"}]
    /\ grants \in [Endpoints -> Grant]
    /\ secrets \in [Slots -> Grant]
    /\ queue \in [dir : Dirs, seq : Nat]
    /\ tenantSeq \in [Tenants -> Nat]
    /\ rows \in [Effects -> Row]
    /\ owner \in [Dirs -> [up : BOOLEAN, gen : Nat]]
    /\ workers \in [Workers -> Attempt]
    /\ sent \in [Effects -> Nat]
    /\ acks \in [Effects -> SUBSET Nat]
    /\ interruptions \in 0 .. MaxInterruptions

-----------------------------------------------------------------------------
(* Authority.                                                              *)

\* OutboxContext::grant: a missing, revoked or differently bound secret makes
\* its endpoint's grant read as revoked.
GrantState(b) ==
    IF /\ SlotOf[b] # NoSlot
       /\ \/ secrets[SlotOf[b]].state # "active"
          \/ secrets[SlotOf[b]].epoch # grants[b].epoch
    THEN "revoked"
    ELSE grants[b].state

SecretVersion(b) == IF SlotOf[b] = NoSlot THEN 0 ELSE secrets[SlotOf[b]].version

\* locked_runtime: the row is visible only while it is bound to the current
\* deployment generation; every command and attempt fails otherwise.
RuntimeBound == runtime.gen = deployment

\* OutboxContext::endpoint_grant.
EndpointGranted(b) ==
    /\ RuntimeBound
    /\ runtime.state = "active"
    /\ GrantState(b) = "active"
    /\ grants[b].epoch = runtime.epoch

\* OutboxContext::authority: the row's captured envelope is still current.
Authority(e) ==
    LET b == EndpointOf[e]  r == rows[e] IN
    /\ runtime.state = "active"
    /\ runtime.epoch = r.epoch
    /\ GrantState(b) = "active"
    /\ grants[b].epoch = r.epoch
    /\ grants[b].version = r.grantVersion
    /\ SecretVersion(b) = r.secretVersion

\* EffectDelivery::admission: a process of another generation is retired.
Admitted(d) == owner[d].up /\ owner[d].gen = deployment

-----------------------------------------------------------------------------
(* Capture: the last step of a successful action's transaction.            *)

Count(t) ==
    Cardinality({e \in Effects : /\ rows[e].state \in Occupying
                                 /\ TenantOf[EndpointOf[e]] = t})

CountAll == Cardinality({e \in Effects : rows[e].state \in Occupying})

\* Slip: the limit is compared after the insert.
QuotaFreeLate(t) == CountAll <= AppLimit /\ Count(t) <= TenantLimit

\* ACTIVE_COUNTS against the limits, in enqueue and in check_operator_quota.
QuotaFree(t) == CountAll < AppLimit /\ Count(t) < TenantLimit

\* A new round must be able to end inside the explored time.
Fits == now + Window + Lease <= MaxTime

\* OutboxContext::enqueue of a fresh capture.  Re-enqueueing a stored capture
\* changes nothing: an equal digest returns, a different one fails.
Enqueue(e) ==
    LET b == EndpointOf[e] IN
    /\ Fits
    /\ EndpointGranted(b)
    /\ rows[e].state = "none"
    /\ QuotaFree(TenantOf[b])
    /\ rows' = [rows EXCEPT ![e] =
          [NoRow EXCEPT !.state = "pending", !.eligible = now, !.first = now,
                        !.gen = deployment, !.epoch = runtime.epoch,
                        !.grantVersion = grants[b].version,
                        !.secretVersion = SecretVersion(b)]]
    /\ UNCHANGED <<now, deployment, db, queue, tenantSeq, owner, workers,
                   history, interruptions>>

-----------------------------------------------------------------------------
(* One delivery attempt: claim, preflight, POST, finalize, physical finish.*)

\* A refused or unacknowledged COMMIT ("commit"), a physical stop that stays
\* unconfirmed ("retain"), the end of a process ("exit").
Interrupt(kind) ==
    /\ kind \in Failures
    /\ interruptions < MaxInterruptions
    /\ interruptions' = interruptions + 1

\* DeliveryOwner::active_claims.
ActiveClaims(d) ==
    {workers[w].effect : w \in {v \in Workers : HomeOf[v] = d}} \ {NoEffect}

\* Slip: captures still marked by a slot of this process are not excluded.
ClaimableMarked(d) ==
    {e \in Effects :
        /\ rows[e].gen = owner[d].gen
        /\ \/ rows[e].state = "pending" /\ rows[e].eligible <= now
           \/ rows[e].state = "running" /\ rows[e].lease <= now}

\* Slip: an expired lease does not make a row claimable again.
ClaimablePending(d) ==
    {e \in Effects \ ActiveClaims(d) :
        /\ rows[e].gen = owner[d].gen
        /\ rows[e].state = "pending" /\ rows[e].eligible <= now}

\* The WHERE clause of next_claimable.
Claimable(d) ==
    {e \in Effects \ ActiveClaims(d) :
        /\ rows[e].gen = owner[d].gen
        /\ \/ rows[e].state = "pending" /\ rows[e].eligible <= now
           \/ rows[e].state = "running" /\ rows[e].lease <= now}

ClaimSeqOf(e) == tenantSeq[TenantOf[EndpointOf[e]]]

\* ORDER BY claim_seq, eligible_ms, id LIMIT 1.  The id is a digest: which of
\* two rows equal in both other keys comes first is arbitrary.
NextClaimable(d) ==
    {e \in Claimable(d) :
        \A f \in Claimable(d) :
            \/ ClaimSeqOf(e) < ClaimSeqOf(f)
            \/ ClaimSeqOf(e) = ClaimSeqOf(f) /\ rows[e].eligible <= rows[f].eligible}

\* The guards of OutboxContext::claim for the process of directory d.
MayClaim(d) ==
    /\ Admitted(d)
    /\ RuntimeBound
    /\ runtime.state = "active"
    /\ queue.dir = d
    /\ Cardinality(ActiveClaims(d)) < Concurrency

\* CLAIM_CAPTURE.
Claimed(r) ==
    [r EXCEPT !.state = "running", !.fence = @ + 1, !.lease = now + Lease,
              !.attempts = IF @ < MaxAttempts THEN @ + 1 ELSE @]

\* The EffectClaim returned for a row as it was before the claim.
ClaimOf(e, d) ==
    [phase |-> "claimed", effect |-> e, fence |-> rows[e].fence + 1,
     gen |-> owner[d].gen, lease |-> now + Lease, epoch |-> runtime.epoch,
     exhausted |-> rows[e].attempts >= MaxAttempts, result |-> "retry"]

To(w, phase) == workers' = [workers EXCEPT ![w].phase = phase]

\* The attempt is over; its slot still carries the mark of its capture.
Marked(e) == [Idle EXCEPT !.phase = "done", !.effect = e]
End(w) == workers' = [workers EXCEPT ![w] = Marked(@.effect)]

ClaimCommits(e) ==
    /\ rows' = [rows EXCEPT ![e] = Claimed(@)]
    /\ queue' = [queue EXCEPT !.seq = @ + 1]
    /\ tenantSeq' = [tenantSeq EXCEPT ![TenantOf[EndpointOf[e]]] = queue.seq + 1]

Claim(w, e) ==
    LET d == HomeOf[w] IN
    /\ workers[w].phase = "idle"
    /\ MayClaim(d)
    /\ e \in NextClaimable(d)
    /\ ClaimCommits(e)
    /\ workers' = [workers EXCEPT ![w] = ClaimOf(e, d)]
    /\ UNCHANGED <<now, deployment, db, owner, history, interruptions>>

\* The slot is marked before COMMIT; without an acknowledgement the attempt
\* ends, whether or not the claim took effect.
ClaimLost(w, e) ==
    LET d == HomeOf[w] IN
    /\ workers[w].phase = "idle"
    /\ MayClaim(d)
    /\ e \in NextClaimable(d)
    /\ Interrupt("commit")
    /\ ClaimCommits(e) \/ UNCHANGED <<rows, queue, tenantSeq>>
    /\ workers' = [workers EXCEPT ![w] = Marked(e)]
    /\ UNCHANGED <<now, deployment, db, owner, history>>

EffectAt(w) == workers[w].effect
RowAt(w) == rows[EffectAt(w)]

\* Slip: only the generation is compared.
FencedByGeneration(w) == RowAt(w).gen = workers[w].gen

\* LOCK_FENCE: the row is still the one this attempt claimed.
Fenced(w) ==
    /\ RowAt(w).fence = workers[w].fence
    /\ RowAt(w).gen = workers[w].gen

\* Slip: the row is locked by its fence, whatever its state.
HoldsAnyState(w) == Fenced(w)

Holds(w) == Fenced(w) /\ RowAt(w).state = "running"

\* FINISH_RUNNING, through OutboxContext::transition.
Settled(r, state, eligible) ==
    [r EXCEPT !.state = state, !.eligible = eligible, !.lease = 0]

Later(r) == IF now > r.eligible THEN now ELSE r.eligible

\* OutboxContext::preflight: where it leaves a row that is running under this
\* claim; "running" admits the send.
PreflightState(w) ==
    IF ~ Authority(EffectAt(w)) THEN "paused"
    ELSE IF now >= RowAt(w).first + Window \/ workers[w].exhausted THEN "dead"
    ELSE IF now >= RowAt(w).lease THEN "pending"
    ELSE "running"

PreflightRows(w) ==
    IF Holds(w) /\ PreflightState(w) # "running"
    THEN [rows EXCEPT ![EffectAt(w)] = Settled(@, PreflightState(w), Later(@))]
    ELSE rows

\* A worker transaction passes temporal_attempt and sees the runtime row.
TxAdmitted(w) == Admitted(HomeOf[w]) /\ RuntimeBound

PreflightSend(w) ==
    /\ workers[w].phase = "claimed"
    /\ TxAdmitted(w)
    /\ Holds(w)
    /\ PreflightState(w) = "running"
    /\ To(w, "admitted")
    /\ sent' = [sent EXCEPT ![EffectAt(w)] = @ + 1]
    /\ UNCHANGED <<now, deployment, db, queue, tenantSeq, rows, owner, acks,
                   interruptions>>

PreflightSettle(w) ==
    /\ workers[w].phase = "claimed"
    /\ TxAdmitted(w)
    /\ Holds(w) => PreflightState(w) # "running"
    /\ rows' = PreflightRows(w)
    /\ End(w)
    /\ UNCHANGED <<now, deployment, db, queue, tenantSeq, owner, history,
                   interruptions>>

\* Preflight returns an error: nothing was sent, whatever was committed.
PreflightFail(w) ==
    /\ workers[w].phase = "claimed"
    /\ \/ /\ ~ TxAdmitted(w)
          /\ UNCHANGED <<rows, interruptions>>
       \/ /\ TxAdmitted(w)
          /\ Interrupt("commit")
          /\ rows' \in {rows, PreflightRows(w)}
    /\ To(w, "releasing")
    /\ UNCHANGED <<now, deployment, db, queue, tenantSeq, owner, history>>

\* Slip: an attempt that was never charged is refunded too.
ReleasedAlways(r, exhausted) ==
    [r EXCEPT !.state = "pending", !.lease = 0, !.attempts = @ - 1]

\* RELEASE_AFTER_PREFLIGHT: the attempt is refunded unless it was not charged.
Released(r, exhausted) ==
    [r EXCEPT !.state = "pending", !.lease = 0,
              !.attempts = IF exhausted THEN @ ELSE @ - 1]

\* release_effect: no clock and no authority check, and its failure ignored.
Release(w) ==
    /\ workers[w].phase = "releasing"
    /\ \/ /\ rows' = IF Holds(w)
                     THEN [rows EXCEPT ![EffectAt(w)] =
                              Released(@, workers[w].exhausted)]
                     ELSE rows
          /\ UNCHANGED interruptions
       \/ Interrupt("commit") /\ UNCHANGED rows
    /\ End(w)
    /\ UNCHANGED <<now, deployment, db, queue, tenantSeq, owner, history>>

\* The work deadline passed, or the captured endpoint or body is refused by the
\* transport: the attempt ends and its row stays running until its lease ends.
Abandon(w) ==
    /\ workers[w].phase = "admitted"
    /\ End(w)
    /\ UNCHANGED <<now, deployment, db, queue, tenantSeq, rows, owner, history,
                   interruptions>>

\* read_secret failed or timed out: settled as a retry, nothing was posted.
SecretUnavailable(w) ==
    /\ workers[w].phase = "admitted"
    /\ SlotOf[EndpointOf[EffectAt(w)]] # NoSlot
    /\ workers' = [workers EXCEPT ![w].phase = "posted", ![w].result = "retry"]
    /\ UNCHANGED <<now, deployment, db, queue, tenantSeq, rows, owner, history,
                   interruptions>>

\* Transport::post and classify: 2xx is "delivered"; 429, 5xx and every
\* ambiguous failure "retry"; any other status and redirects "terminal".
Post(w, result) ==
    /\ workers[w].phase = "admitted"
    /\ workers' = [workers EXCEPT ![w].phase = "posted", ![w].result = result]
    /\ acks' = IF result = "delivered"
               THEN [acks EXCEPT ![EffectAt(w)] = @ \cup {workers[w].fence}]
               ELSE acks
    /\ UNCHANGED <<now, deployment, db, queue, tenantSeq, rows, owner, sent,
                   interruptions>>

\* retry_at: the next attempt's time, or 0 when the allowance is spent.
RetryAt(r, after) ==
    LET delay == IF Backoff[r.attempts] > after THEN Backoff[r.attempts]
                 ELSE after
    IN  IF r.attempts >= MaxAttempts \/ now + delay >= r.first + Window
        THEN 0
        ELSE now + delay

\* finalize of a known 2xx: only another epoch or a newer fence refuses it.
DeliveredRow(w) ==
    IF /\ runtime.gen = workers[w].gen
       /\ runtime.epoch = workers[w].epoch
       /\ RowAt(w).epoch = workers[w].epoch
    THEN Settled(RowAt(w), "delivered", Later(RowAt(w)))
    ELSE RowAt(w)

\* finalize of any other result, for a row still running under this claim.
RejectedRow(w, after) ==
    LET r == RowAt(w) IN
    IF ~ Authority(EffectAt(w)) \/ now >= r.lease
    THEN Settled(r, "paused", Later(r))
    ELSE IF workers[w].result = "terminal" \/ RetryAt(r, after) = 0
    THEN Settled(r, "dead", Later(r))
    ELSE Settled(r, "pending", RetryAt(r, after))

FinalRow(w, after) ==
    IF ~ Fenced(w) THEN RowAt(w)
    ELSE IF workers[w].result = "delivered" THEN DeliveredRow(w)
    ELSE IF RowAt(w).state = "running" THEN RejectedRow(w, after)
    ELSE RowAt(w)

Finalize(w, after) ==
    /\ workers[w].phase = "posted"
    /\ TxAdmitted(w)
    /\ rows' = [rows EXCEPT ![EffectAt(w)] = FinalRow(w, after)]
    /\ End(w)
    /\ UNCHANGED <<now, deployment, db, queue, tenantSeq, owner, history,
                   interruptions>>

\* The finalization fails or its acknowledgement is lost: never a second POST.
FinalizeFail(w, after) ==
    /\ workers[w].phase = "posted"
    /\ \/ /\ ~ TxAdmitted(w)
          /\ UNCHANGED <<rows, interruptions>>
       \/ /\ TxAdmitted(w)
          /\ Interrupt("commit")
          /\ rows' \in {rows, [rows EXCEPT ![EffectAt(w)] = FinalRow(w, after)]}
    /\ End(w)
    /\ UNCHANGED <<now, deployment, db, queue, tenantSeq, owner, history>>

\* PhysicalAttempt::finish: the gate came back, the slot and its mark are free.
Finish(w) ==
    /\ workers[w].phase = "done"
    /\ workers' = [workers EXCEPT ![w] = Idle]
    /\ UNCHANGED <<now, deployment, db, queue, tenantSeq, rows, owner, history,
                   interruptions>>

\* The physical stop is unconfirmed: slot and mark are kept for good.
Retain(w) ==
    /\ workers[w].phase = "done"
    /\ Interrupt("retain")
    /\ To(w, "retained")
    /\ UNCHANGED <<now, deployment, db, queue, tenantSeq, rows, owner, history>>

-----------------------------------------------------------------------------
(* Delivery processes and the clock.                                       *)

\* activate, activate_lease and DeliveryOwner::claim: join the generation that
\* the serving process activated and take the directory's flock.
OwnerStart(d) ==
    /\ ~ owner[d].up
    /\ queue.dir = d
    /\ owner' = [owner EXCEPT ![d] = [up |-> TRUE, gen |-> deployment]]
    /\ UNCHANGED <<now, deployment, db, queue, tenantSeq, rows, workers, history,
                   interruptions>>

\* The process ends, by shutdown or by a crash at any point of its attempts.
OwnerExit(d) ==
    /\ owner[d].up
    /\ Interrupt("exit")
    /\ owner' = [owner EXCEPT ![d].up = FALSE]
    /\ workers' = [w \in Workers |-> IF HomeOf[w] = d THEN Idle ELSE workers[w]]
    /\ UNCHANGED <<now, deployment, db, queue, tenantSeq, rows, history>>

\* lifecycle_clock::tick; a forward jump of the wall clock is several ticks.
\* Past MaxTime the clock only runs on for the leases still outstanding.
Tick ==
    /\ \/ now < MaxTime
       \/ \E e \in Effects : rows[e].lease > now
    /\ now' = now + 1
    /\ UNCHANGED <<deployment, db, queue, tenantSeq, rows, owner, workers,
                   history, interruptions>>

-----------------------------------------------------------------------------
(* Operator commands.  Each one locks the runtime row of its generation.   *)

\* Slip: the lease survives the pause.
PausedLeased(r) == [r EXCEPT !.state = "paused"]

\* Every PAUSE_... statement.
Paused(r) == [r EXCEPT !.state = "paused", !.lease = 0]

PauseAt(B) ==
    [e \in Effects |->
        IF rows[e].state \in Live /\ EndpointOf[e] \in B THEN Paused(rows[e])
        ELSE rows[e]]

\* Slip: the rows of endpoints that use the secret are not paused.
NoUsersOf(s) == {}

UsersOf(s) == {b \in Endpoints : SlotOf[b] = s}

OperatorUnchanged ==
    UNCHANGED <<now, deployment, queue, tenantSeq, owner, workers, history,
                interruptions>>

\* revoke_effect_endpoint.
RevokeEndpoint(b) ==
    /\ RuntimeBound
    /\ grants[b].version < MaxVersion
    /\ grants' = [grants EXCEPT ![b].state = "revoked", ![b].version = @ + 1]
    /\ rows' = PauseAt({b})
    /\ UNCHANGED <<runtime, secrets>>
    /\ OperatorUnchanged

\* revoke_effect_secret, with pause_effect_secret_rows.
RevokeSecret(s) ==
    /\ RuntimeBound
    /\ secrets[s].version < MaxVersion
    /\ secrets' = [secrets EXCEPT ![s].state = "revoked", ![s].version = @ + 1]
    /\ rows' = PauseAt(UsersOf(s))
    /\ UNCHANGED <<runtime, grants>>
    /\ OperatorUnchanged

\* A grant made current: a new version under the runtime's epoch.
Renewed(g) ==
    [state |-> "active", version |-> g.version + 1, epoch |-> runtime.epoch]

\* grant_effect_endpoint.  Its last statement also ends a runtime pause.
GrantEndpoint(b) ==
    /\ RuntimeBound
    /\ grants[b].version < MaxVersion
    /\ grants' = [grants EXCEPT ![b] = Renewed(@)]
    /\ rows' = PauseAt({b})
    /\ runtime' = [runtime EXCEPT !.state = "active"]
    /\ UNCHANGED secrets
    /\ OperatorUnchanged

\* grant_effect_secret.
GrantSecret(s) ==
    /\ RuntimeBound
    /\ secrets[s].version < MaxVersion
    /\ secrets' = [secrets EXCEPT ![s] = Renewed(@)]
    /\ rows' = PauseAt(UsersOf(s))
    /\ UNCHANGED <<runtime, grants>>
    /\ OperatorUnchanged

\* The job operator's grant command ends a pause of the shared runtime too.
GrantJobWorker ==
    /\ RuntimeBound
    /\ runtime.state = "paused"
    /\ runtime' = [runtime EXCEPT !.state = "active"]
    /\ UNCHANGED <<grants, secrets, rows>>
    /\ OperatorUnchanged

\* cancel_effect.
Cancel(e) ==
    /\ RuntimeBound
    /\ rows[e].state \in Occupying \cup {"dead"}
    /\ rows' = [rows EXCEPT ![e].state = "cancelled", ![e].lease = 0]
    /\ UNCHANGED db
    /\ OperatorUnchanged

\* Slip: a rescheduled capture starts again at the first fence.
RescheduledUnfenced(r, b) ==
    [r EXCEPT !.state = "pending", !.lease = 0, !.fence = 0,
              !.eligible = now, !.gen = deployment, !.epoch = runtime.epoch,
              !.grantVersion = grants[b].version,
              !.secretVersion = SecretVersion(b)]

\* Slip: resuming gives the round its whole allowance again.
RescheduledFresh(r, b) ==
    [r EXCEPT !.state = "pending", !.lease = 0, !.fence = @ + 1, !.attempts = 0,
              !.eligible = now, !.gen = deployment, !.epoch = runtime.epoch,
              !.grantVersion = grants[b].version,
              !.secretVersion = SecretVersion(b)]

\* RESCHEDULE_CAPTURE: the current envelope, a new fence.
Rescheduled(r, b) ==
    [r EXCEPT !.state = "pending", !.lease = 0, !.fence = @ + 1,
              !.eligible = now, !.gen = deployment, !.epoch = runtime.epoch,
              !.grantVersion = grants[b].version,
              !.secretVersion = SecretVersion(b)]

\* resume_effect with retry = false keeps the round's attempts and window.
Resume(e) ==
    LET b == EndpointOf[e] IN
    /\ EndpointGranted(b)
    /\ rows[e].state = "paused"
    /\ rows[e].attempts < MaxAttempts
    /\ now < rows[e].first + Window
    /\ rows' = [rows EXCEPT ![e] = Rescheduled(@, b)]
    /\ UNCHANGED db
    /\ OperatorUnchanged

\* The allowance and window of a new round.
NewRound(r) == [r EXCEPT !.attempts = 0, !.first = now, !.round = @ + 1]

\* resume_effect with retry = true starts a new round.
Retry(e) ==
    LET b == EndpointOf[e] IN
    /\ Fits
    /\ rows[e].round < MaxRound
    /\ EndpointGranted(b)
    /\ rows[e].state \in {"dead", "paused"}
    /\ rows[e].state = "dead" => QuotaFree(TenantOf[b])
    /\ rows' = [rows EXCEPT ![e] = NewRound(Rescheduled(@, b))]
    /\ sent' = [sent EXCEPT ![e] = 0]
    /\ UNCHANGED <<now, deployment, db, queue, tenantSeq, owner, workers, acks,
                   interruptions>>

-----------------------------------------------------------------------------
(* Startup, restore and clock recovery.                                    *)

Revoked(g) == [g EXCEPT !.state = "revoked"]

\* pause_effects_for_epoch, in the transaction that changes the runtime.
PauseEffectsForEpoch(G, S) ==
    /\ rows' = PauseAt(Endpoints)
    /\ grants' = [b \in Endpoints |-> Revoked(G[b])]
    /\ secrets' = [s \in Slots |-> Revoked(S[s])]

\* activate_effects: the grant or secret rows of another epoch are rewritten.
Upserted(g) ==
    IF g.epoch = runtime.epoch THEN g
    ELSE [state |-> IF runtime.state = "active" THEN "active" ELSE "revoked",
          version |-> g.version + 1, epoch |-> runtime.epoch]

UpsertFits ==
    /\ \A b \in Endpoints : Upserted(grants[b]).version <= MaxVersion
    /\ \A s \in Slots : Upserted(secrets[s]).version <= MaxVersion

\* Startup under an unchanged approval: activate_jobs changes nothing.
ActivateSame ==
    /\ RuntimeBound
    /\ UpsertFits
    /\ grants' = [b \in Endpoints |-> Upserted(grants[b])]
    /\ secrets' = [s \in Slots |-> Upserted(secrets[s])]
    /\ <<grants, secrets>>' # <<grants, secrets>>
    /\ UNCHANGED <<now, deployment, runtime, queue, tenantSeq, rows, owner,
                   workers, history, interruptions>>

\* Startup under another approval, component or host key (generation + 1), or
\* after clock recovery moved the generation: activate_jobs binds the runtime
\* and rotates its epoch; grants of the new generation start at version 1.  A
\* paused runtime stays paused and its grants start revoked.
ActivateChanged(g) ==
    LET fresh == [state |-> IF runtime.state = "active" THEN "active"
                            ELSE "revoked",
                  version |-> 1, epoch |-> runtime.epoch + 1]
    IN
    /\ g # runtime.gen
    /\ runtime.epoch < MaxEpoch
    /\ deployment' = g
    /\ runtime' = [runtime EXCEPT !.gen = g, !.epoch = @ + 1]
    /\ rows' = PauseAt(Endpoints)
    /\ grants' = [b \in Endpoints |-> fresh]
    /\ secrets' = [s \in Slots |-> fresh]
    /\ tenantSeq' = [t \in Tenants |-> 0]
    /\ UNCHANGED <<now, queue, owner, workers, history, interruptions>>

\* The paused runtime of a new epoch.
NewEpoch ==
    /\ runtime.epoch < MaxEpoch
    /\ runtime' = [runtime EXCEPT !.epoch = @ + 1, !.state = "paused"]

\* fork_job_runtime, with apply_job_fork.
Fork ==
    /\ RuntimeBound
    /\ NewEpoch
    /\ PauseEffectsForEpoch(grants, secrets)
    /\ OperatorUnchanged

\* Startup with restore_fork from directory d: the queue is bound to d, the
\* grants are brought to this epoch, and the fork then rotates it.
RestoreFork(d) ==
    /\ RuntimeBound
    /\ d # queue.dir
    /\ UpsertFits
    /\ queue' = [queue EXCEPT !.dir = d]
    /\ NewEpoch
    /\ PauseEffectsForEpoch([b \in Endpoints |-> Upserted(grants[b])],
                            [s \in Slots |-> Upserted(secrets[s])])
    /\ UNCHANGED <<now, deployment, tenantSeq, owner, workers, history,
                   interruptions>>

\* Database::recover_clock retires the generation without binding the runtime.
RecoverClock ==
    /\ deployment = runtime.gen
    /\ NewEpoch
    /\ deployment' = deployment + 1
    /\ PauseEffectsForEpoch(grants, secrets)
    /\ UNCHANGED <<now, queue, tenantSeq, owner, workers, history,
                   interruptions>>

-----------------------------------------------------------------------------
FirstGrant == [state |-> "active", version |-> 1, epoch |-> 1]

\* A first activation has bound an empty store.
Init ==
    /\ now = 1
    /\ deployment = 1
    /\ runtime = [gen |-> 1, epoch |-> 1, state |-> "active"]
    /\ grants = [b \in Endpoints |-> FirstGrant]
    /\ secrets = [s \in Slots |-> FirstGrant]
    /\ queue = [dir |-> HomeDir, seq |-> 0]
    /\ tenantSeq = [t \in Tenants |-> 0]
    /\ rows = [e \in Effects |-> NoRow]
    /\ owner = [d \in Dirs |-> [up |-> FALSE, gen |-> 0]]
    /\ workers = [w \in Workers |-> Idle]
    /\ sent = [e \in Effects |-> 0]
    /\ acks = [e \in Effects |-> {}]
    /\ interruptions = 0

WorkerStep(w) ==
    \/ \E e \in Effects : Claim(w, e) \/ ClaimLost(w, e)
    \/ PreflightSend(w)
    \/ PreflightSettle(w)
    \/ PreflightFail(w)
    \/ Release(w)
    \/ Abandon(w)
    \/ SecretUnavailable(w)
    \/ \E result \in Results : Post(w, result)
    \/ \E after \in RetryAfter \cup {0} : Finalize(w, after)
    \/ \E after \in RetryAfter \cup {0} : FinalizeFail(w, after)
    \/ Finish(w)
    \/ Retain(w)

OperatorStep ==
    \/ \E b \in Endpoints : RevokeEndpoint(b) \/ GrantEndpoint(b)
    \/ \E s \in Slots : RevokeSecret(s) \/ GrantSecret(s)
    \/ GrantJobWorker
    \/ \E e \in Effects : Cancel(e) \/ Resume(e) \/ Retry(e)
    \/ Fork

StartupStep ==
    \/ ActivateSame
    \/ \E g \in {deployment, deployment + 1} : ActivateChanged(g)
    \/ \E d \in Dirs : RestoreFork(d)
    \/ RecoverClock

Next ==
    \/ \E e \in Effects : Enqueue(e)
    \/ \E w \in Workers : WorkerStep(w)
    \/ \E d \in Dirs : OwnerStart(d) \/ OwnerExit(d)
    \/ Tick
    \/ OperatorStep
    \/ StartupStep

Spec == Init /\ [][Next]_vars

-----------------------------------------------------------------------------
(* What keeps the attempts correct.                                        *)

\* Every queued or running row carries the authority that is current now: the
\* commands that change the runtime, a grant or a secret pause the rows they
\* affect in the same transaction (revoke_effect_endpoint, grant_effect_secret,
\* pause_effects_for_epoch, ...), so a stale envelope is never claimable.
LiveAuthority ==
    \A e \in Effects : rows[e].state \in Live =>
        RuntimeBound /\ rows[e].gen = deployment /\ Authority(e)

\* Two slots of one delivery process never work on the same capture, not even
\* when a lease expires under a live socket or the operator resumes the row
\* meanwhile (active_claims and claim_lock in claim_effect).
OneSlotPerCapture ==
    \A v, w \in Workers :
        v # w /\ HomeOf[v] = HomeOf[w] /\ workers[v].effect # NoEffect
            => workers[v].effect # workers[w].effect

Sending == {"claimed", "releasing", "admitted", "posted"}

\* A fence names one claim: whichever processes they run in, two attempts on a
\* capture never hold the same fence, so at most one can settle the row.
FenceNamesClaim ==
    \A v, w \in {u \in Workers : workers[u].phase \in Sending} :
        v # w /\ workers[v].effect = workers[w].effect
            => workers[v].fence # workers[w].fence

\* "Up to five automatic attempts": the sends admitted in a round are bounded by
\* the attempts charged to it, whatever is refunded, reclaimed or resumed.
SendsWithinAllowance == \A e \in Effects : sent[e] <= rows[e].attempts

\* The ensure! of OutboxContext::row never fails for the attempt that holds the
\* fence: the state, lease and attempts it reads fit the claim it was given.
RowShape ==
    \A w \in Workers :
        workers[w].phase \in {"claimed", "admitted", "posted"} /\ Fenced(w) =>
            LET r == RowAt(w) IN
            /\ r.eligible >= r.first
            /\ r.state # "none"
            /\ r.state = "running" => r.attempts > 0 /\ r.lease = workers[w].lease
            /\ r.state = "pending" => r.attempts < MaxAttempts
            /\ r.state # "running" => r.lease = 0

\* The state is typed, and what an attempt relies on between its transactions holds:
\* the row it claimed fits its claim, and the fence it holds is its own (claim,
\* preflight, finalize).
ClaimsSound == TypeOK /\ RowShape /\ FenceNamesClaim

\* A capture is Delivered only if the receiver answered 2xx to a POST made
\* under the row's present fence: a superseded attempt never settles a newer
\* round, and no other result is mistaken for success.
DeliveredAcknowledged ==
    \A e \in Effects : rows[e].state = "delivered" => rows[e].fence \in acks[e]

\* Pending, running and paused rows stay within the app and tenant limits,
\* whatever is cancelled, dies and is retried (ACTIVE_COUNTS).
QuotaRespected ==
    /\ CountAll <= AppLimit
    /\ \A t \in Tenants : Count(t) <= TenantLimit

-----------------------------------------------------------------------------
(* The promise the outbox implements.                                      *)

Status(r) ==
    CASE r.state \in Live -> "queued"
      [] r.state = "paused" -> "held"
      [] OTHER -> r.state

Lifecycle == INSTANCE EffectLifecycle
    WITH status <- [e \in Effects |-> Status(rows[e])],
         acked <- [e \in Effects |-> acks[e] # {}]

\* Claims, leases, refunds, lost commits, crashes and operator commands never
\* move a capture except as EffectLifecycle allows: a held, dead or cancelled
\* capture is not brought back by a late attempt, a delivered one is final.
LifecycleSpec == Lifecycle!Spec

-----------------------------------------------------------------------------
(* Progress.                                                               *)

\* start_effect_service: every loop polls again once a second and each phase of
\* an attempt has a deadline; the tick runs every second; a supervisor starts
\* the worker again.
Fairness ==
    /\ \A w \in Workers : WF_vars(WorkerStep(w))
    /\ \A d \in Dirs : WF_vars(OwnerStart(d))
    /\ WF_vars(Tick)

FairSpec == Spec /\ Fairness

\* No capture is stranded: a queued or running row is eventually delivered,
\* dead, paused or cancelled, although claims, preflights and finalizations may
\* lose their commits and the process may die between any two of them.
Settles ==
    \A e \in Effects : rows[e].state \in Live ~> rows[e].state \notin Live

=============================================================================
