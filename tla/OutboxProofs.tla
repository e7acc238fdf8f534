---------------------------- MODULE OutboxProofs ----------------------------
(***************************************************************************)
(* Proofs about Outbox, for every set of captures, endpoints, tenants,     *)
(* secrets, workers and directories and every value of the limits: first   *)
(* what a reader of the stored state may rely on; then what a delivery     *)
(* attempt may rely on between its transactions, that the slots of a       *)
(* process work on different captures, and that a round's sends stay       *)
(* within its allowance; and last what the outbox promises as a whole: it  *)
(* implements EffectLifecycle, and its captures stay within the limits of  *)
(* the app and of the tenant.                                              *)
(*                                                                         *)
(* The fence is what makes the claims hold.  A claim and a reschedule      *)
(* raise a row's fence, nothing lowers it, and an attempt was issued the   *)
(* fence its claim wrote.  So two attempts on a capture never share a      *)
(* fence, and while the row's fence is an attempt's own, nobody else has   *)
(* claimed, settled or rescheduled the row: an operator may only have      *)
(* paused or cancelled it, which keeps its attempts.                       *)
(***************************************************************************)
EXTENDS Outbox, FiniteSetTheorems, TLAPS

-----------------------------------------------------------------------------
(* Type correctness needs two facts about attempts: an attempt that is     *)
(* under way names a capture, and a running row has been charged (so that  *)
(* a refund never goes below zero and retry_at indexes its delays).        *)

UnderWayNamesCapture ==
    \A w \in Workers : workers[w].phase \in Sending => workers[w].effect \in Effects

RunningCharged ==
    \A e \in Effects : rows[e].state = "running" => rows[e].attempts > 0

TypeInv == TypeOK /\ UnderWayNamesCapture /\ RunningCharged

-----------------------------------------------------------------------------
(* What the row operators return.                                          *)

\* Settling a row (FINISH_RUNNING) keeps it a row.
LEMMA SettledType ==
    ASSUME NEW r \in Row, NEW state \in RowStates, NEW eligible \in Nat
    PROVE  Settled(r, state, eligible) \in Row
BY DEF Settled, Row

\* The time a settled row keeps is a time.
LEMMA LaterType == ASSUME now \in Nat, NEW r \in Row PROVE Later(r) \in Nat
BY DEF Later, Row

\* A claimed row is a charged, running row (CLAIM_CAPTURE).
LEMMA ClaimedType ==
    ASSUME now \in Nat, NEW r \in Row
    PROVE  /\ Claimed(r) \in Row
           /\ Claimed(r).attempts > 0
           /\ Claimed(r).state = "running"
<1> DEFINE charged == IF r.attempts < MaxAttempts THEN r.attempts + 1 ELSE r.attempts
<1>1. charged \in 0 .. MaxAttempts /\ charged > 0
  BY LimitAssumption DEF Row
<1>2. now + Lease \in Nat /\ r.fence + 1 \in Nat
  BY LimitAssumption DEF Row
<1>3. Claimed(r) = [r EXCEPT !.state = "running", !.fence = r.fence + 1,
                             !.lease = now + Lease, !.attempts = charged]
  BY DEF Claimed
<1> HIDE DEF charged
<1> QED BY <1>1, <1>2, <1>3 DEF Row, RowStates

\* A pause keeps the row and everything but its state and lease.
LEMMA PausedType ==
    ASSUME NEW r \in Row
    PROVE  Paused(r) \in Row /\ Paused(r).state = "paused"
BY DEF Paused, Row, RowStates

\* A new round is a row in the same state.
LEMMA NewRoundType ==
    ASSUME now \in Nat, NEW r \in Row
    PROVE  NewRound(r) \in Row /\ NewRound(r).state = r.state
<1>1. r.round + 1 \in Nat /\ 0 \in 0 .. MaxAttempts
  BY LimitAssumption DEF Row
<1> QED BY <1>1 DEF NewRound, Row

\* The delay before the next attempt is defined for every charged row.
LEMMA RetryAtType ==
    ASSUME now \in Nat, NEW r \in Row, r.attempts > 0, NEW after \in Nat
    PROVE  RetryAt(r, after) \in Nat
<1>1. CASE r.attempts >= MaxAttempts
  BY <1>1 DEF RetryAt
<1>2. CASE ~ (r.attempts >= MaxAttempts)
  <2>1. r.attempts \in 1 .. MaxAttempts - 1
    BY <1>2, LimitAssumption DEF Row
  <2>2. Backoff[r.attempts] \in Nat
    BY <2>1, LimitAssumption
  <2> QED BY <2>2 DEF RetryAt
<1> QED BY <1>1, <1>2

\* Pausing the rows of any endpoints keeps all rows typed and charged.
LEMMA PauseAtType ==
    ASSUME TypeInv, NEW B, rows' = PauseAt(B)
    PROVE  /\ rows' \in [Effects -> Row]
           /\ RunningCharged'
<1>1. \A e \in Effects : rows[e] \in Row BY DEF TypeInv, TypeOK
<1>2. rows' \in [Effects -> Row] BY <1>1, PausedType DEF PauseAt
<1>3. ASSUME NEW e \in Effects, rows'[e].state = "running"
      PROVE  rows'[e].attempts > 0
  <2>1. rows'[e] = IF rows[e].state \in Live /\ EndpointOf[e] \in B
                   THEN Paused(rows[e]) ELSE rows[e]
    BY DEF PauseAt
  <2> QED BY <1>1, <1>3, <2>1, PausedType DEF TypeInv, RunningCharged
<1> QED BY <1>2, <1>3 DEF RunningCharged

\* Replacing one row by a typed, charged row keeps all rows so.
LEMMA RowReplaced ==
    ASSUME TypeInv, NEW e \in Effects, NEW r \in Row,
           r.state = "running" => r.attempts > 0,
           rows' = [rows EXCEPT ![e] = r]
    PROVE  rows' \in [Effects -> Row] /\ RunningCharged'
<1>1. rows \in [Effects -> Row] BY DEF TypeInv, TypeOK
<1>2. rows' \in [Effects -> Row] BY <1>1
<1>3. \A f \in Effects : rows'[f] = IF f = e THEN r ELSE rows[f] BY <1>1
<1> QED BY <1>2, <1>3 DEF TypeInv, RunningCharged

\* Replacing one attempt by an attempt that names its capture keeps all so.
LEMMA AttemptReplaced ==
    ASSUME TypeInv, NEW w \in Workers, NEW a \in Attempt,
           a.phase \in Sending => a.effect \in Effects,
           workers' = [workers EXCEPT ![w] = a]
    PROVE  workers' \in [Workers -> Attempt] /\ UnderWayNamesCapture'
<1>1. workers \in [Workers -> Attempt] BY DEF TypeInv, TypeOK
<1>2. workers' \in [Workers -> Attempt] BY <1>1
<1>3. \A v \in Workers : workers'[v] = IF v = w THEN a ELSE workers[v] BY <1>1
<1> QED BY <1>2, <1>3 DEF TypeInv, UnderWayNamesCapture

\* The end of an attempt leaves a marked slot.
LEMMA EndType ==
    ASSUME TypeInv, NEW w \in Workers, End(w)
    PROVE  workers' \in [Workers -> Attempt] /\ UnderWayNamesCapture'
<1>1. workers[w] \in Attempt BY DEF TypeInv, TypeOK
<1> DEFINE a == Marked(workers[w].effect)
<1>2. a \in Attempt /\ a.phase = "done"
  BY <1>1 DEF Marked, Idle, Attempt, Phases, Results
<1>3. workers' = [workers EXCEPT ![w] = a] BY DEF End
<1> HIDE DEF a
<1> QED BY <1>2, <1>3, AttemptReplaced DEF Sending

\* A change of phase keeps the attempt.
LEMMA ToType ==
    ASSUME TypeInv, NEW w \in Workers, NEW phase \in Phases,
           workers[w].phase \in Sending \/ phase \notin Sending,
           To(w, phase)
    PROVE  workers' \in [Workers -> Attempt] /\ UnderWayNamesCapture'
<1>1. workers[w] \in Attempt BY DEF TypeInv, TypeOK
<1> DEFINE a == [workers[w] EXCEPT !.phase = phase]
<1>2. a \in Attempt /\ a.phase = phase /\ a.effect = workers[w].effect
  BY <1>1 DEF Attempt
<1>3. workers' = [workers EXCEPT ![w] = a] BY DEF To
<1>4. a.phase \in Sending => a.effect \in Effects
  BY <1>2 DEF TypeInv, UnderWayNamesCapture
<1> HIDE DEF a
<1> QED BY <1>2, <1>3, <1>4, AttemptReplaced

\* The row an attempt under way is about.
LEMMA RowAtType ==
    ASSUME TypeInv, NEW w \in Workers, workers[w].phase \in Sending
    PROVE  /\ EffectAt(w) \in Effects
           /\ RowAt(w) \in Row
           /\ RowAt(w).state = "running" => RowAt(w).attempts > 0
<1>1. EffectAt(w) \in Effects BY DEF TypeInv, UnderWayNamesCapture, EffectAt
<1> QED BY <1>1 DEF TypeInv, TypeOK, RunningCharged, RowAt

\* finalize returns a row, charged if it is running.
LEMMA FinalRowType ==
    ASSUME TypeInv, NEW w \in Workers, workers[w].phase \in Sending,
           NEW after \in Nat
    PROVE  /\ FinalRow(w, after) \in Row
           /\ FinalRow(w, after).state = "running" =>
                FinalRow(w, after).attempts > 0
<1> DEFINE r == RowAt(w)
<1>0. now \in Nat BY DEF TypeInv, TypeOK
<1>1. r \in Row /\ (r.state = "running" => r.attempts > 0) BY RowAtType
<1>2. Later(r) \in Nat BY <1>0, <1>1, LaterType
<1>3. \A s \in RowStates, t \in Nat : Settled(r, s, t) \in Row
  BY <1>1, SettledType
<1>4. \A s \in RowStates \ {"running"}, t \in Nat :
         Settled(r, s, t).state # "running"
  BY <1>1 DEF Settled, Row
<1>5. /\ DeliveredRow(w) \in Row
      /\ DeliveredRow(w) # r => DeliveredRow(w).state # "running"
  BY <1>1, <1>2, <1>3, <1>4 DEF DeliveredRow, RowStates
<1>6. ASSUME r.state = "running"
      PROVE  /\ RejectedRow(w, after) \in Row
             /\ RejectedRow(w, after).state # "running"
  <2>1. RetryAt(r, after) \in Nat BY <1>0, <1>1, <1>6, RetryAtType
  <2> HIDE DEF r
  <2>2. RejectedRow(w, after) \in {Settled(r, "paused", Later(r)),
            Settled(r, "dead", Later(r)), Settled(r, "pending", RetryAt(r, after))}
    BY DEF RejectedRow, r
  <2> QED BY <2>1, <2>2, <1>2, <1>3, <1>4 DEF RowStates
<1> HIDE DEF r
<1>7. FinalRow(w, after) \in
        {r, DeliveredRow(w)} \cup (IF r.state = "running" THEN {RejectedRow(w, after)} ELSE {})
  BY DEF FinalRow, r
<1> QED BY <1>1, <1>5, <1>6, <1>7

\* Injected failures stay within their bound.
LEMMA InterruptType ==
    ASSUME TypeInv, NEW k, Interrupt(k)
    PROVE  interruptions' \in 0 .. MaxInterruptions
<1>1. interruptions \in 0 .. MaxInterruptions BY DEF TypeInv, TypeOK
<1> QED BY <1>1, LimitAssumption DEF Interrupt

\* Grants stay grants.
LEMMA GrantType ==
    ASSUME TypeInv, NEW g \in Grant
    PROVE  /\ Renewed(g) \in Grant
           /\ [g EXCEPT !.state = "revoked", !.version = @ + 1] \in Grant
           /\ Upserted(g) \in Grant
           /\ Revoked(g) \in Grant
<1>1. runtime.epoch \in Nat BY DEF TypeInv, TypeOK
<1>2. g.version + 1 \in Nat /\ g \in Grant BY DEF Grant
<1>3. Renewed(g) \in Grant BY <1>1, <1>2 DEF Renewed, Grant
<1>4. [g EXCEPT !.state = "revoked", !.version = @ + 1] \in Grant
  BY <1>2 DEF Grant
<1>5. Upserted(g) \in Grant
  <2>1. CASE g.epoch = runtime.epoch BY <2>1 DEF Upserted
  <2>2. CASE g.epoch # runtime.epoch
    <3> DEFINE s == IF runtime.state = "active" THEN "active" ELSE "revoked"
    <3>1. s \in {"active", "revoked"} OBVIOUS
    <3>2. Upserted(g) = [state |-> s, version |-> g.version + 1,
                         epoch |-> runtime.epoch]
      BY <2>2 DEF Upserted
    <3> HIDE DEF s
    <3> QED BY <1>1, <1>2, <3>1, <3>2 DEF Grant
  <2> QED BY <2>1, <2>2
<1>6. Revoked(g) \in Grant BY <1>2 DEF Revoked, Grant
<1> QED BY <1>3, <1>4, <1>5, <1>6

\* The paused runtime of a new epoch is a runtime row.
LEMMA NewEpochType ==
    ASSUME TypeInv, NewEpoch
    PROVE  runtime' \in [gen : Nat, epoch : Nat, state : {"active", "paused"}]
<1>1. runtime \in [gen : Nat, epoch : Nat, state : {"active", "paused"}]
  BY DEF TypeInv, TypeOK
<1>2. runtime.epoch + 1 \in Nat BY <1>1
<1> QED BY <1>1, <1>2 DEF NewEpoch

\* The grants and secrets that pause_effects_for_epoch leaves.
LEMMA PauseEpochType ==
    ASSUME TypeInv, NEW G \in [Endpoints -> Grant], NEW S \in [Slots -> Grant],
           PauseEffectsForEpoch(G, S)
    PROVE  grants' \in [Endpoints -> Grant] /\ secrets' \in [Slots -> Grant]
<1>1. \A g \in Grant : Revoked(g) \in Grant BY GrantType
<1> QED BY <1>1 DEF PauseEffectsForEpoch

-----------------------------------------------------------------------------
\* Every worker step keeps the type invariant.
LEMMA WorkerTyped ==
    ASSUME TypeInv, NEW w \in Workers, WorkerStep(w)
    PROVE  TypeInv'
<1> USE DEF TypeInv, TypeOK
<1>a. workers[w] \in Attempt BY DEF Attempt
<1>0. ASSUME NEW e \in Effects, ClaimCommits(e)
      PROVE  /\ rows' \in [Effects -> Row] /\ RunningCharged'
             /\ queue' \in [dir : Dirs, seq : Nat]
             /\ tenantSeq' \in [Tenants -> Nat]
  <2>1. rows' = [rows EXCEPT ![e] = Claimed(rows[e])] BY <1>0 DEF ClaimCommits
  <2>2. rows' \in [Effects -> Row] /\ RunningCharged'
    BY <2>1, ClaimedType, RowReplaced
  <2>3. queue.seq \in Nat /\ queue.seq + 1 \in Nat OBVIOUS
  <2>4. queue' \in [dir : Dirs, seq : Nat] BY <1>0, <2>3 DEF ClaimCommits
  <2>5. tenantSeq' \in [Tenants -> Nat] BY <1>0, <2>3 DEF ClaimCommits
  <2> QED BY <2>2, <2>4, <2>5
<1>1. ASSUME NEW e \in Effects, Claim(w, e) PROVE TypeInv'
  <2> DEFINE a == ClaimOf(e, HomeOf[w])
  <2>1. a \in Attempt /\ a.phase = "claimed" /\ a.effect = e
    <3>1. rows[e].fence + 1 \in Nat /\ now + Lease \in Nat /\ runtime.epoch \in Nat
      BY LimitAssumption DEF Row
    <3>2. owner[HomeOf[w]].gen \in Nat BY MapAssumption
    <3>3. (rows[e].attempts >= MaxAttempts) \in BOOLEAN
      BY LimitAssumption DEF Row
    <3> QED BY <3>1, <3>2, <3>3 DEF ClaimOf, Attempt, Phases, Results
  <2>2. workers' = [workers EXCEPT ![w] = a] BY <1>1 DEF Claim
  <2> HIDE DEF a
  <2>3. workers' \in [Workers -> Attempt] /\ UnderWayNamesCapture'
    BY <2>1, <2>2, AttemptReplaced
  <2> QED BY <1>0, <1>1, <2>3 DEF Claim, db, history
<1>2. ASSUME NEW e \in Effects, ClaimLost(w, e) PROVE TypeInv'
  <2> DEFINE a == Marked(e)
  <2>1. a \in Attempt /\ a.phase = "done"
    BY DEF Marked, Idle, Attempt, Phases, Results
  <2>2. workers' = [workers EXCEPT ![w] = a] BY <1>2 DEF ClaimLost
  <2> HIDE DEF a
  <2>3. workers' \in [Workers -> Attempt] /\ UnderWayNamesCapture'
    BY <2>1, <2>2, AttemptReplaced DEF Sending
  <2>4. interruptions' \in 0 .. MaxInterruptions
    BY <1>2, InterruptType DEF ClaimLost
  <2> QED BY <1>0, <1>2, <2>3, <2>4 DEF ClaimLost, db, history, RunningCharged
<1>3. CASE PreflightSend(w)
  <2>1. workers' \in [Workers -> Attempt] /\ UnderWayNamesCapture'
    BY <1>3, ToType DEF PreflightSend, Phases, Sending
  <2>2. EffectAt(w) \in Effects BY <1>3, RowAtType DEF PreflightSend, Sending
  <2> QED BY <1>3, <2>1, <2>2 DEF PreflightSend, db, RunningCharged
<1>4. ASSUME workers[w].phase = "claimed", rows' = PreflightRows(w)
      PROVE  rows' \in [Effects -> Row] /\ RunningCharged'
  <2>1. EffectAt(w) \in Effects /\ RowAt(w) \in Row
    BY <1>4, RowAtType DEF Sending
  <2>2. CASE Holds(w) /\ PreflightState(w) # "running"
    <3> DEFINE r == Settled(RowAt(w), PreflightState(w), Later(RowAt(w)))
    <3>1. PreflightState(w) \in RowStates BY DEF PreflightState, RowStates
    <3>2. r \in Row BY <2>1, <3>1, LaterType, SettledType
    <3>3. r.state = PreflightState(w) BY <2>1 DEF Settled, Row
    <3>4. rows' = [rows EXCEPT ![EffectAt(w)] = r]
      BY <1>4, <2>2 DEF PreflightRows, RowAt
    <3> HIDE DEF r
    <3> QED BY <2>1, <2>2, <3>2, <3>3, <3>4, RowReplaced
  <2>3. CASE ~ (Holds(w) /\ PreflightState(w) # "running")
    BY <1>4, <2>3 DEF PreflightRows, RunningCharged
  <2> QED BY <2>2, <2>3
<1>5. CASE PreflightSettle(w)
  BY <1>4, <1>5, EndType DEF PreflightSettle, db, history
<1>6. CASE PreflightFail(w)
  <2>1. workers' \in [Workers -> Attempt] /\ UnderWayNamesCapture'
    BY <1>6, ToType DEF PreflightFail, Phases, Sending
  <2>2. rows' \in [Effects -> Row] /\ RunningCharged'
    BY <1>4, <1>6 DEF PreflightFail, RunningCharged
  <2>3. interruptions' \in 0 .. MaxInterruptions
    BY <1>6, InterruptType DEF PreflightFail
  <2> QED BY <1>6, <2>1, <2>2, <2>3 DEF PreflightFail, db, history
<1>7. CASE Release(w)
  <2>1. EffectAt(w) \in Effects /\ RowAt(w) \in Row
        /\ (RowAt(w).state = "running" => RowAt(w).attempts > 0)
    BY <1>7, RowAtType DEF Release, Sending
  <2>2. rows' \in [Effects -> Row] /\ RunningCharged'
    <3>1. CASE Holds(w) /\ rows' = [rows EXCEPT ![EffectAt(w)] =
                              Released(@, workers[w].exhausted)]
      <4> DEFINE r == Released(RowAt(w), workers[w].exhausted)
      <4>0. RowAt(w).attempts \in 1 .. MaxAttempts
        BY <2>1, <3>1, LimitAssumption DEF Holds, Row
      <4>1. r \in Row /\ r.state = "pending"
        <5> DEFINE refunded == IF workers[w].exhausted THEN RowAt(w).attempts
                               ELSE RowAt(w).attempts - 1
        <5>1. refunded \in 0 .. MaxAttempts BY <4>0, LimitAssumption
        <5>2. r = [RowAt(w) EXCEPT !.state = "pending", !.lease = 0,
                                   !.attempts = refunded]
          BY DEF Released
        <5> HIDE DEF refunded, r
        <5> QED BY <2>1, <5>1, <5>2 DEF Row, RowStates
      <4>2. rows' = [rows EXCEPT ![EffectAt(w)] = r] BY <3>1 DEF RowAt
      <4> HIDE DEF r
      <4> QED BY <2>1, <4>1, <4>2, RowReplaced
    <3>2. CASE rows' = rows BY <3>2 DEF RunningCharged
    <3> QED BY <1>7, <3>1, <3>2 DEF Release
  <2>3. interruptions' \in 0 .. MaxInterruptions
    BY <1>7, InterruptType DEF Release
  <2> QED BY <1>7, <2>2, <2>3, EndType DEF Release, db, history
<1>8. CASE Abandon(w)
  BY <1>8, EndType DEF Abandon, db, history, RunningCharged
<1>9. ASSUME NEW result \in Results, workers[w].phase = "admitted",
             workers' = [workers EXCEPT ![w].phase = "posted", ![w].result = result]
      PROVE  workers' \in [Workers -> Attempt] /\ UnderWayNamesCapture'
  <2> DEFINE a == [workers[w] EXCEPT !.phase = "posted", !.result = result]
  <2>1. a \in Attempt /\ a.effect = workers[w].effect
    BY <1>a DEF Attempt, Phases
  <2>2. workers' = [workers EXCEPT ![w] = a] BY <1>9
  <2>3. a.effect \in Effects BY <1>9, <2>1 DEF UnderWayNamesCapture, Sending
  <2> HIDE DEF a
  <2> QED BY <2>1, <2>2, <2>3, AttemptReplaced
<1>10. CASE SecretUnavailable(w)
  BY <1>9, <1>10 DEF SecretUnavailable, db, history, RunningCharged, Results
<1>11. ASSUME NEW result \in Results, Post(w, result) PROVE TypeInv'
  <2>1. workers' \in [Workers -> Attempt] /\ UnderWayNamesCapture'
    BY <1>9, <1>11 DEF Post
  <2>2. EffectAt(w) \in Effects /\ workers[w].fence \in Nat
    BY <1>11, <1>a, RowAtType DEF Post, Sending, Attempt
  <2>3. acks' \in [Effects -> SUBSET Nat] BY <1>11, <2>2 DEF Post
  <2> QED BY <1>11, <2>1, <2>3 DEF Post, db, RunningCharged
<1>12. ASSUME NEW after \in RetryAfter \cup {0}, workers[w].phase = "posted",
              rows' = [rows EXCEPT ![EffectAt(w)] = FinalRow(w, after)]
       PROVE  rows' \in [Effects -> Row] /\ RunningCharged'
  <2>1. after \in Nat BY LimitAssumption
  <2>2. workers[w].phase \in Sending BY <1>12 DEF Sending
  <2>3. EffectAt(w) \in Effects BY <2>2, RowAtType
  <2> QED BY <1>12, <2>1, <2>2, <2>3, FinalRowType, RowReplaced
<1>13. ASSUME NEW after \in RetryAfter \cup {0}, Finalize(w, after) PROVE TypeInv'
  BY <1>12, <1>13, EndType DEF Finalize, db, history
<1>14. ASSUME NEW after \in RetryAfter \cup {0}, FinalizeFail(w, after)
       PROVE  TypeInv'
  <2>1. rows' \in [Effects -> Row] /\ RunningCharged'
    BY <1>12, <1>14 DEF FinalizeFail, RunningCharged
  <2>2. interruptions' \in 0 .. MaxInterruptions
    BY <1>14, InterruptType DEF FinalizeFail
  <2> QED BY <1>14, <2>1, <2>2, EndType DEF FinalizeFail, db, history
<1>15. CASE Finish(w)
  <2>1. Idle \in Attempt /\ Idle.phase = "idle"
    BY DEF Idle, Attempt, Phases, Results
  <2>2. workers' = [workers EXCEPT ![w] = Idle] BY <1>15 DEF Finish
  <2>3. workers' \in [Workers -> Attempt] /\ UnderWayNamesCapture'
    BY <2>1, <2>2, AttemptReplaced DEF Sending
  <2> QED BY <1>15, <2>3 DEF Finish, db, history, RunningCharged
<1>16. CASE Retain(w)
  <2>1. workers' \in [Workers -> Attempt] /\ UnderWayNamesCapture'
    BY <1>16, ToType DEF Retain, Phases, Sending
  <2>2. interruptions' \in 0 .. MaxInterruptions BY <1>16, InterruptType DEF Retain
  <2> QED BY <1>16, <2>1, <2>2 DEF Retain, db, history, RunningCharged
<1> QED
  BY <1>1, <1>2, <1>3, <1>5, <1>6, <1>7, <1>8, <1>10, <1>11, <1>13, <1>14,
     <1>15, <1>16 DEF WorkerStep

\* The initial state is typed.
LEMMA InitTyped == ASSUME Init PROVE TypeInv
<1> USE LimitAssumption, MapAssumption DEF Init
<1>1. NoRow \in Row /\ NoRow.state = "none" BY DEF NoRow, Row, RowStates
<1>2. Idle \in Attempt /\ Idle.phase = "idle"
  BY DEF Idle, Attempt, Phases, Results
<1>3. FirstGrant \in Grant BY DEF FirstGrant, Grant
<1>4. TypeOK BY <1>1, <1>2, <1>3 DEF TypeOK
<1>5. UnderWayNamesCapture BY <1>2 DEF UnderWayNamesCapture, Sending
<1>6. RunningCharged BY <1>1 DEF RunningCharged
<1> QED BY <1>4, <1>5, <1>6 DEF TypeInv

\* Every operator command keeps the type invariant.
LEMMA OperatorTyped == ASSUME TypeInv, OperatorStep PROVE TypeInv'
<1> USE DEF TypeInv, TypeOK
<1>s. workers' = workers => UnderWayNamesCapture'
  BY DEF UnderWayNamesCapture
<1>g. \A g \in Grant : /\ Renewed(g) \in Grant
                       /\ [g EXCEPT !.state = "revoked", !.version = @ + 1] \in Grant
  BY GrantType
<1>v. \A b \in Endpoints : SecretVersion(b) \in Nat
  BY MapAssumption DEF SecretVersion, Grant
<1>r. \A e \in Effects, b \in Endpoints :
         /\ Rescheduled(rows[e], b) \in Row
         /\ Rescheduled(rows[e], b).state = "pending"
  <2> SUFFICES ASSUME NEW e \in Effects, NEW b \in Endpoints
               PROVE  /\ Rescheduled(rows[e], b) \in Row
                      /\ Rescheduled(rows[e], b).state = "pending"
    OBVIOUS
  <2>1. rows[e] \in Row /\ rows[e].fence + 1 \in Nat BY DEF Row
  <2>2. grants[b].version \in Nat /\ SecretVersion(b) \in Nat
    BY <1>v DEF Grant
  <2> QED BY <2>1, <2>2 DEF Rescheduled, Row, RowStates
<1>b. \A e \in Effects : EndpointOf[e] \in Endpoints BY MapAssumption
<1>1. ASSUME NEW b \in Endpoints, RevokeEndpoint(b) PROVE TypeInv'
  <2>1. grants' \in [Endpoints -> Grant] BY <1>1, <1>g DEF RevokeEndpoint
  <2> QED BY <1>1, <1>s, <2>1, PauseAtType
      DEF RevokeEndpoint, OperatorUnchanged, history
<1>2. ASSUME NEW b \in Endpoints, GrantEndpoint(b) PROVE TypeInv'
  <2>1. grants' \in [Endpoints -> Grant] BY <1>2, <1>g DEF GrantEndpoint
  <2>2. runtime' \in [gen : Nat, epoch : Nat, state : {"active", "paused"}]
    BY <1>2 DEF GrantEndpoint
  <2> QED BY <1>2, <1>s, <2>1, <2>2, PauseAtType
      DEF GrantEndpoint, OperatorUnchanged, history
<1>3. ASSUME NEW s \in Slots, RevokeSecret(s) PROVE TypeInv'
  <2>1. secrets' \in [Slots -> Grant] BY <1>3, <1>g DEF RevokeSecret
  <2> QED BY <1>3, <1>s, <2>1, PauseAtType
      DEF RevokeSecret, OperatorUnchanged, history
<1>4. ASSUME NEW s \in Slots, GrantSecret(s) PROVE TypeInv'
  <2>1. secrets' \in [Slots -> Grant] BY <1>4, <1>g DEF GrantSecret
  <2> QED BY <1>4, <1>s, <2>1, PauseAtType
      DEF GrantSecret, OperatorUnchanged, history
<1>5. CASE GrantJobWorker
  BY <1>5, <1>s DEF GrantJobWorker, OperatorUnchanged, history, RunningCharged
<1>6. ASSUME NEW e \in Effects, Cancel(e) PROVE TypeInv'
  <2> DEFINE r == [rows[e] EXCEPT !.state = "cancelled", !.lease = 0]
  <2>1. r \in Row /\ r.state = "cancelled"
    <3>1. rows[e] \in Row OBVIOUS
    <3> QED BY <3>1 DEF Row, RowStates
  <2>2. rows' = [rows EXCEPT ![e] = r] BY <1>6 DEF Cancel
  <2> HIDE DEF r
  <2>3. rows' \in [Effects -> Row] /\ RunningCharged'
    BY <2>1, <2>2, RowReplaced
  <2> QED BY <1>6, <1>s, <2>3 DEF Cancel, OperatorUnchanged, history, db
<1>7. ASSUME NEW e \in Effects, Resume(e) PROVE TypeInv'
  <2>1. rows' = [rows EXCEPT ![e] = Rescheduled(rows[e], EndpointOf[e])]
    BY <1>7 DEF Resume
  <2>2. rows' \in [Effects -> Row] /\ RunningCharged'
    BY <1>b, <1>r, <2>1, RowReplaced
  <2> QED BY <1>7, <1>s, <2>2 DEF Resume, OperatorUnchanged, history, db
<1>8. ASSUME NEW e \in Effects, Retry(e) PROVE TypeInv'
  <2>0. EndpointOf[e] \in Endpoints BY <1>b
  <2> DEFINE r == NewRound(Rescheduled(rows[e], EndpointOf[e]))
  <2>2. rows' = [rows EXCEPT ![e] = r] BY <1>8 DEF Retry
  <2>3. r \in Row /\ r.state = "pending" BY <2>0, <1>r, NewRoundType
  <2> HIDE DEF r
  <2>4. rows' \in [Effects -> Row] /\ RunningCharged'
    BY <2>2, <2>3, RowReplaced
  <2> QED BY <1>8, <1>s, <2>4 DEF Retry, db
<1>9. CASE Fork
  <2>1. grants' \in [Endpoints -> Grant] /\ secrets' \in [Slots -> Grant]
    BY <1>9, PauseEpochType DEF Fork
  <2>2. runtime' \in [gen : Nat, epoch : Nat, state : {"active", "paused"}]
    BY <1>9, NewEpochType DEF Fork
  <2> QED BY <1>9, <1>s, <2>1, <2>2, PauseAtType
      DEF Fork, PauseEffectsForEpoch, OperatorUnchanged, history
<1> QED BY <1>1, <1>2, <1>3, <1>4, <1>5, <1>6, <1>7, <1>8, <1>9 DEF OperatorStep

\* Startup, restore and clock recovery keep the type invariant.
LEMMA StartupTyped == ASSUME TypeInv, StartupStep PROVE TypeInv'
<1> USE DEF TypeInv, TypeOK
<1>s. workers' = workers => UnderWayNamesCapture'
  BY DEF UnderWayNamesCapture
<1>u. \A g \in Grant : Upserted(g) \in Grant /\ Revoked(g) \in Grant
  BY GrantType
<1>1. CASE ActivateSame
  <2>1. grants' \in [Endpoints -> Grant] /\ secrets' \in [Slots -> Grant]
    BY <1>1, <1>u DEF ActivateSame
  <2> QED BY <1>1, <1>s, <2>1 DEF ActivateSame, history, RunningCharged
<1>2. ASSUME NEW g \in {deployment, deployment + 1}, ActivateChanged(g)
      PROVE  TypeInv'
  <2> DEFINE fresh == [state |-> IF runtime.state = "active" THEN "active"
                                 ELSE "revoked",
                       version |-> 1, epoch |-> runtime.epoch + 1]
  <2>1. fresh \in Grant BY DEF Grant
  <2>2. grants' = [b \in Endpoints |-> fresh] /\ secrets' = [s \in Slots |-> fresh]
    BY <1>2 DEF ActivateChanged
  <2> HIDE DEF fresh
  <2>3. grants' \in [Endpoints -> Grant] /\ secrets' \in [Slots -> Grant]
    BY <2>1, <2>2
  <2>4. runtime' \in [gen : Nat, epoch : Nat, state : {"active", "paused"}]
    <3>1. runtime.epoch + 1 \in Nat /\ g \in Nat OBVIOUS
    <3> QED BY <1>2, <3>1 DEF ActivateChanged
  <2> QED BY <1>2, <1>s, <2>3, <2>4, PauseAtType DEF ActivateChanged, history
<1>3. ASSUME NEW d \in Dirs, RestoreFork(d) PROVE TypeInv'
  <2>1. grants' \in [Endpoints -> Grant] /\ secrets' \in [Slots -> Grant]
    <3> DEFINE G == [b \in Endpoints |-> Upserted(grants[b])]
               S == [s \in Slots |-> Upserted(secrets[s])]
    <3>1. G \in [Endpoints -> Grant] /\ S \in [Slots -> Grant] BY <1>u
    <3>2. PauseEffectsForEpoch(G, S) BY <1>3 DEF RestoreFork
    <3> HIDE DEF G, S
    <3> QED BY <3>1, <3>2, PauseEpochType
  <2>2. /\ runtime' \in [gen : Nat, epoch : Nat, state : {"active", "paused"}]
        /\ queue' \in [dir : Dirs, seq : Nat]
    BY <1>3, NewEpochType DEF RestoreFork
  <2> QED BY <1>3, <1>s, <2>1, <2>2, PauseAtType
      DEF RestoreFork, PauseEffectsForEpoch, history
<1>4. CASE RecoverClock
  <2>1. grants' \in [Endpoints -> Grant] /\ secrets' \in [Slots -> Grant]
    BY <1>4, PauseEpochType DEF RecoverClock
  <2>2. runtime' \in [gen : Nat, epoch : Nat, state : {"active", "paused"}]
    BY <1>4, NewEpochType DEF RecoverClock
  <2> QED BY <1>4, <1>s, <2>1, <2>2, PauseAtType
      DEF RecoverClock, PauseEffectsForEpoch, history
<1> QED BY <1>1, <1>2, <1>3, <1>4 DEF StartupStep

\* TypeInv is inductive.
LEMMA StepTyped == ASSUME TypeInv, [Next]_vars PROVE TypeInv'
<1> USE DEF TypeInv, TypeOK
<1>s. workers' = workers => UnderWayNamesCapture' BY DEF UnderWayNamesCapture
<1>t. rows' = rows => RunningCharged' BY DEF RunningCharged
<1>1. ASSUME NEW e \in Effects, Enqueue(e) PROVE TypeInv'
  <2>1. EndpointOf[e] \in Endpoints BY MapAssumption
  <2>2. SecretVersion(EndpointOf[e]) \in Nat /\ grants[EndpointOf[e]].version \in Nat
    BY <2>1, MapAssumption DEF SecretVersion, Grant
  <2> DEFINE r == [NoRow EXCEPT !.state = "pending", !.eligible = now,
                      !.first = now, !.gen = deployment, !.epoch = runtime.epoch,
                      !.grantVersion = grants[EndpointOf[e]].version,
                      !.secretVersion = SecretVersion(EndpointOf[e])]
  <2>3. r \in Row /\ r.state = "pending"
    <3>1. NoRow \in Row BY LimitAssumption DEF NoRow, Row, RowStates
    <3> QED BY <2>2, <3>1 DEF Row, RowStates
  <2>4. rows' = [rows EXCEPT ![e] = r] BY <1>1 DEF Enqueue
  <2> HIDE DEF r
  <2>5. rows' \in [Effects -> Row] /\ RunningCharged'
    BY <2>3, <2>4, RowReplaced
  <2> QED BY <1>1, <1>s, <2>5 DEF Enqueue, db, history
<1>2. ASSUME NEW d \in Dirs, OwnerStart(d) PROVE TypeInv'
  BY <1>2, <1>s, <1>t DEF OwnerStart, db, history
<1>3. ASSUME NEW d \in Dirs, OwnerExit(d) PROVE TypeInv'
  <2>1. Idle \in Attempt /\ Idle.phase \notin Sending
    BY DEF Idle, Attempt, Phases, Results, Sending
  <2>2. workers' = [w \in Workers |-> IF HomeOf[w] = d THEN Idle ELSE workers[w]]
    BY <1>3 DEF OwnerExit
  <2>3. workers' \in [Workers -> Attempt] /\ UnderWayNamesCapture'
    BY <2>1, <2>2 DEF UnderWayNamesCapture
  <2>4. interruptions' \in 0 .. MaxInterruptions
    BY <1>3, InterruptType DEF OwnerExit
  <2> QED BY <1>3, <1>t, <2>3, <2>4 DEF OwnerExit, db, history
<1>4. CASE Tick
  BY <1>4, <1>s, <1>t DEF Tick, db, history
<1>5. CASE UNCHANGED vars
  BY <1>5, <1>s, <1>t DEF vars
<1> QED
  BY <1>1, <1>2, <1>3, <1>4, <1>5, WorkerTyped, OperatorTyped, StartupTyped DEF Next

\* Type correctness: every reachable state of the outbox, its grants, its
\* processes and their attempts is well formed; no refund takes an attempt
\* count below zero and no claim takes it past the allowance.
THEOREM TypeCorrect == Spec => []TypeOK
<1>1. Init => TypeInv BY InitTyped
<1>2. TypeInv /\ [Next]_vars => TypeInv' BY StepTyped
<1>3. TypeInv => TypeOK BY DEF TypeInv
<1> QED BY <1>1, <1>2, <1>3, PTL DEF Spec

-----------------------------------------------------------------------------
(* LiveAuthority is inductive on top of TypeInv.  Worker steps never make  *)
(* a row live that was not, nor touch a live row's envelope; commands that *)
(* change the authority pause every row whose envelope they outdate.       *)

SameEnvelope(r, s) ==
    /\ r.gen = s.gen
    /\ r.epoch = s.epoch
    /\ r.grantVersion = s.grantVersion
    /\ r.secretVersion = s.secretVersion

\* Rows that are live after a step were live before it, envelope included.
NoneRevived ==
    \A e \in Effects : rows'[e].state \in Live =>
        rows[e].state \in Live /\ SameEnvelope(rows'[e], rows[e])

AuthorityInv == TypeInv /\ LiveAuthority

\* A step that keeps the authority and revives no row keeps LiveAuthority.
LEMMA AuthorityKept ==
    ASSUME AuthorityInv, NoneRevived, UNCHANGED <<deployment, runtime, grants, secrets>>
    PROVE  LiveAuthority'
<1> SUFFICES ASSUME NEW e \in Effects, rows'[e].state \in Live
             PROVE  (RuntimeBound /\ rows[e].gen = deployment /\ Authority(e))'
  BY DEF LiveAuthority
<1>1. /\ rows[e].state \in Live
      /\ SameEnvelope(rows'[e], rows[e])
  BY DEF NoneRevived
<1>2. RuntimeBound /\ rows[e].gen = deployment /\ Authority(e)
  BY <1>1 DEF AuthorityInv, LiveAuthority
<1>3. \A b : GrantState(b)' = GrantState(b) /\ SecretVersion(b)' = SecretVersion(b)
  BY DEF GrantState, SecretVersion
<1> QED BY <1>1, <1>2, <1>3 DEF RuntimeBound, Authority, SameEnvelope

\* Replacing one row revives none if the row was live and keeps its envelope, or
\* is not live any more.
LEMMA ReplacedNotRevived ==
    ASSUME TypeInv, NEW e \in Effects, NEW r,
           rows' = [rows EXCEPT ![e] = r],
           \/ r.state \notin Live
           \/ rows[e].state \in Live /\ SameEnvelope(r, rows[e])
    PROVE  NoneRevived
<1>1. \A f \in Effects : rows'[f] = IF f = e THEN r ELSE rows[f]
  BY DEF TypeInv, TypeOK
<1> QED BY <1>1 DEF NoneRevived, SameEnvelope

\* The operators on rows keep the envelope.
LEMMA EnvelopeKept ==
    ASSUME NEW r \in Row
    PROVE  /\ \A state, eligible : SameEnvelope(Settled(r, state, eligible), r)
           /\ \A exhausted : SameEnvelope(Released(r, exhausted), r)
           /\ SameEnvelope(Claimed(r), r)
           /\ SameEnvelope(Paused(r), r)
BY DEF SameEnvelope, Settled, Released, Claimed, Paused, Row

\* Worker steps change neither the authority nor the set of live rows' envelopes.
LEMMA WorkerNotRevived ==
    ASSUME TypeInv, NEW w \in Workers, WorkerStep(w)
    PROVE  NoneRevived /\ UNCHANGED <<deployment, runtime, grants, secrets>>
<1>a. \A e \in Effects : rows[e] \in Row BY DEF TypeInv, TypeOK
<1>b. rows' = rows => NoneRevived BY DEF NoneRevived, SameEnvelope
<1>1. ASSUME NEW e \in Effects, e \in NextClaimable(HomeOf[w]), ClaimCommits(e)
      PROVE  NoneRevived
  <2>1. rows[e].state \in Live
    BY <1>1 DEF NextClaimable, Claimable, Live
  <2>2. rows' = [rows EXCEPT ![e] = Claimed(rows[e])] BY <1>1 DEF ClaimCommits
  <2> QED BY <1>a, <2>1, <2>2, EnvelopeKept, ReplacedNotRevived
<1>2. ASSUME NEW e \in Effects, Claim(w, e) \/ ClaimLost(w, e)
      PROVE  NoneRevived /\ UNCHANGED <<deployment, runtime, grants, secrets>>
  BY <1>b, <1>1, <1>2 DEF Claim, ClaimLost, db
<1>3. ASSUME workers[w].phase = "claimed", rows' = PreflightRows(w)
      PROVE  NoneRevived
  <2>1. EffectAt(w) \in Effects BY <1>3, RowAtType DEF Sending
  <2>2. CASE Holds(w) /\ PreflightState(w) # "running"
    <3>1. RowAt(w) \in Row /\ RowAt(w).state \in Live
      BY <2>1, <2>2, <1>a DEF Holds, RowAt, Live
    <3>2. rows' = [rows EXCEPT ![EffectAt(w)] =
                      Settled(RowAt(w), PreflightState(w), Later(RowAt(w)))]
      BY <1>3, <2>2 DEF PreflightRows, RowAt
    <3> QED BY <2>1, <3>1, <3>2, EnvelopeKept, ReplacedNotRevived DEF RowAt
  <2> QED BY <1>3, <1>b, <2>2 DEF PreflightRows
<1>4. CASE PreflightSend(w) \/ PreflightSettle(w) \/ PreflightFail(w)
  BY <1>4, <1>3, <1>b DEF PreflightSend, PreflightSettle, PreflightFail, db
<1>5. CASE Release(w)
  <2>1. EffectAt(w) \in Effects BY <1>5, RowAtType DEF Release, Sending
  <2>2. CASE Holds(w) /\ rows' = [rows EXCEPT ![EffectAt(w)] =
                                     Released(@, workers[w].exhausted)]
    <3>1. RowAt(w) \in Row /\ RowAt(w).state \in Live
      BY <2>1, <2>2, <1>a DEF Holds, RowAt, Live
    <3>2. rows' = [rows EXCEPT ![EffectAt(w)] =
                      Released(RowAt(w), workers[w].exhausted)]
      BY <2>2 DEF RowAt
    <3> QED BY <1>5, <2>1, <3>1, <3>2, EnvelopeKept, ReplacedNotRevived
        DEF RowAt, Release, db
  <2> QED BY <1>5, <1>b, <2>2 DEF Release, db
<1>6. ASSUME NEW after, workers[w].phase = "posted",
             rows' = [rows EXCEPT ![EffectAt(w)] = FinalRow(w, after)]
      PROVE  NoneRevived
  <2>1. EffectAt(w) \in Effects /\ RowAt(w) \in Row
    BY <1>6, RowAtType DEF Sending
  <2> DEFINE r == FinalRow(w, after)
  <2>2. \/ r = RowAt(w)
        \/ r = Settled(RowAt(w), "delivered", Later(RowAt(w)))
        \/ /\ RowAt(w).state = "running"
           /\ \E state, eligible : r = Settled(RowAt(w), state, eligible)
    BY DEF FinalRow, DeliveredRow, RejectedRow
  <2>3. \/ r.state \notin Live
        \/ RowAt(w).state \in Live /\ SameEnvelope(r, RowAt(w))
    <3>1. CASE r = RowAt(w) BY <3>1 DEF SameEnvelope
    <3>2. CASE r = Settled(RowAt(w), "delivered", Later(RowAt(w)))
      BY <2>1, <3>2 DEF Settled, Live, Row
    <3>3. CASE /\ RowAt(w).state = "running"
               /\ \E state, eligible : r = Settled(RowAt(w), state, eligible)
      BY <2>1, <3>3, EnvelopeKept DEF Live
    <3> QED BY <2>2, <3>1, <3>2, <3>3
  <2>4. rows' = [rows EXCEPT ![EffectAt(w)] = r] BY <1>6
  <2> HIDE DEF r
  <2> QED BY <2>1, <2>3, <2>4, ReplacedNotRevived DEF RowAt
<1>7. ASSUME NEW after, Finalize(w, after) \/ FinalizeFail(w, after)
      PROVE  NoneRevived /\ UNCHANGED <<deployment, runtime, grants, secrets>>
  BY <1>7, <1>6, <1>b DEF Finalize, FinalizeFail, db
<1>8. CASE \/ Abandon(w) \/ SecretUnavailable(w) \/ Finish(w) \/ Retain(w)
           \/ \E result \in Results : Post(w, result)
  BY <1>8, <1>b DEF Abandon, SecretUnavailable, Finish, Retain, Post, db
<1> QED BY <1>2, <1>4, <1>5, <1>7, <1>8 DEF WorkerStep

\* What PauseAt leaves live: rows of other endpoints, as they were.
LEMMA PauseAtLive ==
    ASSUME TypeInv, NEW B, rows' = PauseAt(B), NEW e \in Effects,
           rows'[e].state \in Live
    PROVE  rows'[e] = rows[e] /\ rows[e].state \in Live /\ EndpointOf[e] \notin B
<1>1. rows[e] \in Row BY DEF TypeInv, TypeOK
<1>2. rows'[e] = IF rows[e].state \in Live /\ EndpointOf[e] \in B
                 THEN Paused(rows[e]) ELSE rows[e]
  BY DEF PauseAt
<1>3. Paused(rows[e]).state \notin Live BY <1>1, PausedType DEF Live
<1> QED BY <1>2, <1>3

\* A row given the current envelope has current authority.
LEMMA FreshAuthority ==
    ASSUME TypeInv, NEW e \in Effects, EndpointGranted(EndpointOf[e]),
           UNCHANGED <<deployment, runtime, grants, secrets>>,
           rows'[e].gen = deployment, rows'[e].epoch = runtime.epoch,
           rows'[e].grantVersion = grants[EndpointOf[e]].version,
           rows'[e].secretVersion = SecretVersion(EndpointOf[e])
    PROVE  (RuntimeBound /\ rows[e].gen = deployment /\ Authority(e))'
BY DEF EndpointGranted, RuntimeBound, Authority, GrantState, SecretVersion

\* Enqueue, Resume and Retry make one row live, under the current envelope.
LEMMA FreshRowAuthority ==
    ASSUME AuthorityInv, NEW e \in Effects, EndpointGranted(EndpointOf[e]),
           UNCHANGED <<deployment, runtime, grants, secrets>>,
           NEW r, rows' = [rows EXCEPT ![e] = r],
           r.gen = deployment, r.epoch = runtime.epoch,
           r.grantVersion = grants[EndpointOf[e]].version,
           r.secretVersion = SecretVersion(EndpointOf[e])
    PROVE  LiveAuthority'
<1>1. \A f \in Effects : rows'[f] = IF f = e THEN r ELSE rows[f]
  BY DEF AuthorityInv, TypeInv, TypeOK
<1>2. (RuntimeBound /\ rows[e].gen = deployment /\ Authority(e))'
  BY <1>1, FreshAuthority DEF AuthorityInv
<1>3. ASSUME NEW f \in Effects, f # e, rows'[f].state \in Live
      PROVE  (RuntimeBound /\ rows[f].gen = deployment /\ Authority(f))'
  <2>1. rows'[f] = rows[f] BY <1>1, <1>3
  <2>2. RuntimeBound /\ rows[f].gen = deployment /\ Authority(f)
    BY <1>3, <2>1 DEF AuthorityInv, LiveAuthority
  <2> QED BY <2>1, <2>2 DEF RuntimeBound, Authority, GrantState, SecretVersion
<1> QED BY <1>2, <1>3 DEF LiveAuthority

\* Operator commands keep LiveAuthority.
LEMMA OperatorAuthority == ASSUME AuthorityInv, OperatorStep PROVE LiveAuthority'
<1> USE DEF AuthorityInv
<1>t. /\ grants \in [Endpoints -> Grant] /\ secrets \in [Slots -> Grant]
      /\ \A e \in Effects : rows[e] \in Row /\ EndpointOf[e] \in Endpoints
  BY MapAssumption DEF TypeInv, TypeOK
<1>l. \A e \in Effects : rows[e].state \in Live =>
        RuntimeBound /\ rows[e].gen = deployment /\ Authority(e)
  BY DEF LiveAuthority
<1>1. ASSUME NEW b \in Endpoints, RevokeEndpoint(b) \/ GrantEndpoint(b)
      PROVE  LiveAuthority'
  <2> SUFFICES ASSUME NEW e \in Effects, rows'[e].state \in Live
               PROVE  (RuntimeBound /\ rows[e].gen = deployment /\ Authority(e))'
    BY DEF LiveAuthority
  <2>1. rows' = PauseAt({b}) BY <1>1 DEF RevokeEndpoint, GrantEndpoint
  <2>2. rows'[e] = rows[e] /\ rows[e].state \in Live /\ EndpointOf[e] # b
    BY <2>1, PauseAtLive
  <2>3. RuntimeBound /\ rows[e].gen = deployment /\ Authority(e) BY <1>l, <2>2
  <2>4. grants'[EndpointOf[e]] = grants[EndpointOf[e]]
    BY <1>1, <1>t, <2>2 DEF RevokeEndpoint, GrantEndpoint
  <2>5. UNCHANGED <<secrets, deployment>>
    BY <1>1 DEF RevokeEndpoint, GrantEndpoint, OperatorUnchanged
  <2>6. runtime'.gen = runtime.gen /\ runtime'.epoch = runtime.epoch
        /\ (runtime.state = "active" => runtime'.state = "active")
    BY <1>1 DEF RevokeEndpoint, GrantEndpoint, TypeInv, TypeOK
  <2> QED BY <2>2, <2>3, <2>4, <2>5, <2>6
      DEF RuntimeBound, Authority, GrantState, SecretVersion
<1>2. ASSUME NEW s \in Slots, RevokeSecret(s) \/ GrantSecret(s)
      PROVE  LiveAuthority'
  <2> SUFFICES ASSUME NEW e \in Effects, rows'[e].state \in Live
               PROVE  (RuntimeBound /\ rows[e].gen = deployment /\ Authority(e))'
    BY DEF LiveAuthority
  <2>1. rows' = PauseAt(UsersOf(s)) BY <1>2 DEF RevokeSecret, GrantSecret
  <2>2. rows'[e] = rows[e] /\ rows[e].state \in Live /\ SlotOf[EndpointOf[e]] # s
    BY <1>t, <2>1, PauseAtLive DEF UsersOf
  <2>3. RuntimeBound /\ rows[e].gen = deployment /\ Authority(e) BY <1>l, <2>2
  <2>4. SlotOf[EndpointOf[e]] # NoSlot =>
          secrets'[SlotOf[EndpointOf[e]]] = secrets[SlotOf[EndpointOf[e]]]
    BY <1>2, <1>t, <2>2, MapAssumption DEF RevokeSecret, GrantSecret
  <2>5. UNCHANGED <<grants, runtime, deployment>>
    BY <1>2 DEF RevokeSecret, GrantSecret, OperatorUnchanged
  <2> QED BY <2>2, <2>3, <2>4, <2>5
      DEF RuntimeBound, Authority, GrantState, SecretVersion
<1>3. CASE GrantJobWorker
  <2>1. \A e \in Effects : rows[e].state \notin Live
    BY <1>3, <1>l DEF GrantJobWorker, Authority
  <2> QED BY <1>3, <2>1 DEF GrantJobWorker, LiveAuthority
<1>4. ASSUME NEW e \in Effects, Cancel(e) PROVE LiveAuthority'
  <2> DEFINE r == [rows[e] EXCEPT !.state = "cancelled", !.lease = 0]
  <2>1. r.state \notin Live BY <1>t DEF Row, Live
  <2>2. rows' = [rows EXCEPT ![e] = r] BY <1>4 DEF Cancel
  <2>3. UNCHANGED <<deployment, runtime, grants, secrets>>
    BY <1>4 DEF Cancel, OperatorUnchanged, db
  <2> HIDE DEF r
  <2> QED BY <2>1, <2>2, <2>3, ReplacedNotRevived, AuthorityKept
<1>5. ASSUME NEW e \in Effects
      PROVE  LET r == Rescheduled(rows[e], EndpointOf[e]) IN
             /\ r \in Row /\ r.gen = deployment /\ r.epoch = runtime.epoch
             /\ r.grantVersion = grants[EndpointOf[e]].version
             /\ r.secretVersion = SecretVersion(EndpointOf[e])
  <2>1. rows[e] \in Row /\ rows[e].fence + 1 \in Nat BY <1>t DEF Row
  <2>2. grants[EndpointOf[e]].version \in Nat /\ SecretVersion(EndpointOf[e]) \in Nat
    BY <1>t, MapAssumption DEF Grant, SecretVersion
  <2>3. now \in Nat /\ deployment \in Nat /\ runtime.epoch \in Nat
    BY DEF TypeInv, TypeOK
  <2> QED BY <2>1, <2>2, <2>3 DEF Rescheduled, Row, RowStates
<1>6. ASSUME NEW e \in Effects, Resume(e) PROVE LiveAuthority'
  <2> DEFINE r == Rescheduled(rows[e], EndpointOf[e])
  <2>1. rows' = [rows EXCEPT ![e] = r] BY <1>6 DEF Resume
  <2>2. EndpointGranted(EndpointOf[e]) BY <1>6 DEF Resume
  <2>3. UNCHANGED <<deployment, runtime, grants, secrets>>
    BY <1>6 DEF Resume, OperatorUnchanged, db
  <2>4. /\ r.gen = deployment /\ r.epoch = runtime.epoch
        /\ r.grantVersion = grants[EndpointOf[e]].version
        /\ r.secretVersion = SecretVersion(EndpointOf[e])
    BY <1>5
  <2> HIDE DEF r
  <2> QED BY <2>1, <2>2, <2>3, <2>4, FreshRowAuthority
<1>7. ASSUME NEW e \in Effects, Retry(e) PROVE LiveAuthority'
  <2> DEFINE r == NewRound(Rescheduled(rows[e], EndpointOf[e]))
  <2>1. rows' = [rows EXCEPT ![e] = r] BY <1>7 DEF Retry
  <2>2. EndpointGranted(EndpointOf[e]) BY <1>7 DEF Retry
  <2>3. UNCHANGED <<deployment, runtime, grants, secrets>> BY <1>7 DEF Retry, db
  <2>4. \A q \in Row : SameEnvelope(NewRound(q), q)
    BY DEF SameEnvelope, NewRound, Row
  <2>5. /\ r.gen = deployment /\ r.epoch = runtime.epoch
        /\ r.grantVersion = grants[EndpointOf[e]].version
        /\ r.secretVersion = SecretVersion(EndpointOf[e])
    BY <1>5, <2>4 DEF SameEnvelope
  <2> HIDE DEF r
  <2> QED BY <2>1, <2>2, <2>3, <2>5, FreshRowAuthority
<1>8. CASE Fork
  <2>1. rows' = PauseAt(Endpoints) BY <1>8 DEF Fork, PauseEffectsForEpoch
  <2> QED BY <1>t, <2>1, PauseAtLive DEF LiveAuthority
<1> QED BY <1>1, <1>2, <1>3, <1>4, <1>6, <1>7, <1>8 DEF OperatorStep

\* Startup, restore and clock recovery keep LiveAuthority.
LEMMA StartupAuthority == ASSUME AuthorityInv, StartupStep PROVE LiveAuthority'
<1> USE DEF AuthorityInv
<1>1. CASE ActivateSame
  <2> SUFFICES ASSUME NEW e \in Effects, rows'[e].state \in Live
               PROVE  (RuntimeBound /\ rows[e].gen = deployment /\ Authority(e))'
    BY DEF LiveAuthority
  <2>1. UNCHANGED <<rows, deployment, runtime>> BY <1>1 DEF ActivateSame
  <2>2. RuntimeBound /\ rows[e].gen = deployment /\ Authority(e)
    BY <2>1 DEF LiveAuthority
  <2>3. EndpointOf[e] \in Endpoints
        /\ (SlotOf[EndpointOf[e]] # NoSlot => SlotOf[EndpointOf[e]] \in Slots)
    BY MapAssumption
  <2>4. grants'[EndpointOf[e]] = grants[EndpointOf[e]]
    BY <1>1, <2>2, <2>3 DEF ActivateSame, Upserted, Authority
  <2>5. SlotOf[EndpointOf[e]] # NoSlot =>
          secrets'[SlotOf[EndpointOf[e]]] = secrets[SlotOf[EndpointOf[e]]]
    BY <1>1, <2>2, <2>3 DEF ActivateSame, Upserted, Authority, GrantState
  <2> QED BY <2>1, <2>2, <2>4, <2>5
      DEF RuntimeBound, Authority, GrantState, SecretVersion
<1>2. ASSUME rows' = PauseAt(Endpoints) PROVE LiveAuthority'
  BY <1>2, MapAssumption, PauseAtLive DEF LiveAuthority
<1> QED BY <1>1, <1>2 DEF StartupStep, ActivateChanged, RestoreFork,
       RecoverClock, PauseEffectsForEpoch

\* AuthorityInv is inductive.
LEMMA StepAuthority == ASSUME AuthorityInv, [Next]_vars PROVE AuthorityInv'
<1> USE DEF AuthorityInv
<1>0. TypeInv' BY StepTyped
<1>1. ASSUME NEW e \in Effects, Enqueue(e) PROVE LiveAuthority'
  <2> DEFINE r == [NoRow EXCEPT !.state = "pending", !.eligible = now,
                      !.first = now, !.gen = deployment, !.epoch = runtime.epoch,
                      !.grantVersion = grants[EndpointOf[e]].version,
                      !.secretVersion = SecretVersion(EndpointOf[e])]
  <2>1. rows' = [rows EXCEPT ![e] = r] BY <1>1 DEF Enqueue
  <2>2. EndpointGranted(EndpointOf[e]) BY <1>1 DEF Enqueue
  <2>3. UNCHANGED <<deployment, runtime, grants, secrets>> BY <1>1 DEF Enqueue, db
  <2>4. /\ r.gen = deployment /\ r.epoch = runtime.epoch
        /\ r.grantVersion = grants[EndpointOf[e]].version
        /\ r.secretVersion = SecretVersion(EndpointOf[e])
    BY DEF NoRow
  <2> HIDE DEF r
  <2> QED BY <2>1, <2>2, <2>3, <2>4, FreshRowAuthority
<1>2. ASSUME NEW w \in Workers, WorkerStep(w) PROVE LiveAuthority'
  BY <1>2, WorkerNotRevived, AuthorityKept
<1>3. ASSUME rows' = rows, UNCHANGED <<deployment, runtime, grants, secrets>>
      PROVE  LiveAuthority'
  <2>1. NoneRevived BY <1>3 DEF NoneRevived, SameEnvelope
  <2> QED BY <1>3, <2>1, AuthorityKept
<1>4. CASE Tick \/ (\E d \in Dirs : OwnerStart(d) \/ OwnerExit(d)) \/ UNCHANGED vars
  BY <1>0, <1>3, <1>4 DEF Tick, OwnerStart, OwnerExit, vars, db
<1> QED BY <1>0, <1>1, <1>2, <1>4, OperatorAuthority, StartupAuthority DEF Next

\* No stale authority: whatever the order of captures, claims, refunds, crashes,
\* grants, revocations, forks, restarts and clock recoveries, a row that can be
\* claimed or is running carries the authority that is current at that moment.
THEOREM NoStaleAuthority == Spec => []LiveAuthority
<1>1. Init => AuthorityInv
  <2> SUFFICES ASSUME Init PROVE AuthorityInv OBVIOUS
  <2>1. \A e \in Effects : rows[e].state \notin Live BY DEF Init, NoRow, Live
  <2> QED BY <2>1, InitTyped DEF AuthorityInv, LiveAuthority
<1>2. AuthorityInv /\ [Next]_vars => AuthorityInv' BY StepAuthority
<1>3. AuthorityInv => LiveAuthority BY DEF AuthorityInv
<1> QED BY <1>1, <1>2, <1>3, PTL DEF Spec

-----------------------------------------------------------------------------
(* A delivered row needs one more fact to be inductive: an attempt that    *)
(* carries a 2xx result has its own fence among the acknowledged ones.     *)

PostAcknowledged ==
    \A w \in Workers :
        workers[w].phase = "posted" /\ workers[w].result = "delivered"
            => workers[w].fence \in acks[workers[w].effect]

DeliveredInv == TypeInv /\ PostAcknowledged /\ DeliveredAcknowledged

\* Rows that are delivered after a step were delivered under the same fence.
NoneDelivered ==
    \A e \in Effects : rows'[e].state = "delivered" =>
        rows[e].state = "delivered" /\ rows'[e].fence = rows[e].fence

\* A worker step that marks no row delivered and posts nothing keeps both facts.
LEMMA DeliveredKept ==
    ASSUME DeliveredInv, NoneDelivered, acks' = acks
    PROVE  DeliveredAcknowledged'
BY DEF DeliveredInv, NoneDelivered, DeliveredAcknowledged

\* Replacing a row by one that is not delivered delivers none.
LEMMA ReplacedNotDelivered ==
    ASSUME TypeInv, NEW e \in Effects, NEW r, r.state # "delivered",
           rows' = [rows EXCEPT ![e] = r]
    PROVE  NoneDelivered
<1>1. \A f \in Effects : rows'[f] = IF f = e THEN r ELSE rows[f]
  BY DEF TypeInv, TypeOK
<1> QED BY <1>1 DEF NoneDelivered

\* A pause delivers no row.
LEMMA PauseNotDelivered ==
    ASSUME TypeInv, NEW B, rows' = PauseAt(B)
    PROVE  NoneDelivered
<1>1. ASSUME NEW e \in Effects, rows'[e].state = "delivered"
      PROVE  rows'[e] = rows[e]
  <2>1. rows[e] \in Row BY DEF TypeInv, TypeOK
  <2>2. rows'[e] = IF rows[e].state \in Live /\ EndpointOf[e] \in B
                   THEN Paused(rows[e]) ELSE rows[e]
    BY DEF PauseAt
  <2> QED BY <1>1, <2>1, <2>2, PausedType
<1> QED BY <1>1 DEF NoneDelivered

\* An attempt that ends, starts or changes phase without a result of its own
\* cannot be the one that carries a 2xx.
LEMMA AttemptNotPosted ==
    ASSUME DeliveredInv, NEW w \in Workers, NEW a, a.phase # "posted",
           workers' = [workers EXCEPT ![w] = a], acks' = acks
    PROVE  PostAcknowledged'
<1>1. \A v \in Workers : workers'[v] = IF v = w THEN a ELSE workers[v]
  BY DEF DeliveredInv, TypeInv, TypeOK
<1> QED BY <1>1 DEF DeliveredInv, PostAcknowledged

\* Every worker step keeps the two facts.
LEMMA WorkerDelivered ==
    ASSUME DeliveredInv, NEW w \in Workers, WorkerStep(w)
    PROVE  PostAcknowledged' /\ DeliveredAcknowledged'
<1> USE DEF DeliveredInv
<1>t. /\ \A e \in Effects : rows[e] \in Row
      /\ workers \in [Workers -> Attempt] /\ workers[w] \in Attempt
      /\ acks \in [Effects -> SUBSET Nat]
  BY DEF TypeInv, TypeOK
<1>u. rows' = rows => NoneDelivered BY DEF NoneDelivered
<1>e. End(w) /\ acks' = acks => PostAcknowledged'
  <2> SUFFICES ASSUME End(w), acks' = acks PROVE PostAcknowledged' OBVIOUS
  <2>1. workers' = [workers EXCEPT ![w] = Marked(workers[w].effect)] BY DEF End
  <2>2. Marked(workers[w].effect).phase # "posted" BY DEF Marked, Idle
  <2> QED BY <2>1, <2>2, AttemptNotPosted
<1>p. ASSUME NEW phase \in Phases \ {"posted"}, To(w, phase), acks' = acks
      PROVE  PostAcknowledged'
  <2> DEFINE a == [workers[w] EXCEPT !.phase = phase]
  <2>1. a.phase # "posted" BY <1>t, <1>p DEF Attempt
  <2>2. workers' = [workers EXCEPT ![w] = a] BY <1>p DEF To
  <2> HIDE DEF a
  <2> QED BY <1>p, <2>1, <2>2, AttemptNotPosted
<1>1. ASSUME NEW e \in Effects, ClaimCommits(e) PROVE NoneDelivered
  <2>1. rows' = [rows EXCEPT ![e] = Claimed(rows[e])] BY <1>1 DEF ClaimCommits
  <2>2. Claimed(rows[e]).state # "delivered"
    BY <1>t, ClaimedType DEF TypeInv, TypeOK
  <2> QED BY <2>1, <2>2, ReplacedNotDelivered
<1>2. ASSUME NEW e \in Effects, Claim(w, e) \/ ClaimLost(w, e)
      PROVE  PostAcknowledged' /\ DeliveredAcknowledged'
  <2>1. NoneDelivered /\ acks' = acks
    BY <1>1, <1>2, <1>u DEF Claim, ClaimLost, history
  <2>2. \E a : workers' = [workers EXCEPT ![w] = a] /\ a.phase # "posted"
    <3>1. \/ workers' = [workers EXCEPT ![w] = ClaimOf(e, HomeOf[w])]
          \/ workers' = [workers EXCEPT ![w] = Marked(e)]
      BY <1>2 DEF Claim, ClaimLost
    <3>2. ClaimOf(e, HomeOf[w]).phase # "posted" /\ Marked(e).phase # "posted"
      BY DEF ClaimOf, Marked, Idle
    <3> QED BY <3>1, <3>2
  <2> QED BY <2>1, <2>2, AttemptNotPosted, DeliveredKept
<1>3. ASSUME workers[w].phase = "claimed", rows' = PreflightRows(w)
      PROVE  NoneDelivered
  <2>1. EffectAt(w) \in Effects BY <1>3, RowAtType DEF Sending
  <2>2. CASE Holds(w) /\ PreflightState(w) # "running"
    <3> DEFINE r == Settled(RowAt(w), PreflightState(w), Later(RowAt(w)))
    <3>1. rows' = [rows EXCEPT ![EffectAt(w)] = r]
      BY <1>3, <2>2 DEF PreflightRows, RowAt
    <3>2. r.state = PreflightState(w) BY <1>t, <2>1 DEF Settled, RowAt, Row
    <3>3. PreflightState(w) # "delivered" BY DEF PreflightState
    <3> HIDE DEF r
    <3> QED BY <2>1, <3>1, <3>2, <3>3, ReplacedNotDelivered
  <2> QED BY <1>3, <1>u, <2>2 DEF PreflightRows
<1>4. CASE PreflightSend(w)
  BY <1>4, <1>p, <1>u, DeliveredKept DEF PreflightSend, Phases
<1>5. CASE PreflightSettle(w)
  BY <1>5, <1>3, <1>e, DeliveredKept DEF PreflightSettle, history
<1>6. CASE PreflightFail(w)
  <2>1. NoneDelivered /\ acks' = acks
    BY <1>6, <1>3, <1>u DEF PreflightFail, history
  <2> QED BY <1>6, <1>p, <2>1, DeliveredKept DEF PreflightFail, Phases
<1>7. CASE Release(w)
  <2>1. EffectAt(w) \in Effects BY <1>7, RowAtType DEF Release, Sending
  <2>2. CASE Holds(w) /\ rows' = [rows EXCEPT ![EffectAt(w)] =
                                     Released(@, workers[w].exhausted)]
    <3> DEFINE r == Released(RowAt(w), workers[w].exhausted)
    <3>1. rows' = [rows EXCEPT ![EffectAt(w)] = r] BY <2>2 DEF RowAt
    <3>2. r.state = "pending" BY <1>t, <2>1 DEF Released, RowAt, Row
    <3> HIDE DEF r
    <3>3. NoneDelivered BY <2>1, <3>1, <3>2, ReplacedNotDelivered
    <3> QED BY <1>7, <1>e, <3>3, DeliveredKept DEF Release, history
  <2> QED BY <1>7, <1>e, <1>u, <2>2, DeliveredKept DEF Release, history
<1>8. CASE Abandon(w)
  BY <1>8, <1>e, <1>u, DeliveredKept DEF Abandon, history
<1>9. ASSUME NEW result \in Results, workers[w].phase = "admitted",
             workers' = [workers EXCEPT ![w].phase = "posted", ![w].result = result],
             acks' = IF result = "delivered"
                     THEN [acks EXCEPT ![EffectAt(w)] = @ \cup {workers[w].fence}]
                     ELSE acks,
             rows' = rows
      PROVE  PostAcknowledged' /\ DeliveredAcknowledged'
  <2>1. EffectAt(w) \in Effects BY <1>9, RowAtType DEF Sending
  <2>2. \A e \in Effects : acks[e] \subseteq acks'[e] BY <1>9, <1>t, <2>1
  <2>3. result = "delivered" => workers[w].fence \in acks'[EffectAt(w)]
    BY <1>9, <1>t, <2>1
  <2>4. DeliveredAcknowledged' BY <1>9, <2>2 DEF DeliveredAcknowledged
  <2>5. /\ \A v \in Workers \ {w} : workers'[v] = workers[v]
        /\ workers'[w].effect = EffectAt(w)
        /\ workers'[w].fence = workers[w].fence
        /\ workers'[w].result = result
    BY <1>9, <1>t DEF EffectAt, Attempt
  <2>6. \A v \in Workers \ {w} : workers[v].phase = "posted" =>
          workers[v].effect \in Effects
    BY DEF TypeInv, UnderWayNamesCapture, Sending
  <2> QED BY <2>2, <2>3, <2>4, <2>5, <2>6 DEF PostAcknowledged
<1>10. CASE SecretUnavailable(w)
  BY <1>9, <1>10 DEF SecretUnavailable, history, Results
<1>11. ASSUME NEW result \in Results, Post(w, result)
       PROVE  PostAcknowledged' /\ DeliveredAcknowledged'
  BY <1>9, <1>11 DEF Post
<1>12. ASSUME NEW after \in RetryAfter \cup {0}, workers[w].phase = "posted",
              rows' = [rows EXCEPT ![EffectAt(w)] = FinalRow(w, after)],
              acks' = acks
       PROVE  DeliveredAcknowledged'
  <2>1. EffectAt(w) \in Effects /\ RowAt(w) \in Row
    BY <1>12, RowAtType DEF Sending
  <2> DEFINE r == FinalRow(w, after)
  <2>2. \/ r = RowAt(w)
        \/ /\ Fenced(w) /\ workers[w].result = "delivered"
           /\ r = Settled(RowAt(w), "delivered", Later(RowAt(w)))
        \/ \E state \in {"paused", "dead", "pending"} : \E eligible :
             r = Settled(RowAt(w), state, eligible)
    BY DEF FinalRow, DeliveredRow, RejectedRow
  <2>3. r.state = "delivered" => r.fence \in acks[EffectAt(w)]
    <3>1. CASE r = RowAt(w)
      BY <2>1, <3>1 DEF DeliveredAcknowledged, RowAt
    <3>2. CASE /\ Fenced(w) /\ workers[w].result = "delivered"
               /\ r = Settled(RowAt(w), "delivered", Later(RowAt(w)))
      <4>1. r.fence = workers[w].fence
        BY <2>1, <3>2 DEF Settled, Fenced, Row
      <4> QED BY <1>12, <3>2, <4>1 DEF PostAcknowledged, EffectAt
    <3>3. CASE \E state \in {"paused", "dead", "pending"} : \E eligible :
                  r = Settled(RowAt(w), state, eligible)
      BY <2>1, <3>3 DEF Settled, Row
    <3> QED BY <2>2, <3>1, <3>2, <3>3
  <2>4. rows' = [rows EXCEPT ![EffectAt(w)] = r] BY <1>12
  <2> HIDE DEF r
  <2>5. \A e \in Effects : rows'[e] = IF e = EffectAt(w) THEN r ELSE rows[e]
    BY <2>4 DEF TypeInv, TypeOK
  <2> QED BY <1>12, <2>1, <2>3, <2>5 DEF DeliveredAcknowledged
<1>13. ASSUME NEW after \in RetryAfter \cup {0},
              Finalize(w, after) \/ FinalizeFail(w, after)
       PROVE  PostAcknowledged' /\ DeliveredAcknowledged'
  <2>1. End(w) /\ acks' = acks BY <1>13 DEF Finalize, FinalizeFail, history
  <2>2. rows' = rows \/ rows' = [rows EXCEPT ![EffectAt(w)] = FinalRow(w, after)]
    BY <1>13 DEF Finalize, FinalizeFail
  <2>3. workers[w].phase = "posted" BY <1>13 DEF Finalize, FinalizeFail
  <2> QED BY <1>12, <1>e, <1>u, <2>1, <2>2, <2>3, DeliveredKept
<1>14. CASE Finish(w)
  <2>1. Idle.phase # "posted" BY DEF Idle
  <2> QED BY <1>14, <1>u, <2>1, AttemptNotPosted, DeliveredKept
      DEF Finish, history
<1>15. CASE Retain(w)
  BY <1>15, <1>p, <1>u, DeliveredKept DEF Retain, history, Phases
<1> QED
  BY <1>2, <1>4, <1>5, <1>6, <1>7, <1>8, <1>10, <1>11, <1>13, <1>14, <1>15
  DEF WorkerStep

\* DeliveredInv is inductive.
LEMMA StepDelivered == ASSUME DeliveredInv, [Next]_vars PROVE DeliveredInv'
<1> USE DEF DeliveredInv
<1>0. TypeInv' BY StepTyped
<1>t. \A e \in Effects : rows[e] \in Row BY DEF TypeInv, TypeOK
<1>k. workers' = workers /\ acks' = acks => PostAcknowledged'
  BY DEF PostAcknowledged
<1>p. ASSUME NEW B, rows' = PauseAt(B), acks' = acks
      PROVE  DeliveredAcknowledged'
  BY <1>p, PauseNotDelivered, DeliveredKept
<1>u. rows' = rows /\ acks' = acks => DeliveredAcknowledged'
  BY DEF DeliveredAcknowledged
<1>1. ASSUME NEW e \in Effects, NEW r, r.state # "delivered",
             rows' = [rows EXCEPT ![e] = r], acks' = acks
      PROVE  DeliveredAcknowledged'
  BY <1>1, ReplacedNotDelivered, DeliveredKept
<1>2. ASSUME NEW e \in Effects, Enqueue(e) PROVE DeliveredInv'
  <2> DEFINE r == [NoRow EXCEPT !.state = "pending", !.eligible = now,
                      !.first = now, !.gen = deployment, !.epoch = runtime.epoch,
                      !.grantVersion = grants[EndpointOf[e]].version,
                      !.secretVersion = SecretVersion(EndpointOf[e])]
  <2>1. rows' = [rows EXCEPT ![e] = r] BY <1>2 DEF Enqueue
  <2>2. r.state # "delivered" BY DEF NoRow
  <2> HIDE DEF r
  <2> QED BY <1>0, <1>1, <1>2, <1>k, <2>1, <2>2 DEF Enqueue, history
<1>3. ASSUME NEW e \in Effects, Cancel(e) \/ Resume(e) \/ Retry(e)
      PROVE  DeliveredInv'
  <2> DEFINE c == [rows[e] EXCEPT !.state = "cancelled", !.lease = 0]
             q == Rescheduled(rows[e], EndpointOf[e])
  <2>1. \/ rows' = [rows EXCEPT ![e] = c]
        \/ rows' = [rows EXCEPT ![e] = q]
        \/ rows' = [rows EXCEPT ![e] = NewRound(q)]
    BY <1>3 DEF Cancel, Resume, Retry
  <2>2. c.state # "delivered" /\ q.state # "delivered" /\ NewRound(q).state # "delivered"
    BY <1>t DEF Rescheduled, NewRound, Row
  <2>3. workers' = workers /\ acks' = acks
    BY <1>3 DEF Cancel, Resume, Retry, OperatorUnchanged, history
  <2> HIDE DEF c, q
  <2> QED BY <1>0, <1>1, <1>k, <2>1, <2>2, <2>3
<1>4. CASE \/ \E b \in Endpoints : RevokeEndpoint(b) \/ GrantEndpoint(b)
           \/ \E s \in Slots : RevokeSecret(s) \/ GrantSecret(s)
           \/ GrantJobWorker \/ Fork \/ StartupStep
  <2>1. workers' = workers /\ acks' = acks
    BY <1>4 DEF RevokeEndpoint, GrantEndpoint, RevokeSecret, GrantSecret,
       GrantJobWorker, Fork, StartupStep, ActivateSame, ActivateChanged,
       RestoreFork, RecoverClock, OperatorUnchanged, history
  <2>2. rows' = rows \/ \E B : rows' = PauseAt(B)
    BY <1>4 DEF RevokeEndpoint, GrantEndpoint, RevokeSecret, GrantSecret,
       GrantJobWorker, Fork, StartupStep, ActivateSame, ActivateChanged,
       RestoreFork, RecoverClock, PauseEffectsForEpoch
  <2> QED BY <1>0, <1>k, <1>p, <1>u, <2>1, <2>2
<1>5. ASSUME NEW d \in Dirs, OwnerExit(d) PROVE DeliveredInv'
  <2>1. \A w \in Workers : workers'[w] = Idle \/ workers'[w] = workers[w]
    BY <1>5 DEF OwnerExit
  <2>2. Idle.phase # "posted" BY DEF Idle
  <2>3. rows' = rows /\ acks' = acks BY <1>5 DEF OwnerExit, history
  <2>4. PostAcknowledged' BY <2>1, <2>2, <2>3 DEF PostAcknowledged
  <2> QED BY <1>0, <1>u, <2>3, <2>4
<1>6. CASE Tick \/ (\E d \in Dirs : OwnerStart(d)) \/ UNCHANGED vars
  BY <1>0, <1>6, <1>k, <1>u DEF Tick, OwnerStart, vars, history
<1> QED
  BY <1>0, <1>2, <1>3, <1>4, <1>5, <1>6, WorkerDelivered DEF Next, OperatorStep

\* A capture is marked delivered only on the receiver's acknowledgement of a POST
\* made under the row's present fence: finalize of a superseded attempt changes
\* nothing, and no requeue, cancellation or restart moves a delivered row.
THEOREM DeliveryIsAcknowledged == Spec => []DeliveredAcknowledged
<1>1. Init => DeliveredInv
  <2> SUFFICES ASSUME Init PROVE DeliveredInv OBVIOUS
  <2>1. \A e \in Effects : rows[e].state # "delivered" BY DEF Init, NoRow
  <2>2. \A w \in Workers : workers[w].phase # "posted" BY DEF Init, Idle
  <2> QED BY <2>1, <2>2, InitTyped
      DEF DeliveredInv, DeliveredAcknowledged, PostAcknowledged
<1>2. DeliveredInv /\ [Next]_vars => DeliveredInv' BY StepDelivered
<1>3. DeliveredInv => DeliveredAcknowledged BY DEF DeliveredInv
<1> QED BY <1>1, <1>2, <1>3, PTL DEF Spec

-----------------------------------------------------------------------------
(* Two slots of a process never share a capture: a claim excludes every    *)
(* capture that a slot of its process has marked, and the mark stays until *)
(* the attempt has physically finished or the process has ended.           *)

SlotsInv == TypeInv /\ OneSlotPerCapture

\* A step that leaves each slot with the mark it had, or without one, keeps the
\* slots apart.
LEMMA MarksKept ==
    ASSUME SlotsInv,
           \A w \in Workers : workers'[w].effect \in {workers[w].effect, NoEffect}
    PROVE  OneSlotPerCapture'
BY DEF SlotsInv, OneSlotPerCapture

\* A slot that takes a capture no other slot of its process has marked.
LEMMA MarkTaken ==
    ASSUME SlotsInv, NEW w \in Workers, NEW e \in Effects \ ActiveClaims(HomeOf[w]),
           NEW a, a.effect = e, workers' = [workers EXCEPT ![w] = a]
    PROVE  OneSlotPerCapture'
<1>1. \A v \in Workers : workers'[v] = IF v = w THEN a ELSE workers[v]
  BY DEF SlotsInv, TypeInv, TypeOK
<1>2. \A v \in Workers : HomeOf[v] = HomeOf[w] => workers[v].effect # e
  BY MapAssumption DEF ActiveClaims
<1> QED BY <1>1, <1>2 DEF SlotsInv, OneSlotPerCapture

\* SlotsInv is inductive.
LEMMA StepSlots == ASSUME SlotsInv, [Next]_vars PROVE SlotsInv'
<1> USE DEF SlotsInv
<1>0. TypeInv' BY StepTyped
<1>t. workers \in [Workers -> Attempt] BY DEF TypeInv, TypeOK
<1>k. workers' = workers => OneSlotPerCapture' BY MarksKept
<1>1. ASSUME NEW w \in Workers, NEW e \in Effects, Claim(w, e) \/ ClaimLost(w, e)
      PROVE  OneSlotPerCapture'
  <2>1. e \in Effects \ ActiveClaims(HomeOf[w])
    BY <1>1 DEF Claim, ClaimLost, NextClaimable, Claimable
  <2>2. \/ workers' = [workers EXCEPT ![w] = ClaimOf(e, HomeOf[w])]
        \/ workers' = [workers EXCEPT ![w] = Marked(e)]
    BY <1>1 DEF Claim, ClaimLost
  <2>3. ClaimOf(e, HomeOf[w]).effect = e /\ Marked(e).effect = e
    BY DEF ClaimOf, Marked, Idle
  <2> QED BY <2>1, <2>2, <2>3, MarkTaken
<1>2. ASSUME NEW w \in Workers, \A v \in Workers \ {w} : workers'[v] = workers[v],
             workers'[w].effect \in {workers[w].effect, NoEffect}
      PROVE  OneSlotPerCapture'
  <2>1. \A v \in Workers : workers'[v].effect \in {workers[v].effect, NoEffect}
    BY <1>2
  <2> QED BY <2>1, MarksKept
<1>3. ASSUME NEW w \in Workers, WorkerStep(w),
             ~ \E e \in Effects : Claim(w, e) \/ ClaimLost(w, e)
      PROVE  OneSlotPerCapture'
  <2>1. \/ End(w)
        \/ \E phase : To(w, phase)
        \/ \E result : workers' = [workers EXCEPT ![w].phase = "posted",
                                                  ![w].result = result]
        \/ workers' = [workers EXCEPT ![w] = Idle]
    BY <1>3 DEF WorkerStep, PreflightSend, PreflightSettle, PreflightFail, Release,
       Abandon, SecretUnavailable, Post, Finalize, FinalizeFail, Finish, Retain
  <2>2. CASE End(w)
    <3>1. Marked(workers[w].effect).effect = workers[w].effect BY DEF Marked, Idle
    <3> QED BY <1>2, <1>t, <2>2, <3>1 DEF End
  <2>3. ASSUME NEW phase, To(w, phase) PROVE OneSlotPerCapture'
    BY <1>2, <1>t, <2>3 DEF To, Attempt
  <2>4. ASSUME NEW result,
               workers' = [workers EXCEPT ![w].phase = "posted", ![w].result = result]
        PROVE  OneSlotPerCapture'
    BY <1>2, <1>t, <2>4 DEF Attempt
  <2>5. CASE workers' = [workers EXCEPT ![w] = Idle]
    <3>1. Idle.effect = NoEffect BY DEF Idle
    <3> QED BY <1>2, <1>t, <2>5, <3>1
  <2> QED BY <2>1, <2>2, <2>3, <2>4, <2>5
<1>4. ASSUME NEW d \in Dirs, OwnerExit(d) PROVE OneSlotPerCapture'
  <2>1. \A w \in Workers : workers'[w] = Idle \/ workers'[w] = workers[w]
    BY <1>4 DEF OwnerExit
  <2>2. Idle.effect = NoEffect BY DEF Idle
  <2>3. \A w \in Workers : workers'[w].effect \in {workers[w].effect, NoEffect}
    BY <2>1, <2>2
  <2> QED BY <2>3, MarksKept
<1>5. CASE \/ \E e \in Effects : Enqueue(e)
           \/ \E d \in Dirs : OwnerStart(d)
           \/ Tick \/ OperatorStep \/ StartupStep \/ UNCHANGED vars
  BY <1>0, <1>5, <1>k DEF Enqueue, OwnerStart, Tick, OperatorStep, RevokeEndpoint,
     GrantEndpoint, RevokeSecret, GrantSecret, GrantJobWorker, Cancel, Resume, Retry,
     Fork, OperatorUnchanged, StartupStep, ActivateSame, ActivateChanged,
     RestoreFork, RecoverClock, vars
<1> QED BY <1>0, <1>1, <1>3, <1>4, <1>5 DEF Next

\* Two slots of one delivery process never work on the same capture, although a
\* lease may expire under a live socket, an operator may resume the row meanwhile,
\* and a claim whose COMMIT was not acknowledged leaves only a mark.
THEOREM SlotsWorkApart == Spec => []OneSlotPerCapture
<1>1. Init => SlotsInv
  <2> SUFFICES ASSUME Init PROVE SlotsInv OBVIOUS
  <2>1. \A w \in Workers : workers[w].effect = NoEffect BY DEF Init, Idle
  <2> QED BY <2>1, InitTyped DEF SlotsInv, OneSlotPerCapture
<1>2. SlotsInv /\ [Next]_vars => SlotsInv' BY StepSlots
<1>3. SlotsInv => OneSlotPerCapture BY DEF SlotsInv
<1> QED BY <1>1, <1>2, <1>3, PTL DEF Spec

-----------------------------------------------------------------------------
(* The inductive invariant of the claims.                                  *)

\* A row is due no earlier than its round began, its round began in the past,
\* only a running row is leased, and only a capture is charged.
Shaped(r) ==
    /\ r.eligible >= r.first
    /\ r.first <= now
    /\ r.state # "running" => r.lease = 0
    /\ r.state = "none" => r.attempts = 0

RowSound(e) == Shaped(rows[e]) /\ sent[e] <= rows[e].attempts

\* The attempt of w was issued a fence of its capture.  While that is the row's
\* fence, the row is running under this claim, or paused or cancelled; and an
\* attempt that was charged and has not been admitted has not used its charge.
AttemptSound(w) ==
    workers[w].phase \in Sending =>
        LET a == workers[w]  r == RowAt(w) IN
        /\ r.state # "none"
        /\ a.fence <= r.fence
        /\ a.fence = r.fence /\ a.phase # "releasing" =>
              /\ r.state \in {"running", "paused", "cancelled"}
              /\ r.state = "running" => r.lease = a.lease
        /\ a.fence = r.fence /\ a.phase \in {"claimed", "releasing"} /\ ~ a.exhausted =>
              sent[a.effect] < r.attempts

ClaimsInv ==
    /\ TypeInv
    /\ \A e \in Effects : RowSound(e)
    /\ \A w \in Workers : AttemptSound(w)
    /\ FenceNamesClaim

-----------------------------------------------------------------------------
(* What the row operators return.                                          *)

\* Settling a row at a time that is not before its own.
LEMMA SettledShape ==
    ASSUME NEW r \in Row, Shaped(r), NEW state \in RowStates \ {"running", "none"},
           NEW eligible \in Nat, eligible >= r.first
    PROVE  /\ Shaped(Settled(r, state, eligible))
           /\ Settled(r, state, eligible).state = state
           /\ Settled(r, state, eligible).fence = r.fence
           /\ Settled(r, state, eligible).attempts = r.attempts
BY DEF Settled, Shaped, Row

\* The time a settled row keeps is not before its round began.
LEMMA LaterShape ==
    ASSUME now \in Nat, NEW r \in Row, Shaped(r)
    PROVE  Later(r) \in Nat /\ Later(r) >= r.first
BY DEF Later, Shaped, Row

\* A claim raises the fence, takes the lease and charges the row up to its cap.
LEMMA ClaimedShape ==
    ASSUME now \in Nat, NEW r \in Row, Shaped(r)
    PROVE  /\ Shaped(Claimed(r))
           /\ Claimed(r).state = "running"
           /\ Claimed(r).fence = r.fence + 1
           /\ Claimed(r).lease = now + Lease
           /\ Claimed(r).attempts =
                IF r.attempts < MaxAttempts THEN r.attempts + 1 ELSE r.attempts
<1> DEFINE charged == IF r.attempts < MaxAttempts THEN r.attempts + 1 ELSE r.attempts
<1>1. Claimed(r) = [r EXCEPT !.state = "running", !.fence = r.fence + 1,
                             !.lease = now + Lease, !.attempts = charged]
  BY DEF Claimed
<1> HIDE DEF charged
<1>2. /\ Claimed(r).state = "running" /\ Claimed(r).fence = r.fence + 1
      /\ Claimed(r).lease = now + Lease /\ Claimed(r).attempts = charged
      /\ Claimed(r).eligible = r.eligible /\ Claimed(r).first = r.first
  BY <1>1 DEF Row
<1> QED BY <1>2 DEF Shaped, charged

\* A refund takes back one attempt of a charged row.
LEMMA ReleasedShape ==
    ASSUME NEW r \in Row, Shaped(r), r.attempts > 0, NEW exhausted \in BOOLEAN
    PROVE  /\ Shaped(Released(r, exhausted))
           /\ Released(r, exhausted).state = "pending"
           /\ Released(r, exhausted).fence = r.fence
           /\ Released(r, exhausted).attempts =
                IF exhausted THEN r.attempts ELSE r.attempts - 1
<1> DEFINE left == IF exhausted THEN r.attempts ELSE r.attempts - 1
<1>1. Released(r, exhausted) =
        [r EXCEPT !.state = "pending", !.lease = 0, !.attempts = left]
  BY DEF Released
<1> HIDE DEF left
<1>2. LET q == Released(r, exhausted) IN
      /\ q.state = "pending" /\ q.fence = r.fence /\ q.lease = 0 /\ q.attempts = left
      /\ q.eligible = r.eligible /\ q.first = r.first
  BY <1>1 DEF Row
<1> QED BY <1>2 DEF Shaped, left

\* A reschedule raises the fence and keeps the round's attempts and window.
LEMMA RescheduledShape ==
    ASSUME now \in Nat, NEW r \in Row, Shaped(r), NEW b
    PROVE  /\ Shaped(Rescheduled(r, b))
           /\ Rescheduled(r, b).state = "pending"
           /\ Rescheduled(r, b).fence = r.fence + 1
           /\ Rescheduled(r, b).attempts = r.attempts
           /\ Shaped(NewRound(Rescheduled(r, b)))
           /\ NewRound(Rescheduled(r, b)).state = "pending"
           /\ NewRound(Rescheduled(r, b)).fence = r.fence + 1
           /\ NewRound(Rescheduled(r, b)).attempts = 0
<1> DEFINE q == Rescheduled(r, b)
<1>1. /\ q.state = "pending" /\ q.fence = r.fence + 1 /\ q.attempts = r.attempts
      /\ q.lease = 0 /\ q.eligible = now /\ q.first = r.first
  BY DEF Rescheduled, Row
<1>2. LET n == NewRound(q) IN
      /\ n.state = "pending" /\ n.fence = r.fence + 1 /\ n.attempts = 0
      /\ n.lease = 0 /\ n.eligible = now /\ n.first = now
  BY DEF NewRound, Rescheduled, Row
<1> HIDE DEF q
<1> QED BY <1>1, <1>2 DEF Shaped, Row, q

\* A pause or a cancellation keeps everything but the state and the lease.
LEMMA HeldShape ==
    ASSUME NEW r \in Row, Shaped(r),
           NEW state \in {"paused", "cancelled"}
    PROVE  LET q == [r EXCEPT !.state = state, !.lease = 0] IN
           /\ Shaped(q)
           /\ q.state = state /\ q.fence = r.fence /\ q.attempts = r.attempts
BY DEF Shaped, Row

-----------------------------------------------------------------------------
(* What a step leaves of the other attempts and rows.                      *)

\* An attempt the step does not touch stays sound if its row is as it was, or was
\* paused or cancelled, or has a newer fence.
LEMMA AttemptKept ==
    ASSUME TypeInv, NEW w \in Workers, AttemptSound(w),
           \/ workers'[w].phase \notin Sending
           \/ /\ workers'[w] = workers[w]
              /\ rows'[EffectAt(w)].state # "none"
              /\ rows'[EffectAt(w)].fence \in Nat
              /\ \/ /\ rows'[EffectAt(w)] = rows[EffectAt(w)]
                    /\ sent'[EffectAt(w)] = sent[EffectAt(w)]
                 \/ /\ rows'[EffectAt(w)].state \in {"paused", "cancelled"}
                    /\ rows'[EffectAt(w)].fence = rows[EffectAt(w)].fence
                    /\ rows'[EffectAt(w)].attempts = rows[EffectAt(w)].attempts
                    /\ sent'[EffectAt(w)] = sent[EffectAt(w)]
                 \/ workers[w].fence < rows'[EffectAt(w)].fence
    PROVE  AttemptSound(w)'
<1>1. CASE workers'[w].phase \notin Sending
  BY <1>1 DEF AttemptSound
<1>2. CASE workers'[w].phase \in Sending
  <2>1. workers'[w] = workers[w] /\ workers[w].phase \in Sending BY <1>2
  <2>2. workers[w].fence \in Nat BY DEF TypeInv, TypeOK, Attempt
  <2>3. EffectAt(w)' = EffectAt(w) BY <2>1 DEF EffectAt
  <2>4. EffectAt(w) = workers[w].effect BY DEF EffectAt
  <2> QED BY <1>2, <2>1, <2>2, <2>3, <2>4 DEF AttemptSound, RowAt, EffectAt
<1> QED BY <1>1, <1>2

\* While a row has the fence of one attempt, every other attempt's is older.
LEMMA OthersSuperseded ==
    ASSUME ClaimsInv, NEW w \in Workers, NEW v \in Workers \ {w},
           workers[w].phase \in Sending, workers[v].phase \in Sending,
           EffectAt(v) = EffectAt(w), workers[w].fence = RowAt(w).fence
    PROVE  workers[v].fence < RowAt(w).fence
<1>1. workers[v].fence <= RowAt(v).fence /\ workers[v].fence # workers[w].fence
  BY DEF ClaimsInv, AttemptSound, FenceNamesClaim, EffectAt
<1>2. RowAt(v) = RowAt(w) BY DEF RowAt
<1>3. workers[v].fence \in Nat BY DEF ClaimsInv, TypeInv, TypeOK, Attempt
<1>4. RowAt(w).fence \in Nat BY RowAtType DEF ClaimsInv, Row
<1> QED BY <1>1, <1>2, <1>3, <1>4

\* An attempt that replaces the row it holds, keeping its fence, disturbs no other
\* attempt.
LEMMA OwnRowReplaced ==
    ASSUME ClaimsInv, NEW w \in Workers, workers[w].phase \in Sending,
           NEW r, r.state # "none", r.fence = RowAt(w).fence,
           rows' = [rows EXCEPT ![EffectAt(w)] = r],
           \A e \in Effects \ {EffectAt(w)} : sent'[e] = sent[e],
           workers[w].fence = RowAt(w).fence,
           NEW v \in Workers \ {w}, workers'[v] = workers[v]
    PROVE  AttemptSound(v)'
<1>t. rows \in [Effects -> Row] /\ RowAt(w).fence \in Nat
  BY RowAtType DEF ClaimsInv, TypeInv, TypeOK, Row
<1>s. AttemptSound(v) /\ TypeInv BY DEF ClaimsInv
<1>1. CASE workers[v].phase \notin Sending
  BY <1>1, <1>s, AttemptKept
<1>2. CASE workers[v].phase \in Sending /\ EffectAt(v) = EffectAt(w)
  <2>1. workers[v].fence < RowAt(w).fence BY <1>2, OthersSuperseded
  <2>2. rows'[EffectAt(v)] = r BY <1>2, <1>t, RowAtType, <1>s
  <2> QED BY <1>s, <1>t, <2>1, <2>2, AttemptKept
<1>3. CASE workers[v].phase \in Sending /\ EffectAt(v) # EffectAt(w)
  <2>1. EffectAt(v) \in Effects /\ RowAt(v) \in Row BY <1>3, <1>s, RowAtType
  <2>2. rows'[EffectAt(v)] = rows[EffectAt(v)] BY <1>3, <1>t, <2>1
  <2>3. rows[EffectAt(v)].state # "none" /\ rows[EffectAt(v)].fence \in Nat
    BY <1>3, <1>s, <2>1 DEF AttemptSound, RowAt, Row
  <2> QED BY <1>3, <1>s, <2>1, <2>2, <2>3, AttemptKept
<1> QED BY <1>1, <1>2, <1>3

\* A step that changes no row and no count of sends disturbs no other attempt.
LEMMA RowsUntouched ==
    ASSUME ClaimsInv, rows' = rows, sent' = sent, NEW v \in Workers,
           workers'[v] = workers[v] \/ workers'[v].phase \notin Sending
    PROVE  AttemptSound(v)'
<1>s. AttemptSound(v) /\ TypeInv BY DEF ClaimsInv
<1>1. CASE workers'[v].phase \notin Sending BY <1>1, <1>s, AttemptKept
<1>2. CASE workers'[v] = workers[v] /\ workers[v].phase \in Sending
  <2>1. RowAt(v) \in Row BY <1>2, <1>s, RowAtType
  <2>2. rows[EffectAt(v)].state # "none" /\ rows[EffectAt(v)].fence \in Nat
    BY <1>2, <1>s, <2>1 DEF AttemptSound, RowAt, Row
  <2> QED BY <1>2, <1>s, <2>2, AttemptKept
<1> QED BY <1>1, <1>2

\* Attempts that keep their capture and fence, or end, keep the fences apart.
LEMMA FencesKept ==
    ASSUME ClaimsInv,
           \A w \in Workers : workers'[w].phase \in Sending =>
               /\ workers[w].phase \in Sending
               /\ workers'[w].effect = workers[w].effect
               /\ workers'[w].fence = workers[w].fence
    PROVE  FenceNamesClaim'
BY DEF ClaimsInv, FenceNamesClaim

\* Replacing one row by a sound one leaves all rows sound.
LEMMA RowSoundReplaced ==
    ASSUME ClaimsInv, NEW e \in Effects, NEW r, rows' = [rows EXCEPT ![e] = r],
           now' = now, \A f \in Effects \ {e} : sent'[f] = sent[f],
           Shaped(r), sent'[e] <= r.attempts
    PROVE  \A f \in Effects : RowSound(f)'
<1>1. \A f \in Effects : rows'[f] = IF f = e THEN r ELSE rows[f]
  BY DEF ClaimsInv, TypeInv, TypeOK
<1> QED BY <1>1 DEF ClaimsInv, RowSound, Shaped

\* Rows and sends that do not change stay sound.
LEMMA RowSoundKept ==
    ASSUME ClaimsInv, rows' = rows, sent' = sent, now' = now
    PROVE  \A f \in Effects : RowSound(f)'
BY DEF ClaimsInv, RowSound, Shaped

-----------------------------------------------------------------------------
(* The steps.                                                              *)

\* A claim raises the fence past every attempt on the row, and the new attempt
\* holds it.
LEMMA ClaimSound ==
    ASSUME ClaimsInv, NEW w \in Workers, NEW e \in Effects,
           Claim(w, e) \/ ClaimLost(w, e)
    PROVE  /\ \A f \in Effects : RowSound(f)'
           /\ \A v \in Workers : AttemptSound(v)'
           /\ FenceNamesClaim'
<1> DEFINE r == Claimed(rows[e])
<1>t. /\ TypeInv /\ now \in Nat /\ rows \in [Effects -> Row] /\ rows[e] \in Row
      /\ workers \in [Workers -> Attempt] /\ sent \in [Effects -> Nat]
      /\ deployment \in Nat
  BY DEF ClaimsInv, TypeInv, TypeOK
<1>n. rows[e].fence \in Nat /\ rows[e].attempts \in Nat /\ sent[e] \in Nat
  BY <1>t, LimitAssumption DEF Row
<1>a. Shaped(rows[e]) /\ sent[e] <= rows[e].attempts
  BY DEF ClaimsInv, RowSound
<1>b. /\ Shaped(r) /\ r.state = "running" /\ r.fence = rows[e].fence + 1
      /\ r.lease = now + Lease
      /\ r.attempts = IF rows[e].attempts < MaxAttempts THEN rows[e].attempts + 1
                      ELSE rows[e].attempts
  BY <1>a, <1>t, ClaimedShape
<1>c. now' = now /\ sent' = sent BY DEF Claim, ClaimLost, history
<1>d. \/ rows' = [rows EXCEPT ![e] = r]
      \/ rows' = rows
  BY DEF Claim, ClaimLost, ClaimCommits
<1>e. \A v \in Workers \ {w} : workers'[v] = workers[v]
  BY <1>t DEF Claim, ClaimLost
<1>f. \/ Claim(w, e) /\ workers'[w] = ClaimOf(e, HomeOf[w])
      \/ ClaimLost(w, e) /\ workers'[w].phase \notin Sending
  <2>1. Marked(e).phase \notin Sending BY DEF Marked, Idle, Sending
  <2> QED BY <1>t, <2>1 DEF Claim, ClaimLost
<1> HIDE DEF r
<1>1. \A f \in Effects : RowSound(f)'
  BY <1>a, <1>b, <1>c, <1>d, <1>n, <1>t, RowSoundReplaced, RowSoundKept
<1>2. ASSUME NEW v \in Workers \ {w} PROVE AttemptSound(v)'
  <2>1. CASE rows' = rows BY <1>c, <1>e, <2>1, RowsUntouched
  <2>2. CASE rows' = [rows EXCEPT ![e] = r] /\ workers[v].phase \in Sending
    <3>1. EffectAt(v) \in Effects /\ RowAt(v) \in Row BY <1>t, <2>2, RowAtType
    <3>2. /\ AttemptSound(v) /\ RowAt(v).state # "none"
          /\ workers[v].fence <= RowAt(v).fence
          /\ workers[v].fence \in Nat /\ RowAt(v).fence \in Nat
      BY <1>t, <2>2, <3>1 DEF ClaimsInv, AttemptSound, Row, Attempt
    <3>3. CASE EffectAt(v) = e
      <4>1. rows'[EffectAt(v)] = r BY <1>t, <2>2, <3>3
      <4>2. workers[v].fence < r.fence BY <1>b, <1>n, <3>2, <3>3 DEF RowAt
      <4> QED BY <1>b, <1>e, <1>n, <1>t, <3>2, <4>1, <4>2, AttemptKept
    <3>4. CASE EffectAt(v) # e
      <4>1. rows'[EffectAt(v)] = rows[EffectAt(v)] BY <1>t, <2>2, <3>1, <3>4
      <4> QED BY <1>c, <1>e, <1>t, <3>2, <4>1, AttemptKept DEF RowAt
    <3> QED BY <3>3, <3>4
  <2>3. CASE workers[v].phase \notin Sending
    BY <1>e, <1>t, <2>3, AttemptKept DEF ClaimsInv
  <2> QED BY <1>d, <2>1, <2>2, <2>3
<1>3. AttemptSound(w)'
  <2>1. CASE workers'[w].phase \notin Sending BY <2>1 DEF AttemptSound
  <2>2. CASE Claim(w, e) /\ workers'[w] = ClaimOf(e, HomeOf[w])
    <3>1. rows' = [rows EXCEPT ![e] = r] BY <2>2 DEF Claim, ClaimCommits, r
    <3>2. rows'[e] = r BY <1>t, <3>1
    <3>3. /\ workers'[w].effect = e /\ workers'[w].phase = "claimed"
          /\ workers'[w].fence = rows[e].fence + 1 /\ workers'[w].lease = now + Lease
      BY <2>2 DEF ClaimOf
    <3>6. ~ workers'[w].exhausted => ~ (rows[e].attempts >= MaxAttempts)
      <4> DEFINE spent == rows[e].attempts >= MaxAttempts
      <4>1. ClaimOf(e, HomeOf[w]) =
              [phase |-> "claimed", effect |-> e, fence |-> rows[e].fence + 1,
               gen |-> owner[HomeOf[w]].gen, lease |-> now + Lease,
               epoch |-> runtime.epoch, exhausted |-> spent, result |-> "retry"]
        BY DEF ClaimOf
      <4> HIDE DEF spent
      <4>2. workers'[w].exhausted = spent BY <2>2, <4>1
      <4>3. ~ workers'[w].exhausted => ~ spent BY <4>2
      <4> QED BY <4>3 DEF spent
    <3>4. RowAt(w)' = r /\ EffectAt(w)' = e BY <3>2, <3>3 DEF RowAt, EffectAt
    <3>5. ASSUME ~ workers'[w].exhausted PROVE sent'[e] < r.attempts
      <4>1. rows[e].attempts < MaxAttempts BY <1>n, <3>5, <3>6, LimitAssumption
      <4>2. r.attempts = rows[e].attempts + 1 BY <1>b, <4>1
      <4> QED BY <1>a, <1>c, <1>n, <4>2
    <3> QED BY <1>b, <1>n, <3>3, <3>4, <3>5 DEF AttemptSound
  <2> QED BY <1>f, <2>1, <2>2
<1>4. FenceNamesClaim'
  <2>1. CASE workers'[w].phase \notin Sending BY <1>e, <2>1, FencesKept
  <2>2. CASE workers'[w] = ClaimOf(e, HomeOf[w])
    <3>1. /\ workers'[w].effect = e
          /\ workers'[w].fence = rows[e].fence + 1
      BY <2>2 DEF ClaimOf
    <3>2. ASSUME NEW v \in Workers \ {w}, workers[v].phase \in Sending,
                 workers[v].effect = e
          PROVE  workers[v].fence # rows[e].fence + 1
      <4>1. workers[v].fence <= rows[e].fence /\ workers[v].fence \in Nat
        BY <1>t, <3>2 DEF ClaimsInv, AttemptSound, RowAt, EffectAt, Attempt
      <4> QED BY <1>n, <4>1
    <3> QED BY <1>e, <3>1, <3>2 DEF ClaimsInv, FenceNamesClaim
  <2> QED BY <1>f, <2>1, <2>2
<1> QED BY <1>1, <1>2, <1>3, <1>4

\* The row an attempt leaves behind when preflight settles it.
LEMMA PreflightShape ==
    ASSUME ClaimsInv, NEW w \in Workers, workers[w].phase = "claimed",
           rows' = PreflightRows(w), sent' = sent, now' = now
    PROVE  /\ \A f \in Effects : RowSound(f)'
           /\ \A v \in Workers \ {w} : workers'[v] = workers[v] => AttemptSound(v)'
           /\ EffectAt(w) \in Effects
           /\ rows'[EffectAt(w)].state # "none"
           /\ rows'[EffectAt(w)].fence = RowAt(w).fence
           /\ rows'[EffectAt(w)].attempts = RowAt(w).attempts
<1>t. /\ TypeInv /\ now \in Nat /\ rows \in [Effects -> Row]
      /\ EffectAt(w) \in Effects /\ RowAt(w) \in Row /\ RowAt(w) = rows[EffectAt(w)]
      /\ workers[w].phase \in Sending
  BY RowAtType DEF ClaimsInv, TypeInv, TypeOK, Sending, RowAt
<1>a. RowAt(w).state # "none" BY <1>t DEF ClaimsInv, AttemptSound
<1>b. Shaped(RowAt(w)) /\ sent[EffectAt(w)] <= RowAt(w).attempts
  BY <1>t DEF ClaimsInv, RowSound
<1>1. CASE rows' = rows
  BY <1>1, <1>a, <1>t, RowSoundKept, RowsUntouched
<1>2. CASE Holds(w) /\ PreflightState(w) # "running"
  <2> DEFINE r == Settled(RowAt(w), PreflightState(w), Later(RowAt(w)))
  <2>1. PreflightState(w) \in {"paused", "dead", "pending"}
    BY <1>2 DEF PreflightState
  <2>2. PreflightState(w) \in RowStates \ {"running", "none"}
    BY <2>1 DEF RowStates
  <2>3. /\ Shaped(r) /\ r.state # "none" /\ r.fence = RowAt(w).fence
        /\ r.attempts = RowAt(w).attempts
    BY <1>b, <1>t, <2>2, LaterShape, SettledShape
  <2>4. rows' = [rows EXCEPT ![EffectAt(w)] = r]
    BY <1>2 DEF PreflightRows, RowAt
  <2>5. workers[w].fence = RowAt(w).fence BY <1>2 DEF Holds, Fenced
  <2> HIDE DEF r
  <2>6. rows'[EffectAt(w)] = r BY <1>t, <2>4
  <2>7. \A f \in Effects : RowSound(f)' BY <1>b, <1>t, <2>3, <2>4, RowSoundReplaced
  <2>8. \A v \in Workers \ {w} : workers'[v] = workers[v] => AttemptSound(v)'
    BY <1>t, <2>3, <2>4, <2>5, OwnRowReplaced
  <2> QED BY <1>t, <2>3, <2>6, <2>7, <2>8
<1> QED BY <1>1, <1>2 DEF PreflightRows

\* The row that finalize leaves keeps its fence and attempts.
LEMMA FinalShape ==
    ASSUME ClaimsInv, NEW w \in Workers, workers[w].phase = "posted",
           NEW after \in RetryAfter \cup {0}
    PROVE  /\ Shaped(FinalRow(w, after))
           /\ FinalRow(w, after).state # "none"
           /\ FinalRow(w, after).fence = RowAt(w).fence
           /\ FinalRow(w, after).attempts = RowAt(w).attempts
           /\ FinalRow(w, after) = RowAt(w) \/ workers[w].fence = RowAt(w).fence
<1> DEFINE r == RowAt(w)  q == FinalRow(w, after)
<1>t. /\ TypeInv /\ now \in Nat /\ EffectAt(w) \in Effects /\ r \in Row
      /\ r = rows[EffectAt(w)] /\ (r.state = "running" => r.attempts > 0)
  BY RowAtType DEF ClaimsInv, TypeInv, TypeOK, Sending, RowAt
<1>a. Shaped(r) /\ r.state # "none"
  BY <1>t DEF ClaimsInv, RowSound, AttemptSound, Sending
<1>b. after \in Nat
  <2>1. RetryAfter \subseteq Nat BY LimitAssumption
  <2> QED BY <2>1
<1>1. \/ q = r
      \/ Fenced(w) /\ q = Settled(r, "delivered", Later(r))
      \/ /\ Fenced(w) /\ r.state = "running"
         /\ \/ q = Settled(r, "paused", Later(r))
            \/ q = Settled(r, "dead", Later(r))
            \/ q = Settled(r, "pending", RetryAt(r, after)) /\ RetryAt(r, after) # 0
  BY DEF FinalRow, DeliveredRow, RejectedRow
<1>2. ASSUME r.state = "running", RetryAt(r, after) # 0
      PROVE  RetryAt(r, after) \in Nat /\ RetryAt(r, after) >= r.first
  <2>1. RetryAt(r, after) \in Nat BY <1>2, <1>b, <1>t, RetryAtType
  <2>2. r.attempts < MaxAttempts
    <3>1. ~ (r.attempts >= MaxAttempts) BY <1>2 DEF RetryAt
    <3>2. r.attempts \in Nat BY <1>t, LimitAssumption DEF Row
    <3> QED BY <3>1, <3>2, LimitAssumption
  <2>3. Backoff[r.attempts] \in Nat
    <3>1. r.attempts \in 0 .. MaxAttempts BY <1>t DEF Row
    <3>2. MaxAttempts \in Nat BY LimitAssumption
    <3>3. r.attempts > 0 BY <1>2, <1>t
    <3>4. r.attempts \in 1 .. MaxAttempts - 1 BY <1>t, <2>2, <3>1, <3>2, <3>3
    <3> QED BY <3>4, LimitAssumption
  <2> DEFINE delay == IF Backoff[r.attempts] > after THEN Backoff[r.attempts] ELSE after
  <2>4. delay \in Nat BY <1>b, <2>3
  <2>5. RetryAt(r, after) = now + delay BY <1>2 DEF RetryAt
  <2> HIDE DEF delay
  <2> QED BY <1>a, <1>t, <2>1, <2>4, <2>5 DEF Shaped, Row
<1>3. \A state \in {"delivered", "paused", "dead", "pending"} :
        state \in RowStates \ {"running", "none"}
  BY DEF RowStates
<1>4. Later(r) \in Nat /\ Later(r) >= r.first BY <1>a, <1>t, LaterShape
<1> HIDE DEF r, q
<1>5. \A state \in {"delivered", "paused", "dead", "pending"}, eligible \in Nat :
        eligible >= r.first =>
            LET s == Settled(r, state, eligible) IN
            /\ Shaped(s) /\ s.state # "none"
            /\ s.fence = r.fence /\ s.attempts = r.attempts
  <2> TAKE state \in {"delivered", "paused", "dead", "pending"}, eligible \in Nat
  <2>1. state \in RowStates \ {"running", "none"} BY <1>3
  <2> QED BY <1>a, <1>t, <2>1, SettledShape
<1>6. Shaped(q) /\ q.state # "none" /\ q.fence = r.fence /\ q.attempts = r.attempts
  BY <1>1, <1>2, <1>4, <1>5, <1>a
<1>7. q = r \/ workers[w].fence = r.fence BY <1>1 DEF Fenced, r
<1> QED BY <1>6, <1>7 DEF q, r

\* Every worker step keeps rows, attempts and fences sound.
LEMMA WorkerSound ==
    ASSUME ClaimsInv, NEW w \in Workers, WorkerStep(w)
    PROVE  /\ \A f \in Effects : RowSound(f)'
           /\ \A v \in Workers : AttemptSound(v)'
           /\ FenceNamesClaim'
<1>t. /\ TypeInv /\ now \in Nat /\ rows \in [Effects -> Row]
      /\ workers \in [Workers -> Attempt] /\ workers[w] \in Attempt
      /\ sent \in [Effects -> Nat]
  BY DEF ClaimsInv, TypeInv, TypeOK
<1>s. ASSUME workers[w].phase \in Sending
      PROVE  /\ EffectAt(w) \in Effects /\ RowAt(w) \in Row
             /\ RowAt(w) = rows[EffectAt(w)]
             /\ Shaped(RowAt(w)) /\ sent[EffectAt(w)] <= RowAt(w).attempts
             /\ RowAt(w).state # "none"
             /\ RowAt(w).attempts \in Nat /\ sent[EffectAt(w)] \in Nat
  BY <1>s, <1>t, RowAtType, LimitAssumption
  DEF ClaimsInv, RowSound, AttemptSound, RowAt, Row
<1>e. ASSUME End(w)
      PROVE  /\ workers'[w].phase \notin Sending
             /\ \A v \in Workers \ {w} : workers'[v] = workers[v]
  <2>1. Marked(workers[w].effect).phase \notin Sending
    BY DEF Marked, Idle, Sending
  <2> QED BY <1>e, <1>t, <2>1 DEF End
<1>p. ASSUME NEW phase \in Phases, To(w, phase)
      PROVE  /\ workers'[w].phase = phase
             /\ workers'[w].effect = workers[w].effect
             /\ workers'[w].fence = workers[w].fence
             /\ workers'[w].lease = workers[w].lease
             /\ workers'[w].exhausted = workers[w].exhausted
             /\ \A v \in Workers \ {w} : workers'[v] = workers[v]
  BY <1>p, <1>t DEF To, Attempt
<1>x. workers'[w].phase \notin Sending => AttemptSound(w)' BY DEF AttemptSound
<1>1. ASSUME NEW e \in Effects, Claim(w, e) \/ ClaimLost(w, e)
      PROVE  /\ \A f \in Effects : RowSound(f)'
             /\ \A v \in Workers : AttemptSound(v)'
             /\ FenceNamesClaim'
  BY <1>1, ClaimSound
<1>2. CASE PreflightSend(w)
  <2> DEFINE e == EffectAt(w)
  <2>0. workers[w].phase \in Sending BY <1>2 DEF PreflightSend, Sending
  <2>1. /\ rows' = rows /\ now' = now /\ sent' = [sent EXCEPT ![e] = sent[e] + 1]
        /\ To(w, "admitted") /\ workers[w].phase = "claimed"
        /\ Holds(w) /\ PreflightState(w) = "running"
    BY <1>2 DEF PreflightSend
  <2>2. /\ sent' \in [Effects -> Int] /\ sent'[e] = sent[e] + 1
        /\ \A f \in Effects \ {e} : sent'[f] = sent[f]
    BY <1>s, <1>t, <2>0, <2>1
  <2>3. ~ workers[w].exhausted BY <2>1 DEF PreflightState
  <2>4. workers[w].fence = RowAt(w).fence /\ RowAt(w).state = "running"
    BY <2>1 DEF Holds, Fenced
  <2>5. sent[e] < RowAt(w).attempts
    BY <2>0, <2>1, <2>3, <2>4 DEF ClaimsInv, AttemptSound, EffectAt
  <2>6. /\ workers'[w].phase = "admitted"
        /\ workers'[w].effect = workers[w].effect
        /\ workers'[w].fence = workers[w].fence
        /\ workers'[w].lease = workers[w].lease
        /\ \A v \in Workers \ {w} : workers'[v] = workers[v]
    BY <1>p, <2>1 DEF Phases
  <2>7. \A f \in Effects : RowSound(f)'
    <3>1. rows' = [rows EXCEPT ![e] = RowAt(w)] BY <1>s, <1>t, <2>0, <2>1
    <3>2. sent'[e] <= RowAt(w).attempts BY <1>s, <2>0, <2>2, <2>5
    <3> QED BY <1>s, <2>0, <2>1, <2>2, <3>1, <3>2, RowSoundReplaced
  <2>8. \A v \in Workers \ {w} : AttemptSound(v)'
    <3>1. rows' = [rows EXCEPT ![e] = RowAt(w)] BY <1>s, <1>t, <2>0, <2>1
    <3> QED BY <1>s, <2>0, <2>2, <2>4, <2>6, <3>1, OwnRowReplaced
  <2>9. AttemptSound(w)'
    <3>1. RowAt(w)' = RowAt(w) BY <2>1, <2>6 DEF RowAt, EffectAt
    <3>2. RowAt(w).state = "running" => RowAt(w).lease = workers[w].lease
      BY <2>0, <2>1, <2>4 DEF ClaimsInv, AttemptSound
    <3> QED BY <1>s, <2>0, <2>4, <2>6, <3>1, <3>2, <1>t DEF AttemptSound, Attempt, Row
  <2>10. FenceNamesClaim' BY <2>0, <2>6, FencesKept
  <2> QED BY <2>7, <2>8, <2>9, <2>10
<1>3. CASE PreflightSettle(w)
  <2>1. /\ workers[w].phase = "claimed" /\ rows' = PreflightRows(w) /\ End(w)
        /\ now' = now /\ sent' = sent
    BY <1>3 DEF PreflightSettle, history
  <2> QED BY <1>e, <1>x, <2>1, PreflightShape, FencesKept
<1>4. CASE PreflightFail(w)
  <2>0. workers[w].phase \in Sending BY <1>4 DEF PreflightFail, Sending
  <2>1. /\ workers[w].phase = "claimed" /\ To(w, "releasing")
        /\ now' = now /\ sent' = sent
        /\ rows' = rows \/ rows' = PreflightRows(w)
    BY <1>4 DEF PreflightFail, history
  <2>2. /\ workers'[w].phase = "releasing"
        /\ workers'[w].effect = workers[w].effect
        /\ workers'[w].fence = workers[w].fence
        /\ workers'[w].exhausted = workers[w].exhausted
        /\ \A v \in Workers \ {w} : workers'[v] = workers[v]
    BY <1>p, <2>1 DEF Phases
  <2>3. /\ \A f \in Effects : RowSound(f)'
        /\ \A v \in Workers \ {w} : AttemptSound(v)'
        /\ rows'[EffectAt(w)].state # "none"
        /\ rows'[EffectAt(w)].fence = RowAt(w).fence
        /\ rows'[EffectAt(w)].attempts = RowAt(w).attempts
    <3>1. CASE rows' = rows
      BY <1>s, <2>0, <2>1, <2>2, <3>1, RowSoundKept, RowsUntouched
    <3>2. CASE rows' = PreflightRows(w)
      BY <2>1, <2>2, <3>2, PreflightShape
    <3> QED BY <2>1, <3>1, <3>2
  <2>4. AttemptSound(w)'
    <3>1. RowAt(w)' = rows'[EffectAt(w)] BY <2>2 DEF RowAt, EffectAt
    <3> QED BY <2>0, <2>1, <2>2, <2>3, <3>1
        DEF ClaimsInv, AttemptSound
  <2>5. FenceNamesClaim' BY <2>0, <2>2, FencesKept
  <2> QED BY <2>3, <2>4, <2>5
<1>5. CASE Release(w)
  <2>0. workers[w].phase = "releasing" /\ workers[w].phase \in Sending
    BY <1>5 DEF Release, Sending
  <2>1. End(w) /\ now' = now /\ sent' = sent BY <1>5 DEF Release, history
  <2>2. CASE rows' = rows
    BY <1>e, <1>x, <2>1, <2>2, RowSoundKept, RowsUntouched, FencesKept
  <2>3. CASE Holds(w) /\ rows' = [rows EXCEPT ![EffectAt(w)] =
                                     Released(@, workers[w].exhausted)]
    <3> DEFINE r == Released(RowAt(w), workers[w].exhausted)
    <3>1. rows' = [rows EXCEPT ![EffectAt(w)] = r] BY <2>3 DEF RowAt
    <3>2. RowAt(w).attempts > 0 /\ workers[w].exhausted \in BOOLEAN
      BY <1>t, <2>0, <2>3, RowAtType DEF Holds, Attempt
    <3>3. /\ Shaped(r) /\ r.state = "pending" /\ r.fence = RowAt(w).fence
          /\ r.attempts = IF workers[w].exhausted THEN RowAt(w).attempts
                          ELSE RowAt(w).attempts - 1
      BY <1>s, <2>0, <3>2, ReleasedShape
    <3>4. workers[w].fence = RowAt(w).fence BY <2>3 DEF Holds, Fenced
    <3>5. ~ workers[w].exhausted => sent[EffectAt(w)] < RowAt(w).attempts
      BY <2>0, <3>4 DEF ClaimsInv, AttemptSound, EffectAt
    <3> HIDE DEF r
    <3>6. sent'[EffectAt(w)] <= r.attempts BY <1>s, <2>0, <2>1, <3>3, <3>5
    <3>7. \A f \in Effects : RowSound(f)'
      BY <1>s, <2>0, <2>1, <3>1, <3>3, <3>6, RowSoundReplaced
    <3>8. \A v \in Workers \ {w} : AttemptSound(v)'
      BY <1>e, <1>s, <2>0, <2>1, <3>1, <3>3, <3>4, OwnRowReplaced
    <3> QED BY <1>e, <1>x, <2>1, <3>7, <3>8, FencesKept
  <2> QED BY <1>5, <2>2, <2>3 DEF Release
<1>6. CASE Abandon(w) \/ Finish(w) \/ Retain(w)
  <2>1. /\ rows' = rows /\ now' = now /\ sent' = sent
        /\ workers'[w].phase \notin Sending
        /\ \A v \in Workers \ {w} : workers'[v] = workers[v]
    <3>1. CASE Abandon(w) BY <1>e, <3>1 DEF Abandon, history
    <3>2. CASE Finish(w)
      <4>1. Idle.phase \notin Sending BY DEF Idle, Sending
      <4> QED BY <1>t, <3>2, <4>1 DEF Finish, history
    <3>3. CASE Retain(w) BY <1>p, <3>3 DEF Retain, history, Phases, Sending
    <3> QED BY <1>6, <3>1, <3>2, <3>3
  <2> QED BY <1>x, <2>1, RowSoundKept, RowsUntouched, FencesKept
<1>7. ASSUME NEW result \in Results, SecretUnavailable(w) \/ Post(w, result)
      PROVE  /\ \A f \in Effects : RowSound(f)'
             /\ \A v \in Workers : AttemptSound(v)'
             /\ FenceNamesClaim'
  <2>0. workers[w].phase = "admitted" /\ workers[w].phase \in Sending
    BY <1>7 DEF SecretUnavailable, Post, Sending
  <2>1. rows' = rows /\ now' = now /\ sent' = sent
    BY <1>7 DEF SecretUnavailable, Post, history
  <2>2. \E s : workers' = [workers EXCEPT ![w].phase = "posted", ![w].result = s]
    BY <1>7 DEF SecretUnavailable, Post
  <2>3. /\ workers'[w].phase = "posted"
        /\ workers'[w].effect = workers[w].effect
        /\ workers'[w].fence = workers[w].fence
        /\ workers'[w].lease = workers[w].lease
        /\ \A v \in Workers \ {w} : workers'[v] = workers[v]
    BY <1>t, <2>2 DEF Attempt
  <2>4. AttemptSound(w)'
    <3>1. RowAt(w)' = RowAt(w) BY <2>1, <2>3 DEF RowAt, EffectAt
    <3> QED BY <2>0, <2>3, <3>1 DEF ClaimsInv, AttemptSound
  <2>5. FenceNamesClaim' BY <2>0, <2>3, FencesKept
  <2> QED BY <2>1, <2>3, <2>4, <2>5, RowSoundKept, RowsUntouched
<1>8. ASSUME NEW after \in RetryAfter \cup {0},
             Finalize(w, after) \/ FinalizeFail(w, after)
      PROVE  /\ \A f \in Effects : RowSound(f)'
             /\ \A v \in Workers : AttemptSound(v)'
             /\ FenceNamesClaim'
  <2>0. workers[w].phase = "posted" /\ workers[w].phase \in Sending
    BY <1>8 DEF Finalize, FinalizeFail, Sending
  <2>1. End(w) /\ now' = now /\ sent' = sent
    BY <1>8 DEF Finalize, FinalizeFail, history
  <2>2. CASE rows' = rows
    BY <1>e, <1>x, <2>1, <2>2, RowSoundKept, RowsUntouched, FencesKept
  <2>3. CASE rows' = [rows EXCEPT ![EffectAt(w)] = FinalRow(w, after)]
    <3> DEFINE r == FinalRow(w, after)
    <3>1. /\ Shaped(r) /\ r.state # "none" /\ r.fence = RowAt(w).fence
          /\ r.attempts = RowAt(w).attempts
          /\ r = RowAt(w) \/ workers[w].fence = RowAt(w).fence
      BY <2>0, FinalShape
    <3> HIDE DEF r
    <3>2. CASE r = RowAt(w)
      <4>1. rows' = rows BY <1>s, <1>t, <2>0, <2>3, <3>2 DEF r
      <4> QED BY <2>2, <4>1
    <3>3. CASE workers[w].fence = RowAt(w).fence
      <4>1. rows' = [rows EXCEPT ![EffectAt(w)] = r] BY <2>3 DEF r
      <4>2. \A f \in Effects : RowSound(f)'
        BY <1>s, <2>0, <2>1, <3>1, <4>1, RowSoundReplaced
      <4>3. \A v \in Workers \ {w} : AttemptSound(v)'
        BY <1>e, <2>0, <2>1, <3>1, <3>3, <4>1, OwnRowReplaced
      <4> QED BY <1>e, <1>x, <2>1, <4>2, <4>3, FencesKept
    <3> QED BY <3>1, <3>2, <3>3
  <2> QED BY <1>8, <2>2, <2>3 DEF Finalize, FinalizeFail
<1> QED BY <1>1, <1>2, <1>3, <1>4, <1>5, <1>6, <1>7, <1>8 DEF WorkerStep, Results

\* What a command may do to a row: nothing, a pause or a cancellation, a reschedule
\* of the same round or of a new one.
Commanded(e) ==
    \/ rows'[e] = rows[e] /\ sent'[e] = sent[e]
    \/ /\ \E state \in {"paused", "cancelled"} :
             rows'[e] = [rows[e] EXCEPT !.state = state, !.lease = 0]
       /\ sent'[e] = sent[e]
    \/ \E b : rows'[e] = Rescheduled(rows[e], b) /\ sent'[e] = sent[e]
    \/ \E b : rows'[e] = NewRound(Rescheduled(rows[e], b)) /\ sent'[e] = 0

\* Commands keep them sound: a pause or a cancellation leaves the fence and the
\* attempts of the rows it touches, and a reschedule raises the fence.
LEMMA OperatorSound ==
    ASSUME ClaimsInv, workers' = workers, now' = now,
           \A e \in Effects : Commanded(e)
    PROVE  /\ \A f \in Effects : RowSound(f)'
           /\ \A v \in Workers : AttemptSound(v)'
           /\ FenceNamesClaim'
<1>t. /\ TypeInv /\ now \in Nat
      /\ \A e \in Effects : /\ rows[e] \in Row /\ Shaped(rows[e])
                            /\ rows[e].fence \in Nat /\ sent[e] \in Nat
                            /\ sent[e] <= rows[e].attempts
  BY DEF ClaimsInv, TypeInv, TypeOK, RowSound, Row
<1>1. ASSUME NEW e \in Effects
      PROVE  /\ Shaped(rows'[e]) /\ sent'[e] <= rows'[e].attempts
             /\ \/ rows'[e] = rows[e] /\ sent'[e] = sent[e]
                \/ /\ rows'[e].state \in {"paused", "cancelled"}
                   /\ rows'[e].fence = rows[e].fence
                   /\ rows'[e].attempts = rows[e].attempts
                   /\ sent'[e] = sent[e]
                \/ /\ rows'[e].state = "pending"
                   /\ rows'[e].fence = rows[e].fence + 1
  <2>0. rows[e] \in Row /\ Shaped(rows[e]) /\ sent[e] <= rows[e].attempts
    BY <1>t
  <2>1. CASE rows'[e] = rows[e] /\ sent'[e] = sent[e] BY <2>0, <2>1
  <2>2. ASSUME NEW state \in {"paused", "cancelled"}, sent'[e] = sent[e],
               rows'[e] = [rows[e] EXCEPT !.state = state, !.lease = 0]
        PROVE  /\ Shaped(rows'[e]) /\ sent'[e] <= rows'[e].attempts
               /\ rows'[e].state \in {"paused", "cancelled"}
               /\ rows'[e].fence = rows[e].fence
               /\ rows'[e].attempts = rows[e].attempts
    <3>1. LET q == [rows[e] EXCEPT !.state = state, !.lease = 0] IN
          /\ Shaped(q)
          /\ q.state = state /\ q.fence = rows[e].fence
          /\ q.attempts = rows[e].attempts
      BY <2>0, HeldShape
    <3> QED BY <2>0, <2>2, <3>1
  <2>3. ASSUME NEW b, rows'[e] = Rescheduled(rows[e], b), sent'[e] = sent[e]
        PROVE  /\ Shaped(rows'[e]) /\ sent'[e] <= rows'[e].attempts
               /\ rows'[e].state = "pending"
               /\ rows'[e].fence = rows[e].fence + 1
    <3>1. LET q == Rescheduled(rows[e], b) IN
          /\ Shaped(q) /\ q.state = "pending" /\ q.fence = rows[e].fence + 1
          /\ q.attempts = rows[e].attempts
      BY <1>t, <2>0, RescheduledShape
    <3> QED BY <2>0, <2>3, <3>1
  <2>4. ASSUME NEW b, rows'[e] = NewRound(Rescheduled(rows[e], b)), sent'[e] = 0
        PROVE  /\ Shaped(rows'[e]) /\ sent'[e] <= rows'[e].attempts
               /\ rows'[e].state = "pending"
               /\ rows'[e].fence = rows[e].fence + 1
    <3>1. LET q == NewRound(Rescheduled(rows[e], b)) IN
          /\ Shaped(q) /\ q.state = "pending" /\ q.fence = rows[e].fence + 1
          /\ q.attempts = 0
      BY <1>t, <2>0, RescheduledShape
    <3> QED BY <2>4, <3>1
  <2> QED BY <2>1, <2>2, <2>3, <2>4 DEF Commanded
<1>2. \A f \in Effects : RowSound(f)' BY <1>1 DEF RowSound, Shaped
<1>3. ASSUME NEW v \in Workers PROVE AttemptSound(v)'
  <2>1. CASE workers[v].phase \notin Sending
    BY <1>t, <2>1, AttemptKept DEF ClaimsInv
  <2>2. CASE workers[v].phase \in Sending
    <3>1. /\ EffectAt(v) \in Effects /\ AttemptSound(v)
          /\ rows[EffectAt(v)].state # "none"
          /\ workers[v].fence <= rows[EffectAt(v)].fence
          /\ workers[v].fence \in Nat
      BY <1>t, <2>2, RowAtType
      DEF ClaimsInv, AttemptSound, RowAt, TypeInv, TypeOK, Attempt
    <3>2. /\ rows'[EffectAt(v)].state # "none" /\ rows'[EffectAt(v)].fence \in Nat
          /\ \/ /\ rows'[EffectAt(v)] = rows[EffectAt(v)]
                /\ sent'[EffectAt(v)] = sent[EffectAt(v)]
             \/ /\ rows'[EffectAt(v)].state \in {"paused", "cancelled"}
                /\ rows'[EffectAt(v)].fence = rows[EffectAt(v)].fence
                /\ rows'[EffectAt(v)].attempts = rows[EffectAt(v)].attempts
                /\ sent'[EffectAt(v)] = sent[EffectAt(v)]
             \/ workers[v].fence < rows'[EffectAt(v)].fence
      <4> DEFINE e == EffectAt(v)
      <4>1. rows[e].fence \in Nat BY <1>t, <3>1
      <4>2. \/ rows'[e] = rows[e] /\ sent'[e] = sent[e]
            \/ /\ rows'[e].state \in {"paused", "cancelled"}
               /\ rows'[e].fence = rows[e].fence
               /\ rows'[e].attempts = rows[e].attempts
               /\ sent'[e] = sent[e]
            \/ /\ rows'[e].state = "pending"
               /\ rows'[e].fence = rows[e].fence + 1
        BY <1>1, <3>1
      <4>3. rows[e].fence + 1 \in Nat /\ workers[v].fence < rows[e].fence + 1
        BY <3>1, <4>1
      <4> HIDE DEF e
      <4>4. /\ rows'[e].state # "none" /\ rows'[e].fence \in Nat
            /\ \/ rows'[e] = rows[e] /\ sent'[e] = sent[e]
               \/ /\ rows'[e].state \in {"paused", "cancelled"}
                  /\ rows'[e].fence = rows[e].fence
                  /\ rows'[e].attempts = rows[e].attempts
                  /\ sent'[e] = sent[e]
               \/ workers[v].fence < rows'[e].fence
        BY <3>1, <4>1, <4>2, <4>3 DEF e
      <4> QED BY <4>4 DEF e
    <3> QED BY <1>t, <3>1, <3>2, AttemptKept
  <2> QED BY <2>1, <2>2
<1>4. FenceNamesClaim' BY FencesKept
<1> QED BY <1>2, <1>3, <1>4

\* ClaimsInv is inductive.
LEMMA StepClaims == ASSUME ClaimsInv, [Next]_vars PROVE ClaimsInv'
<1>t. /\ TypeInv /\ now \in Nat /\ rows \in [Effects -> Row]
      /\ workers \in [Workers -> Attempt] /\ sent \in [Effects -> Nat]
  BY DEF ClaimsInv, TypeInv, TypeOK
<1> DEFINE Sound == /\ \A f \in Effects : RowSound(f)'
                    /\ \A v \in Workers : AttemptSound(v)'
                    /\ FenceNamesClaim'
<1>0. TypeInv' BY StepTyped, <1>t
<1> SUFFICES Sound BY <1>0 DEF ClaimsInv
<1>1. ASSUME NEW e \in Effects, Enqueue(e) PROVE Sound
  <2> DEFINE r == [NoRow EXCEPT !.state = "pending", !.eligible = now,
                      !.first = now, !.gen = deployment, !.epoch = runtime.epoch,
                      !.grantVersion = grants[EndpointOf[e]].version,
                      !.secretVersion = SecretVersion(EndpointOf[e])]
  <2>1. /\ rows' = [rows EXCEPT ![e] = r] /\ rows[e].state = "none"
        /\ now' = now /\ sent' = sent /\ workers' = workers
    BY <1>1 DEF Enqueue, history
  <2>2. r.state = "pending" /\ r.attempts = 0 /\ r.lease = 0 /\ r.eligible = now
        /\ r.first = now
    BY DEF NoRow
  <2> HIDE DEF r
  <2>3. sent[e] = 0
    <3>1. rows[e].attempts = 0 /\ sent[e] <= rows[e].attempts
      BY <2>1 DEF ClaimsInv, RowSound, Shaped
    <3> QED BY <1>t, <3>1
  <2>4. \A f \in Effects : RowSound(f)'
    <3>1. Shaped(r) BY <1>t, <2>2 DEF Shaped
    <3>2. sent'[e] <= r.attempts BY <2>1, <2>2, <2>3
    <3> QED BY <2>1, <3>1, <3>2, RowSoundReplaced
  <2>5. ASSUME NEW v \in Workers PROVE AttemptSound(v)'
    <3>1. AttemptSound(v) BY DEF ClaimsInv
    <3>2. CASE workers[v].phase \notin Sending BY <1>t, <2>1, <3>1, <3>2, AttemptKept
    <3>3. CASE workers[v].phase \in Sending
      <4>1. EffectAt(v) \in Effects /\ RowAt(v) \in Row BY <1>t, <3>3, RowAtType
      <4>2. RowAt(v).state # "none" BY <3>1, <3>3 DEF AttemptSound
      <4>3. rows'[EffectAt(v)] = rows[EffectAt(v)]
        BY <1>t, <2>1, <4>1, <4>2 DEF RowAt
      <4> QED BY <1>t, <2>1, <3>1, <4>1, <4>2, <4>3, AttemptKept DEF RowAt, Row
    <3> QED BY <3>2, <3>3
  <2>6. FenceNamesClaim' BY <2>1, FencesKept
  <2> QED BY <2>4, <2>5, <2>6
<1>2. ASSUME NEW w \in Workers, WorkerStep(w) PROVE Sound
  BY <1>2, WorkerSound
<1>3. ASSUME NEW d \in Dirs, OwnerExit(d) PROVE Sound
  <2>1. Idle.phase \notin Sending BY DEF Idle, Sending
  <2>2. \A w \in Workers : workers'[w] = workers[w] \/ workers'[w].phase \notin Sending
    BY <1>3, <2>1 DEF OwnerExit
  <2>3. rows' = rows /\ sent' = sent /\ now' = now BY <1>3 DEF OwnerExit, history
  <2> QED BY <2>2, <2>3, RowSoundKept, RowsUntouched, FencesKept
<1>4. CASE Tick
  <2>1. rows' = rows /\ sent' = sent /\ workers' = workers /\ now' = now + 1
    BY <1>4 DEF Tick, history
  <2>2. ASSUME NEW e \in Effects PROVE RowSound(e)'
    <3>1. rows[e].first \in Nat /\ rows[e].first <= now
      BY <1>t DEF ClaimsInv, RowSound, Shaped, Row
    <3>2. rows'[e].first <= now' BY <1>t, <2>1, <3>1
    <3> QED BY <2>1, <3>2 DEF ClaimsInv, RowSound, Shaped
  <2>3. \A v \in Workers : AttemptSound(v)' BY <2>1, RowsUntouched
  <2>4. FenceNamesClaim' BY <2>1, FencesKept
  <2> QED BY <2>2, <2>3, <2>4
<1>5. ASSUME rows' = rows, sent' = sent, now' = now, workers' = workers
      PROVE  Sound
  BY <1>5, RowSoundKept, RowsUntouched, FencesKept
<1>6. ASSUME NEW B, rows' = PauseAt(B), sent' = sent, now' = now, workers' = workers
      PROVE  Sound
  <2>1. \A e \in Effects :
          \/ rows'[e] = rows[e]
          \/ rows'[e] = [rows[e] EXCEPT !.state = "paused", !.lease = 0]
    BY <1>6 DEF PauseAt, Paused
  <2>2. \A e \in Effects : Commanded(e) BY <1>6, <2>1 DEF Commanded
  <2> QED BY <1>6, <2>2, OperatorSound
<1>7. ASSUME NEW e \in Effects, Cancel(e) \/ Resume(e) \/ Retry(e) PROVE Sound
  <2>1. /\ workers' = workers /\ now' = now
        /\ \A f \in Effects \ {e} : sent'[f] = sent[f]
    BY <1>7, <1>t DEF Cancel, Resume, Retry, OperatorUnchanged, history
  <2>2. \/ /\ rows' = [rows EXCEPT ![e] =
                          [rows[e] EXCEPT !.state = "cancelled", !.lease = 0]]
           /\ sent'[e] = sent[e]
        \/ /\ rows' = [rows EXCEPT ![e] = Rescheduled(rows[e], EndpointOf[e])]
           /\ sent'[e] = sent[e]
        \/ /\ rows' = [rows EXCEPT ![e] =
                          NewRound(Rescheduled(rows[e], EndpointOf[e]))]
           /\ sent'[e] = 0
    BY <1>7, <1>t DEF Cancel, Resume, Retry, OperatorUnchanged, history
  <2>3. \A f \in Effects \ {e} : rows'[f] = rows[f] BY <1>t, <2>2
  <2>4. \/ /\ rows'[e] = [rows[e] EXCEPT !.state = "cancelled", !.lease = 0]
           /\ sent'[e] = sent[e]
        \/ rows'[e] = Rescheduled(rows[e], EndpointOf[e]) /\ sent'[e] = sent[e]
        \/ rows'[e] = NewRound(Rescheduled(rows[e], EndpointOf[e])) /\ sent'[e] = 0
    BY <1>t, <2>2
  <2> HIDE DEF Sound
  <2>5. \A f \in Effects : Commanded(f)
    <3> TAKE f \in Effects
    <3>1. CASE f # e BY <2>1, <2>3, <3>1 DEF Commanded
    <3>2. CASE f = e BY <2>4, <3>2 DEF Commanded
    <3> QED BY <3>1, <3>2
  <2> QED BY <2>1, <2>5, OperatorSound DEF Sound
<1>8. CASE \/ \E b \in Endpoints : RevokeEndpoint(b) \/ GrantEndpoint(b)
           \/ \E s \in Slots : RevokeSecret(s) \/ GrantSecret(s)
           \/ GrantJobWorker \/ Fork \/ StartupStep
  <2>1. sent' = sent /\ now' = now /\ workers' = workers
    BY <1>8 DEF RevokeEndpoint, GrantEndpoint, RevokeSecret, GrantSecret,
       GrantJobWorker, Fork, StartupStep, ActivateSame, ActivateChanged,
       RestoreFork, RecoverClock, OperatorUnchanged, history
  <2>2. rows' = rows \/ \E B : rows' = PauseAt(B)
    BY <1>8 DEF RevokeEndpoint, GrantEndpoint, RevokeSecret, GrantSecret,
       GrantJobWorker, Fork, StartupStep, ActivateSame, ActivateChanged,
       RestoreFork, RecoverClock, PauseEffectsForEpoch
  <2> HIDE DEF Sound
  <2> QED BY <1>5, <1>6, <2>1, <2>2
<1>9. CASE (\E d \in Dirs : OwnerStart(d)) \/ UNCHANGED vars
  <2>1. rows' = rows /\ sent' = sent /\ now' = now /\ workers' = workers
    BY <1>9 DEF OwnerStart, vars, history
  <2> HIDE DEF Sound
  <2> QED BY <1>5, <2>1
<1> HIDE DEF Sound
<1> QED
  BY <1>1, <1>2, <1>3, <1>4, <1>5, <1>7, <1>8, <1>9 DEF Next, OperatorStep

\* ClaimsInv holds at first.
LEMMA InitClaims == ASSUME Init PROVE ClaimsInv
<1>1. \A w \in Workers : workers[w].phase \notin Sending
  BY DEF Init, Idle, Sending
<1>2. \A e \in Effects : RowSound(e)
  <2>1. Shaped(NoRow) /\ NoRow.attempts = 0 BY DEF Init, Shaped, NoRow
  <2> QED BY <2>1 DEF Init, RowSound
<1> QED BY <1>1, <1>2, InitTyped DEF ClaimsInv, AttemptSound, FenceNamesClaim

\* What an attempt relies on between its transactions: the row under its fence
\* fits the claim it was given, so the checks of OutboxContext::row never fail
\* there, and no other attempt has its fence.
THEOREM ClaimsFitTheirRows == Spec => []ClaimsSound
<1>1. Init => ClaimsInv BY InitClaims
<1>2. ClaimsInv /\ [Next]_vars => ClaimsInv' BY StepClaims
<1>3. ASSUME ClaimsInv PROVE ClaimsSound
  <2>1. ASSUME NEW w \in Workers,
               workers[w].phase \in {"claimed", "admitted", "posted"}, Fenced(w)
        PROVE  LET r == RowAt(w) IN
               /\ r.eligible >= r.first
               /\ r.state # "none"
               /\ r.state = "running" => r.attempts > 0 /\ r.lease = workers[w].lease
               /\ r.state = "pending" => r.attempts < MaxAttempts
               /\ r.state # "running" => r.lease = 0
    <3>1. workers[w].phase \in Sending /\ workers[w].phase # "releasing"
      BY <2>1 DEF Sending
    <3>2. EffectAt(w) \in Effects /\ (RowAt(w).state = "running" => RowAt(w).attempts > 0)
      BY <1>3, <3>1, RowAtType DEF ClaimsInv
    <3>3. Shaped(RowAt(w)) BY <1>3, <3>2 DEF ClaimsInv, RowSound, RowAt
    <3>4. /\ RowAt(w).state \in {"running", "paused", "cancelled"}
          /\ RowAt(w).state = "running" => RowAt(w).lease = workers[w].lease
      BY <1>3, <2>1, <3>1 DEF ClaimsInv, AttemptSound, Fenced
    <3> QED BY <3>2, <3>3, <3>4 DEF Shaped
  <2> QED BY <1>3, <2>1 DEF ClaimsInv, TypeInv, ClaimsSound, RowShape
<1> QED BY <1>1, <1>2, <1>3, PTL DEF Spec

\* "Up to five automatic attempts": however often a claim is lost, refunded,
\* reclaimed after its lease, held or resumed, the sends admitted in a round never
\* exceed the attempts charged to it, and those never exceed MaxAttempts.
THEOREM SendsStayWithinAllowance == Spec => []SendsWithinAllowance
<1>1. Init => ClaimsInv BY InitClaims
<1>2. ClaimsInv /\ [Next]_vars => ClaimsInv' BY StepClaims
<1>3. ClaimsInv => SendsWithinAllowance
  BY DEF ClaimsInv, RowSound, SendsWithinAllowance
<1> QED BY <1>1, <1>2, <1>3, PTL DEF Spec

-----------------------------------------------------------------------------
(* The outbox implements EffectLifecycle: what its claims, leases, fences, *)
(* grants and epochs do to a capture is one of the moves of the promise,   *)
(* or nothing that the promise sees.                                       *)

status == [e \in Effects |-> Status(rows[e])]
acked == [e \in Effects |-> acks[e] # {}]

Moves == [Lifecycle!Next]_<<status, acked>>

\* The status of a row, state by state.
LEMMA StatusOf ==
    ASSUME NEW r, r.state \in RowStates
    PROVE  /\ r.state \in Live => Status(r) = "queued"
           /\ r.state = "paused" => Status(r) = "held"
           /\ r.state \notin Live \cup {"paused"} => Status(r) = r.state
BY DEF Status, Live, RowStates

\* Rows with the statuses they had, and no new acknowledgement, are no move.
LEMMA NoMove ==
    ASSUME \A e \in Effects : Status(rows'[e]) = Status(rows[e]), acks' = acks
    PROVE  Moves
<1>1. status' = status BY DEF status
<1>2. acked' = acked BY DEF acked
<1> QED BY <1>1, <1>2 DEF Moves

\* The statuses after one row is replaced.
LEMMA StatusReplaced ==
    ASSUME TypeInv, NEW e \in Effects, NEW r, rows' = [rows EXCEPT ![e] = r]
    PROVE  status' = [status EXCEPT ![e] = Status(r)]
<1>1. \A f \in Effects : rows'[f] = IF f = e THEN r ELSE rows[f]
  BY DEF TypeInv, TypeOK
<1>2. \A f \in Effects :
        Status(rows'[f]) = IF f = e THEN Status(r) ELSE Status(rows[f])
  BY <1>1
<1> QED BY <1>2 DEF status

\* A capture whose row is replaced moves as the promise allows.
LEMMA OneMove ==
    ASSUME TypeInv, NEW e \in Effects, NEW r, rows' = [rows EXCEPT ![e] = r],
           acks' = acks,
           LET old == Status(rows[e])  new == Status(r) IN
           \/ new = old
           \/ old = "none" /\ new = "queued"
           \/ old = "queued" /\ new \in {"held", "dead"}
           \/ old \in {"queued", "held", "dead"} /\ new = "cancelled"
           \/ old \in {"held", "dead"} /\ new = "queued"
           \/ acks[e] # {} /\ old # "none" /\ new = "delivered"
    PROVE  Moves
<1>1. status' = [status EXCEPT ![e] = Status(r)] BY StatusReplaced
<1>2. status[e] = Status(rows[e]) /\ acked' = acked BY DEF status, acked
<1>3. CASE Status(r) = Status(rows[e])
  <2>1. status' = status BY <1>1, <1>2, <1>3 DEF status
  <2> QED BY <1>2, <2>1 DEF Moves
<1>4. CASE Status(rows[e]) = "none" /\ Status(r) = "queued"
  <2>1. Lifecycle!Capture(e) BY <1>1, <1>2, <1>4 DEF Lifecycle!Capture, status, acked
  <2> QED BY <2>1 DEF Moves, Lifecycle!Next
<1>5. CASE Status(rows[e]) = "queued" /\ Status(r) = "held"
  <2>1. Lifecycle!Hold({e}) BY <1>1, <1>2, <1>5 DEF Lifecycle!Hold, status, acked
  <2> QED BY <2>1 DEF Moves, Lifecycle!Next
<1>6. CASE Status(rows[e]) = "queued" /\ Status(r) = "dead"
  <2>1. Lifecycle!Die(e) BY <1>1, <1>2, <1>6 DEF Lifecycle!Die, status, acked
  <2> QED BY <2>1 DEF Moves, Lifecycle!Next
<1>7. CASE Status(rows[e]) \in {"queued", "held", "dead"} /\ Status(r) = "cancelled"
  <2>1. Lifecycle!Cancel(e) BY <1>1, <1>2, <1>7 DEF Lifecycle!Cancel, status, acked
  <2> QED BY <2>1 DEF Moves, Lifecycle!Next
<1>8. CASE Status(rows[e]) \in {"held", "dead"} /\ Status(r) = "queued"
  <2>1. Lifecycle!Requeue(e) BY <1>1, <1>2, <1>8 DEF Lifecycle!Requeue, status, acked
  <2> QED BY <2>1 DEF Moves, Lifecycle!Next
<1>9. CASE acks[e] # {} /\ Status(rows[e]) # "none" /\ Status(r) = "delivered"
  <2>1. Lifecycle!Deliver(e) BY <1>1, <1>2, <1>9 DEF Lifecycle!Deliver, status, acked
  <2> QED BY <2>1 DEF Moves, Lifecycle!Next
<1> QED BY <1>3, <1>4, <1>5, <1>6, <1>7, <1>8, <1>9

\* Pausing the rows of any endpoints holds the captures that were queued there.
LEMMA PauseMoves ==
    ASSUME TypeInv, NEW B, rows' = PauseAt(B), acks' = acks
    PROVE  Moves
<1> DEFINE E == {e \in Effects : rows[e].state \in Live /\ EndpointOf[e] \in B}
<1>1. ASSUME NEW e \in Effects
      PROVE  /\ e \in E => Status(rows[e]) = "queued"
             /\ Status(rows'[e]) = IF e \in E THEN "held" ELSE Status(rows[e])
  <2>1. rows[e] \in Row /\ rows[e].state \in RowStates
    BY DEF TypeInv, TypeOK, Row
  <2>2. Paused(rows[e]).state = "paused" BY <2>1, PausedType
  <2>3. rows'[e] = IF e \in E THEN Paused(rows[e]) ELSE rows[e] BY DEF PauseAt
  <2>4. Status(Paused(rows[e])) = "held" BY <2>2, StatusOf DEF RowStates
  <2> QED BY <2>1, <2>3, <2>4, StatusOf
<1>2. E \in SUBSET Effects OBVIOUS
<1> HIDE DEF E
<1>3. Lifecycle!Hold(E)
  <2>1. \A e \in E : status[e] = "queued" BY <1>1, <1>2 DEF status
  <2>2. status' = [e \in Effects |-> IF e \in E THEN "held" ELSE status[e]]
    BY <1>1 DEF status
  <2>3. acked' = acked BY DEF acked
  <2> QED BY <2>1, <2>2, <2>3 DEF Lifecycle!Hold, status, acked
<1> QED BY <1>2, <1>3 DEF Moves, Lifecycle!Next

\* A 2xx for a capture that exists is its acknowledgement.
LEMMA PostMoves ==
    ASSUME TypeInv, NEW e \in Effects, rows[e].state # "none", rows' = rows,
           NEW fence, acks' = [acks EXCEPT ![e] = @ \cup {fence}]
    PROVE  Moves
<1>1. \A f \in Effects : (acks'[f] # {}) <=> (IF f = e THEN TRUE ELSE acks[f] # {})
  BY DEF TypeInv, TypeOK
<1>2. acked' = [acked EXCEPT ![e] = TRUE]
  BY <1>1, Zenon DEF acked
<1>3. status' = status BY DEF status
<1>4. status[e] # "none"
  <2>1. rows[e].state \in RowStates BY DEF TypeInv, TypeOK, Row
  <2> QED BY <2>1, StatusOf DEF status, Live
<1>5. Lifecycle!Acknowledge(e)
  BY <1>2, <1>3, <1>4 DEF Lifecycle!Acknowledge, status, acked
<1> QED BY <1>5 DEF Moves, Lifecycle!Next

-----------------------------------------------------------------------------
(* Every step is a move, or none.                                          *)

LifecycleInv == ClaimsInv /\ DeliveredInv

\* The worker steps: a claim, a refund or a retry leaves a capture queued; an
\* attempt may hold it or let it die only while the row is running, and may
\* deliver it only after its POST was acknowledged.
LEMMA WorkerMoves ==
    ASSUME LifecycleInv, NEW w \in Workers, WorkerStep(w)
    PROVE  Moves
<1>t. /\ TypeInv /\ ClaimsInv /\ rows \in [Effects -> Row]
      /\ \A e \in Effects : rows[e].state \in RowStates
  BY DEF LifecycleInv, ClaimsInv, TypeInv, TypeOK, Row
<1>s. ASSUME workers[w].phase \in Sending
      PROVE  /\ EffectAt(w) \in Effects /\ RowAt(w) \in Row
             /\ RowAt(w) = rows[EffectAt(w)] /\ RowAt(w).state # "none"
             /\ RowAt(w).state \in RowStates
  BY <1>s, <1>t, RowAtType DEF ClaimsInv, AttemptSound, RowAt, Row
<1>q. \A r : r.state \in {"pending", "running"} => Status(r) = "queued"
  BY StatusOf DEF RowStates, Live
<1>h. \A r : r.state \in {"paused", "dead", "delivered", "none"} =>
        Status(r) = IF r.state = "paused" THEN "held" ELSE r.state
  BY StatusOf DEF RowStates, Live
<1>n. rows' = rows /\ acks' = acks => Moves BY NoMove
<1>r. ASSUME rows[EffectAt(w)].state = "running", workers[w].phase \in Sending
      PROVE  Status(rows[EffectAt(w)]) = "queued" /\ EffectAt(w) \in Effects
  BY <1>q, <1>r, <1>s
<1>v. \A r : r.state \in {"pending", "paused", "dead"} =>
        Status(r) \in {"queued", "held", "dead"}
  BY <1>q, <1>h
<1>1. ASSUME NEW e \in Effects, Claim(w, e) \/ ClaimLost(w, e) PROVE Moves
  <2>1. acks' = acks /\ (rows' = rows \/ rows' = [rows EXCEPT ![e] = Claimed(rows[e])])
    BY <1>1 DEF Claim, ClaimLost, ClaimCommits, history
  <2>2. Claimed(rows[e]).state = "running" /\ rows[e].state \in Live
    BY <1>1, <1>t, ClaimedType
    DEF Claim, ClaimLost, NextClaimable, Claimable, Live, TypeInv, TypeOK
  <2>3. Status(Claimed(rows[e])) = Status(rows[e]) BY <1>q, <2>2 DEF Live
  <2> QED BY <1>n, <1>t, <2>1, <2>3, OneMove
<1>2. ASSUME workers[w].phase = "claimed", rows' = PreflightRows(w), acks' = acks
      PROVE  Moves
  <2>1. workers[w].phase \in Sending BY <1>2 DEF Sending
  <2>2. CASE Holds(w) /\ PreflightState(w) # "running"
    <3> DEFINE r == Settled(RowAt(w), PreflightState(w), Later(RowAt(w)))
    <3>1. rows' = [rows EXCEPT ![EffectAt(w)] = r]
      BY <1>2, <2>2 DEF PreflightRows, RowAt
    <3>2. r.state = PreflightState(w) BY <1>s, <2>1 DEF Settled, Row
    <3>3. PreflightState(w) \in {"pending", "paused", "dead"}
      BY <2>2 DEF PreflightState
    <3>4. rows[EffectAt(w)].state = "running" BY <2>2 DEF Holds, RowAt
    <3>5. Status(r) \in {"queued", "held", "dead"} BY <1>v, <3>2, <3>3
    <3> HIDE DEF r
    <3> QED BY <1>2, <1>r, <1>t, <2>1, <3>1, <3>4, <3>5, OneMove
  <2> QED BY <1>2, <1>n, <2>2 DEF PreflightRows
<1>3. CASE PreflightSend(w) \/ PreflightSettle(w) \/ PreflightFail(w)
  BY <1>2, <1>3, <1>n DEF PreflightSend, PreflightSettle, PreflightFail, history
<1>4. CASE Release(w)
  <2>1. workers[w].phase \in Sending /\ acks' = acks
    BY <1>4 DEF Release, Sending, history
  <2>2. CASE Holds(w) /\ rows' = [rows EXCEPT ![EffectAt(w)] =
                                     Released(@, workers[w].exhausted)]
    <3> DEFINE r == Released(RowAt(w), workers[w].exhausted)
    <3>1. rows' = [rows EXCEPT ![EffectAt(w)] = r] BY <2>2 DEF RowAt
    <3>2. r.state = "pending" BY <1>s, <2>1 DEF Released, Row
    <3>3. rows[EffectAt(w)].state = "running" BY <2>2 DEF Holds, RowAt
    <3>4. Status(r) \in {"queued", "held", "dead"} BY <1>v, <3>2
    <3> HIDE DEF r
    <3> QED BY <1>r, <1>t, <2>1, <3>1, <3>3, <3>4, OneMove
  <2> QED BY <1>4, <1>n, <2>1, <2>2 DEF Release
<1>5. CASE Abandon(w) \/ SecretUnavailable(w) \/ Finish(w) \/ Retain(w)
  BY <1>5, <1>n DEF Abandon, SecretUnavailable, Finish, Retain, history
<1>6. ASSUME NEW result \in Results, Post(w, result) PROVE Moves
  <2>1. workers[w].phase \in Sending /\ rows' = rows BY <1>6 DEF Post, Sending
  <2>2. \/ acks' = acks
        \/ acks' = [acks EXCEPT ![EffectAt(w)] = @ \cup {workers[w].fence}]
    BY <1>6 DEF Post
  <2> QED BY <1>n, <1>s, <1>t, <2>1, <2>2, PostMoves
<1>7. ASSUME NEW after \in RetryAfter \cup {0}, workers[w].phase = "posted",
             rows' = [rows EXCEPT ![EffectAt(w)] = FinalRow(w, after)], acks' = acks
      PROVE  Moves
  <2> DEFINE r == FinalRow(w, after)
  <2>0. workers[w].phase \in Sending BY <1>7 DEF Sending
  <2>1. \/ r = RowAt(w)
        \/ /\ workers[w].result = "delivered"
           /\ r = Settled(RowAt(w), "delivered", Later(RowAt(w)))
        \/ /\ RowAt(w).state = "running"
           /\ \E state \in {"paused", "dead", "pending"} : \E eligible :
                r = Settled(RowAt(w), state, eligible)
    BY DEF FinalRow, DeliveredRow, RejectedRow
  <2>2. rows' = [rows EXCEPT ![EffectAt(w)] = r] BY <1>7
  <2>3. \A state, eligible : Settled(RowAt(w), state, eligible).state = state
    BY <1>s, <2>0 DEF Settled, Row
  <2> HIDE DEF r
  <2>4. CASE r = RowAt(w) BY <1>7, <1>n, <1>s, <1>t, <2>0, <2>2, <2>4
  <2>5. CASE /\ workers[w].result = "delivered"
             /\ r = Settled(RowAt(w), "delivered", Later(RowAt(w)))
    <3>1. Status(r) = "delivered" BY <1>h, <2>3, <2>5
    <3>2. Status(rows[EffectAt(w)]) # "none"
      BY <1>s, <2>0, StatusOf DEF Live
    <3>3. acks[EffectAt(w)] # {}
      BY <1>7, <2>5 DEF LifecycleInv, DeliveredInv, PostAcknowledged, EffectAt
    <3> QED BY <1>7, <1>s, <1>t, <2>0, <2>2, <3>1, <3>2, <3>3, OneMove
  <2>6. CASE /\ RowAt(w).state = "running"
             /\ \E state \in {"paused", "dead", "pending"} : \E eligible :
                  r = Settled(RowAt(w), state, eligible)
    <3>1. Status(r) \in {"queued", "held", "dead"} BY <1>v, <2>3, <2>6
    <3>2. rows[EffectAt(w)].state = "running" BY <1>s, <2>0, <2>6
    <3> QED BY <1>7, <1>r, <1>t, <2>0, <2>2, <3>1, <3>2, OneMove
  <2> QED BY <2>1, <2>4, <2>5, <2>6
<1>8. ASSUME NEW after \in RetryAfter \cup {0},
             Finalize(w, after) \/ FinalizeFail(w, after)
      PROVE  Moves
  <2>1. workers[w].phase = "posted" /\ acks' = acks
    BY <1>8 DEF Finalize, FinalizeFail, history
  <2>2. rows' = rows \/ rows' = [rows EXCEPT ![EffectAt(w)] = FinalRow(w, after)]
    BY <1>8 DEF Finalize, FinalizeFail
  <2> QED BY <1>7, <1>n, <2>1, <2>2
<1> QED BY <1>1, <1>3, <1>4, <1>5, <1>6, <1>8 DEF WorkerStep

\* Every step is a move of the promise, or none.
LEMMA StepMoves == ASSUME LifecycleInv, [Next]_vars PROVE Moves
<1>t. /\ TypeInv /\ rows \in [Effects -> Row]
      /\ \A e \in Effects : rows[e] \in Row /\ rows[e].state \in RowStates
  BY DEF LifecycleInv, ClaimsInv, TypeInv, TypeOK, Row
<1>n. rows' = rows /\ acks' = acks => Moves BY NoMove
<1>1. ASSUME NEW e \in Effects, Enqueue(e) PROVE Moves
  <2> DEFINE r == [NoRow EXCEPT !.state = "pending", !.eligible = now,
                      !.first = now, !.gen = deployment, !.epoch = runtime.epoch,
                      !.grantVersion = grants[EndpointOf[e]].version,
                      !.secretVersion = SecretVersion(EndpointOf[e])]
  <2>1. rows' = [rows EXCEPT ![e] = r] /\ acks' = acks /\ rows[e].state = "none"
    BY <1>1 DEF Enqueue, history
  <2>2. r.state = "pending" BY DEF NoRow
  <2> HIDE DEF r
  <2>3. Status(r) = "queued" /\ Status(rows[e]) = "none"
    BY <1>t, <2>1, <2>2, StatusOf DEF RowStates, Live
  <2> QED BY <1>t, <2>1, <2>3, OneMove
<1>2. ASSUME NEW e \in Effects, Cancel(e) PROVE Moves
  <2> DEFINE r == [rows[e] EXCEPT !.state = "cancelled", !.lease = 0]
  <2>1. /\ rows' = [rows EXCEPT ![e] = r] /\ acks' = acks
        /\ rows[e].state \in Occupying \cup {"dead"}
    BY <1>2 DEF Cancel, OperatorUnchanged, history
  <2>2. r.state = "cancelled" BY <1>t DEF Row
  <2> HIDE DEF r
  <2>3. Status(r) = "cancelled" BY <2>2, StatusOf DEF RowStates, Live
  <2>4. Status(rows[e]) \in {"queued", "held", "dead"}
    BY <1>t, <2>1, StatusOf DEF Occupying, Live
  <2> QED BY <1>t, <2>1, <2>3, <2>4, OneMove
<1>3. ASSUME NEW e \in Effects, Resume(e) \/ Retry(e) PROVE Moves
  <2> DEFINE q == Rescheduled(rows[e], EndpointOf[e])
  <2>1. /\ rows' = [rows EXCEPT ![e] = q] \/ rows' = [rows EXCEPT ![e] = NewRound(q)]
        /\ acks' = acks /\ rows[e].state \in {"dead", "paused"}
    BY <1>3 DEF Resume, Retry, OperatorUnchanged, history
  <2>2. q.state = "pending" /\ NewRound(q).state = "pending"
    BY <1>t DEF Rescheduled, NewRound, Row
  <2> HIDE DEF q
  <2>3. Status(q) = "queued" /\ Status(NewRound(q)) = "queued"
    BY <2>2, StatusOf DEF RowStates, Live
  <2>4. Status(rows[e]) \in {"held", "dead"}
    BY <1>t, <2>1, StatusOf DEF Live
  <2> QED BY <1>t, <2>1, <2>3, <2>4, OneMove
<1>4. CASE \/ \E b \in Endpoints : RevokeEndpoint(b) \/ GrantEndpoint(b)
           \/ \E s \in Slots : RevokeSecret(s) \/ GrantSecret(s)
           \/ GrantJobWorker \/ Fork \/ StartupStep
  <2>1. acks' = acks
    BY <1>4 DEF RevokeEndpoint, GrantEndpoint, RevokeSecret, GrantSecret,
       GrantJobWorker, Fork, StartupStep, ActivateSame, ActivateChanged,
       RestoreFork, RecoverClock, OperatorUnchanged, history
  <2>2. rows' = rows \/ \E B : rows' = PauseAt(B)
    BY <1>4 DEF RevokeEndpoint, GrantEndpoint, RevokeSecret, GrantSecret,
       GrantJobWorker, Fork, StartupStep, ActivateSame, ActivateChanged,
       RestoreFork, RecoverClock, PauseEffectsForEpoch
  <2> QED BY <1>n, <1>t, <2>1, <2>2, PauseMoves
<1>5. CASE \/ Tick \/ UNCHANGED vars
           \/ \E d \in Dirs : OwnerStart(d) \/ OwnerExit(d)
  BY <1>5, <1>n DEF Tick, OwnerStart, OwnerExit, vars, history
<1> QED BY <1>1, <1>2, <1>3, <1>4, <1>5, WorkerMoves DEF Next, OperatorStep

\* The outbox implements the lifecycle it promises: whatever is claimed, lost,
\* refunded, paused or restarted, a held or dead capture comes back only by an
\* explicit requeue, a delivered one is final and was acknowledged, and a cancelled
\* one changes only for an acknowledgement.
THEOREM OutboxImplementsLifecycle == Spec => LifecycleSpec
<1>1. Init => Lifecycle!Init
  <2> SUFFICES ASSUME Init PROVE Lifecycle!Init OBVIOUS
  <2>1. Status(NoRow) = "none"
    <3>1. NoRow.state = "none" BY DEF NoRow
    <3> QED BY <3>1, StatusOf DEF RowStates, Live
  <2>2. \A e \in Effects : rows[e] = NoRow /\ acks[e] = {} BY DEF Init
  <2>3. [e \in Effects |-> Status(rows[e])] = [e \in Effects |-> "none"]
    BY <2>1, <2>2
  <2>4. [e \in Effects |-> acks[e] # {}] = [e \in Effects |-> FALSE]
    BY <2>2, Zenon
  <2> QED BY <2>3, <2>4 DEF Lifecycle!Init
<1>2. LifecycleInv /\ [Next]_vars => [Lifecycle!Next]_<<status, acked>>
  BY StepMoves DEF Moves
<1>3. Init => LifecycleInv
  <2> SUFFICES ASSUME Init PROVE LifecycleInv OBVIOUS
  <2>1. \A e \in Effects : rows[e].state # "delivered" BY DEF Init, NoRow
  <2>2. \A w \in Workers : workers[w].phase # "posted" BY DEF Init, Idle
  <2> QED BY <2>1, <2>2, InitClaims, InitTyped
      DEF LifecycleInv, DeliveredInv, DeliveredAcknowledged, PostAcknowledged
<1>4. LifecycleInv /\ [Next]_vars => LifecycleInv'
  BY StepClaims, StepDelivered DEF LifecycleInv
<1> QED BY <1>1, <1>2, <1>3, <1>4, PTL DEF Spec, LifecycleSpec, Lifecycle!Spec, status, acked

-----------------------------------------------------------------------------
(* The limits.  Only a capture and the retry of a dead capture occupy a    *)
(* place that was free, one each and after counting; a worker, a pause, a  *)
(* resume or a restart only passes on places that are taken already.       *)

Occupants == {e \in Effects : rows[e].state \in Occupying}
OccupantsOf(t) ==
    {e \in Effects : rows[e].state \in Occupying /\ TenantOf[EndpointOf[e]] = t}

\* Counting needs the occupied places to be finitely many, even where the
\* captures that may ever be made are not.
QuotaInv == TypeInv /\ IsFiniteSet(Occupants) /\ QuotaRespected

\* A set that grew by at most one element.
LEMMA AtMostOneMore ==
    ASSUME NEW S, NEW T, NEW x, IsFiniteSet(S), T \subseteq S \cup {x}
    PROVE  /\ IsFiniteSet(T)
           /\ Cardinality(S) \in Nat /\ Cardinality(T) \in Nat
           /\ Cardinality(T) <= Cardinality(S) + 1
<1>1. IsFiniteSet(S \cup {x}) /\ Cardinality(S \cup {x}) <= Cardinality(S) + 1
      /\ Cardinality(S) \in Nat
  BY FS_AddElement, FS_CardinalityType
<1>2. IsFiniteSet(T) /\ Cardinality(T) <= Cardinality(S \cup {x})
  BY <1>1, FS_Subset
<1>3. Cardinality(T) \in Nat /\ Cardinality(S \cup {x}) \in Nat
  BY <1>1, <1>2, FS_CardinalityType
<1> QED BY <1>1, <1>2, <1>3

\* The places of one tenant are some of all the places.
LEMMA TenantPlaces ==
    ASSUME IsFiniteSet(Occupants), NEW t PROVE IsFiniteSet(OccupantsOf(t))
<1>1. OccupantsOf(t) \subseteq Occupants BY DEF OccupantsOf, Occupants
<1> QED BY <1>1, FS_Subset

\* No place more is occupied.
LEMMA PlacesKept ==
    ASSUME QuotaInv,
           \A e \in Effects : rows'[e].state \in Occupying => rows[e].state \in Occupying
    PROVE  IsFiniteSet(Occupants)' /\ QuotaRespected'
<1>1. Occupants' \subseteq Occupants /\ IsFiniteSet(Occupants)
  BY DEF Occupants, QuotaInv
<1>2. IsFiniteSet(Occupants') /\ Cardinality(Occupants') <= Cardinality(Occupants)
      /\ Cardinality(Occupants') \in Nat /\ Cardinality(Occupants) \in Nat
  BY <1>1, FS_Subset, FS_CardinalityType
<1>3. Cardinality(Occupants) <= AppLimit
  BY DEF QuotaInv, QuotaRespected, CountAll, Occupants
<1>4. CountAll' <= AppLimit BY <1>2, <1>3, LimitAssumption DEF CountAll, Occupants
<1>5. ASSUME NEW t \in Tenants PROVE Count(t)' <= TenantLimit
  <2>1. OccupantsOf(t)' \subseteq OccupantsOf(t) /\ IsFiniteSet(OccupantsOf(t))
    BY <1>1, TenantPlaces DEF OccupantsOf
  <2>2. /\ IsFiniteSet(OccupantsOf(t)')
        /\ Cardinality(OccupantsOf(t)') <= Cardinality(OccupantsOf(t))
        /\ Cardinality(OccupantsOf(t)') \in Nat /\ Cardinality(OccupantsOf(t)) \in Nat
    BY <2>1, FS_Subset, FS_CardinalityType
  <2>3. Cardinality(OccupantsOf(t)) <= TenantLimit
    BY DEF QuotaInv, QuotaRespected, Count, OccupantsOf
  <2> QED BY <2>2, <2>3, LimitAssumption DEF Count, OccupantsOf
<1> QED BY <1>2, <1>4, <1>5 DEF QuotaRespected

\* One place more is occupied, by a capture whose app and tenant had it free.
LEMMA PlaceTaken ==
    ASSUME QuotaInv, NEW e \in Effects, QuotaFree(TenantOf[EndpointOf[e]]),
           \A f \in Effects \ {e} :
              rows'[f].state \in Occupying => rows[f].state \in Occupying
    PROVE  IsFiniteSet(Occupants)' /\ QuotaRespected'
<1> DEFINE b == TenantOf[EndpointOf[e]]
<1>1. Occupants' \subseteq Occupants \cup {e} /\ IsFiniteSet(Occupants)
  BY DEF Occupants, QuotaInv
<1>2. IsFiniteSet(Occupants') /\ Cardinality(Occupants') <= Cardinality(Occupants) + 1
      /\ Cardinality(Occupants') \in Nat /\ Cardinality(Occupants) \in Nat
  BY <1>1, AtMostOneMore
<1>3. Cardinality(Occupants) < AppLimit /\ Cardinality(OccupantsOf(b)) < TenantLimit
  BY DEF QuotaFree, CountAll, Count, Occupants, OccupantsOf
<1>4. CountAll' <= AppLimit BY <1>2, <1>3, LimitAssumption DEF CountAll, Occupants
<1>5. ASSUME NEW t \in Tenants PROVE Count(t)' <= TenantLimit
  <2>1. OccupantsOf(t)' \subseteq OccupantsOf(t) \cup {e} BY DEF OccupantsOf
  <2>2. t # b => OccupantsOf(t)' \subseteq OccupantsOf(t) BY DEF OccupantsOf
  <2>3. IsFiniteSet(OccupantsOf(t)) BY <1>1, TenantPlaces
  <2>4. /\ Cardinality(OccupantsOf(t)') <= Cardinality(OccupantsOf(t)) + 1
        /\ Cardinality(OccupantsOf(t)') \in Nat /\ Cardinality(OccupantsOf(t)) \in Nat
    BY <2>1, <2>3, AtMostOneMore
  <2>5. t # b => Cardinality(OccupantsOf(t)') <= Cardinality(OccupantsOf(t))
    BY <2>2, <2>3, FS_Subset
  <2>6. Cardinality(OccupantsOf(t)) <= TenantLimit
    BY DEF QuotaInv, QuotaRespected, Count, OccupantsOf
  <2>7. Cardinality(OccupantsOf(t)') <= TenantLimit
    BY <1>3, <2>4, <2>5, <2>6, LimitAssumption
  <2> QED BY <2>7 DEF Count, OccupantsOf
<1> QED BY <1>2, <1>4, <1>5 DEF QuotaRespected

\* A worker step replaces only the row it claimed or holds, which occupied its
\* place already, or delivers it.
LEMMA WorkerPlaces ==
    ASSUME TypeInv, NEW w \in Workers, WorkerStep(w), NEW f \in Effects,
           rows'[f].state \in Occupying
    PROVE  rows[f].state \in Occupying
<1>t. rows \in [Effects -> Row] BY DEF TypeInv, TypeOK
<1>1. CASE \E e \in Effects : Claim(w, e) \/ ClaimLost(w, e)
  <2>1. PICK e \in Effects : Claim(w, e) \/ ClaimLost(w, e) BY <1>1
  <2>2. /\ rows' = rows \/ rows' = [rows EXCEPT ![e] = Claimed(rows[e])]
        /\ rows[e].state \in Occupying
    BY <2>1 DEF Claim, ClaimLost, ClaimCommits, NextClaimable, Claimable, Occupying
  <2> QED BY <1>t, <2>2
<1>2. CASE PreflightSend(w) \/ PreflightSettle(w) \/ PreflightFail(w)
  <2>1. \/ rows' = rows
        \/ /\ RowAt(w).state = "running"
           /\ \E r : rows' = [rows EXCEPT ![EffectAt(w)] = r]
    BY <1>2 DEF PreflightSend, PreflightSettle, PreflightFail, PreflightRows, Holds
  <2> QED BY <1>t, <2>1 DEF RowAt, Occupying
<1>3. CASE Release(w)
  <2>1. \/ rows' = rows
        \/ /\ RowAt(w).state = "running"
           /\ \E r : rows' = [rows EXCEPT ![EffectAt(w)] = r]
    BY <1>3 DEF Release, Holds
  <2> QED BY <1>t, <2>1 DEF RowAt, Occupying
<1>4. CASE Abandon(w) \/ SecretUnavailable(w) \/ Finish(w) \/ Retain(w)
           \/ \E result \in Results : Post(w, result)
  BY <1>4 DEF Abandon, SecretUnavailable, Finish, Retain, Post
<1>5. CASE \E after \in RetryAfter \cup {0} : Finalize(w, after) \/ FinalizeFail(w, after)
  <2>1. PICK after \in RetryAfter \cup {0} : Finalize(w, after) \/ FinalizeFail(w, after)
    BY <1>5
  <2>2. rows' = rows \/ rows' = [rows EXCEPT ![EffectAt(w)] = FinalRow(w, after)]
    BY <2>1 DEF Finalize, FinalizeFail
  <2>3. CASE f = EffectAt(w) /\ rows'[f] = FinalRow(w, after)
    <3>1. RowAt(w) \in Row BY <1>t, <2>3 DEF RowAt
    <3>2. \/ FinalRow(w, after) = RowAt(w) \/ FinalRow(w, after).state = "delivered"
          \/ RowAt(w).state = "running"
      BY <3>1 DEF FinalRow, DeliveredRow, Settled, Row
    <3> QED BY <2>3, <3>2 DEF RowAt, Occupying
  <2> QED BY <1>t, <2>2, <2>3
<1> QED BY <1>1, <1>2, <1>3, <1>4, <1>5 DEF WorkerStep

\* Every step stays within the limits.
LEMMA StepQuota == ASSUME QuotaInv, [Next]_vars PROVE QuotaInv'
<1>t. TypeInv /\ TypeInv' /\ rows \in [Effects -> Row]
  BY StepTyped DEF QuotaInv, TypeInv, TypeOK
<1> SUFFICES IsFiniteSet(Occupants)' /\ QuotaRespected' BY <1>t DEF QuotaInv
<1>n. rows' = rows => IsFiniteSet(Occupants)' /\ QuotaRespected' BY PlacesKept
<1>1. ASSUME NEW e \in Effects, Enqueue(e) PROVE IsFiniteSet(Occupants)' /\ QuotaRespected'
  <2>1. QuotaFree(TenantOf[EndpointOf[e]]) BY <1>1 DEF Enqueue
  <2>2. \A f \in Effects \ {e} : rows'[f] = rows[f] BY <1>1, <1>t DEF Enqueue
  <2> QED BY <2>1, <2>2, PlaceTaken
<1>2. ASSUME NEW e \in Effects, Retry(e) PROVE IsFiniteSet(Occupants)' /\ QuotaRespected'
  <2>1. \A f \in Effects \ {e} : rows'[f] = rows[f] BY <1>2, <1>t DEF Retry
  <2>2. CASE QuotaFree(TenantOf[EndpointOf[e]]) BY <2>1, <2>2, PlaceTaken
  <2>3. CASE rows[e].state \in Occupying BY <2>1, <2>3, PlacesKept
  <2> QED BY <1>2, <2>2, <2>3 DEF Retry, Occupying
<1>3. CASE \E w \in Workers : WorkerStep(w)
  BY <1>3, <1>t, WorkerPlaces, PlacesKept
<1>4. ASSUME NEW e \in Effects, Cancel(e) \/ Resume(e)
      PROVE  IsFiniteSet(Occupants)' /\ QuotaRespected'
  <2>1. /\ \A f \in Effects \ {e} : rows'[f] = rows[f]
        /\ rows'[e].state = "cancelled" \/ rows[e].state = "paused"
    BY <1>4, <1>t DEF Cancel, Resume, Row
  <2> QED BY <2>1, PlacesKept DEF Occupying
<1>5. ASSUME NEW B, rows' = PauseAt(B) PROVE IsFiniteSet(Occupants)' /\ QuotaRespected'
  <2>1. ASSUME NEW f \in Effects, rows'[f].state \in Occupying
        PROVE  rows[f].state \in Occupying
    <3>1. rows'[f] = rows[f] \/ rows[f].state \in Live BY <1>5 DEF PauseAt
    <3> QED BY <2>1, <3>1 DEF Live, Occupying
  <2> QED BY <2>1, PlacesKept
<1>6. CASE \/ \E b \in Endpoints : RevokeEndpoint(b) \/ GrantEndpoint(b)
           \/ \E s \in Slots : RevokeSecret(s) \/ GrantSecret(s)
           \/ GrantJobWorker \/ Fork \/ StartupStep
  <2>1. rows' = rows \/ \E B : rows' = PauseAt(B)
    BY <1>6 DEF RevokeEndpoint, GrantEndpoint, RevokeSecret, GrantSecret,
       GrantJobWorker, Fork, StartupStep, ActivateSame, ActivateChanged,
       RestoreFork, RecoverClock, PauseEffectsForEpoch
  <2> QED BY <1>n, <1>5, <2>1
<1>7. CASE \/ Tick \/ UNCHANGED vars
           \/ \E d \in Dirs : OwnerStart(d) \/ OwnerExit(d)
  BY <1>7, <1>n DEF Tick, OwnerStart, OwnerExit, vars
<1> QED BY <1>1, <1>2, <1>3, <1>4, <1>6, <1>7 DEF Next, OperatorStep

\* Pending, running and paused captures stay within the limits of the app and of
\* the tenant (ACTIVE_COUNTS), for any number of endpoints, tenants, workers and
\* captures, although only capture and the retry of a dead capture count.
THEOREM QuotaKept == Spec => []QuotaRespected
<1>1. Init => QuotaInv
  <2> SUFFICES ASSUME Init PROVE QuotaInv OBVIOUS
  <2>1. Occupants = {} BY DEF Init, NoRow, Occupants, Occupying
  <2>2. \A t : OccupantsOf(t) = {} BY DEF Init, NoRow, OccupantsOf, Occupying
  <2>3. IsFiniteSet({}) /\ Cardinality({}) = 0 BY FS_EmptySet
  <2>a. CountAll = Cardinality(Occupants) BY DEF CountAll, Occupants
  <2>b. \A t : Count(t) = Cardinality(OccupantsOf(t)) BY DEF Count, OccupantsOf
  <2>4. CountAll <= AppLimit BY <2>1, <2>3, <2>a, LimitAssumption
  <2>5. ASSUME NEW t \in Tenants PROVE Count(t) <= TenantLimit
    <3>1. Count(t) = 0 BY <2>2, <2>3, <2>b
    <3> QED BY <3>1, LimitAssumption
  <2> QED BY <2>1, <2>3, <2>4, <2>5, InitTyped DEF QuotaInv, QuotaRespected
<1>2. QuotaInv /\ [Next]_vars => QuotaInv' BY StepQuota
<1>3. QuotaInv => QuotaRespected BY DEF QuotaInv
<1> QED BY <1>1, <1>2, <1>3, PTL DEF Spec
=============================================================================
