----------------------------- MODULE JobsProofs -----------------------------
(***************************************************************************)
(* Proofs about the job queue, for every set of jobs, services, tenants,   *)
(* processes and worker slots and every value of the limits: every stored  *)
(* row can be read again, every live row carries current authority, and    *)
(* no job is executed under more claims than its allowance.                *)
(*                                                                         *)
(* One invariant carries all of them.  Rows only evolve: a fence never     *)
(* falls, the first eligible time never changes, and a row that runs       *)
(* after a step ran before it under the same fence and lease or was        *)
(* claimed in that step under a higher fence.  An attempt therefore needs  *)
(* to know nothing about its row but the fence it was issued.              *)
(***************************************************************************)
EXTENDS Jobs, FiniteSetTheorems, TLAPS

-----------------------------------------------------------------------------
(* The invariant.                                                          *)

\* How often a row with this fence has been charged: attempts follow the fence
\* until the allowance is used up.
Charged(fence) == IF fence < MaxAttempts THEN fence ELSE MaxAttempts

\* A stored row at time t: the shape QueueContext::row asserts; a running row
\* was due and its lease lies behind the time it was due.
RowSound(r, t) ==
    /\ r.attempts = Charged(r.fence)
    /\ IF r.state = "none" THEN r.fence = 0 ELSE r.eligible >= r.first
    /\ r.state = "running" => r.fence > 0 /\ r.first <= t /\ r.lease > r.first
    /\ r.state = "pending" => r.attempts < MaxAttempts
    /\ r.state # "running" => r.lease = 0

\* The attempt of a worker and the row it claimed.
AttemptSound(a, r) ==
    /\ r.state # "none"
    /\ a.fence > 0 /\ a.fence <= r.fence
    /\ a.fence = r.fence /\ r.state = "running" => a.lease = r.lease
    /\ ~ a.exhausted => a.fence <= MaxAttempts
    /\ a.phase \in {"executing", "failing"} => a.at >= r.first

RowsSound == \A j \in Jobs : RowSound(rows[j], now)

AttemptsSound ==
    \A w \in Workers : workers[w].phase # "idle" =>
        workers[w].job \in Jobs /\ AttemptSound(workers[w], rows[workers[w].job])

RanCharged == \A j \in Jobs : ran[j] \subseteq 1 .. MaxAttempts

JobsInv ==
    /\ TypeOK
    /\ RowsSound
    /\ AttemptsSound
    /\ ReceiptMeansSuccess
    /\ EnvelopeCurrent
    /\ RanCharged

-----------------------------------------------------------------------------
(* Rows.                                                                   *)

\* What a step may make of a row r: its fence never falls, its first time stays,
\* and it runs only under the claim it had or under a new one.
Evolves(r, s) ==
    /\ s.fence >= r.fence
    /\ r.state # "none" => s.state # "none" /\ s.first = r.first
    /\ s.state = "running" =>
          \/ s.fence > r.fence
          \/ r.state = "running" /\ s.fence = r.fence /\ s.lease = r.lease

SameEnvelope(r, s) == r.gen = s.gen /\ r.epoch = s.epoch /\ r.version = s.version

\* A row that is live after a step was live before it, under the same envelope.
NotRevived(r, s) == s.state \in Live => r.state \in Live /\ SameEnvelope(r, s)

\* A sound successor of row r that no command revived: what every step but a
\* capture makes of every row.
Sound(r, s) == s \in Row /\ RowSound(s, now) /\ Evolves(r, s) /\ NotRevived(r, s)

\* The limits that attempts and interruptions are counted against are numbers.
LEMMA LimitsTyped ==
    /\ {MaxAttempts, MaxTries, Lease, MaxInterruptions} \subseteq Nat
    /\ MaxAttempts > 0 /\ MaxTries > 0 /\ Lease > 0
BY LimitAssumption

\* A row stays sound as time passes.
LEMMA LaterSound ==
    ASSUME NEW r \in Row, NEW t \in Nat, NEW u \in Nat, t <= u, RowSound(r, t)
    PROVE  RowSound(r, u)
BY DEF RowSound, Row

\* A row is a sound successor of itself.
LEMMA SameSound ==
    ASSUME NEW r \in Row, RowSound(r, now) PROVE Sound(r, r)
BY DEF Sound, Evolves, NotRevived, SameEnvelope, Row

\* The fields of a settled row (FINISH_RUNNING_JOB).
LEMMA SettledFields ==
    ASSUME NEW r \in Row, NEW state \in States, NEW eligible \in Nat
    PROVE  LET q == Settled(r, state, eligible) IN
           /\ q \in Row
           /\ q.state = state /\ q.eligible = eligible /\ q.lease = 0
           /\ q.attempts = r.attempts /\ q.fence = r.fence /\ q.first = r.first
           /\ SameEnvelope(r, q)
BY DEF Settled, Row, SameEnvelope

\* Settling a running row keeps it sound, not before it was due and back to the
\* queue only while attempts are left.
LEMMA SettledSound ==
    ASSUME NEW r \in Row, RowSound(r, now), r.state = "running",
           NEW state \in States \ {"none", "running"}, NEW eligible \in Nat,
           eligible >= r.first, state = "pending" => r.attempts < MaxAttempts
    PROVE  Sound(r, Settled(r, state, eligible))
<1> DEFINE q == Settled(r, state, eligible)
<1>1. /\ q \in Row
      /\ q.state = state /\ q.eligible = eligible /\ q.lease = 0
      /\ q.attempts = r.attempts /\ q.fence = r.fence /\ q.first = r.first
      /\ SameEnvelope(r, q)
  BY SettledFields
<1> HIDE DEF q
<1> SUFFICES Sound(r, q) BY DEF q
<1> QED BY <1>1 DEF Sound, RowSound, Evolves, NotRevived, Live, Row

\* A claim of a due row, pending or running with an expired lease: one charge
\* more, a new fence and a lease that lies ahead (CLAIM_JOB).
LEMMA ClaimedSound ==
    ASSUME now \in Nat, NEW r \in Row, RowSound(r, now),
           \/ r.state = "running"
           \/ r.state = "pending" /\ r.eligible <= now
    PROVE  LET q == Claimed(r) IN
           /\ Sound(r, q)
           /\ q.state = "running" /\ q.fence = r.fence + 1 /\ q.lease = now + Lease
<1> DEFINE charged == IF r.attempts < MaxAttempts THEN r.attempts + 1 ELSE r.attempts
<1>1. charged \in 0 .. MaxAttempts /\ charged = Charged(r.fence + 1)
  <2>1. r.fence \in Nat /\ r.attempts \in Nat /\ r.attempts <= MaxAttempts
    BY LimitAssumption DEF Row
  <2>2. r.attempts = IF r.fence < MaxAttempts THEN r.fence ELSE MaxAttempts
    BY DEF RowSound, Charged
  <2> QED BY <2>1, <2>2, LimitAssumption DEF Charged
<1>2. Claimed(r) = [r EXCEPT !.state = "running", !.fence = r.fence + 1,
                             !.lease = now + Lease, !.attempts = charged]
  BY DEF Claimed
<1> DEFINE q == Claimed(r)
<1>3. /\ q.state = "running" /\ q.fence = r.fence + 1 /\ q.lease = now + Lease
      /\ q.attempts = charged /\ q.eligible = r.eligible /\ q.first = r.first
      /\ SameEnvelope(r, q)
  BY <1>2 DEF Row, SameEnvelope
<1>4. q \in Row
  <2>1. "running" \in States /\ r.fence + 1 \in Nat /\ now + Lease \in Nat
    BY LimitAssumption DEF States, Row
  <2> HIDE DEF charged
  <2> QED BY <1>1, <1>2, <2>1 DEF Row
<1>5. r.first <= now /\ r.eligible >= r.first BY DEF RowSound, Row
<1>6. RowSound(q, now)
  <2>1. /\ q.first <= now /\ q.lease > q.first /\ q.eligible >= q.first /\ q.fence > 0
    BY <1>3, <1>5, LimitAssumption DEF Row
  <2>2. q.attempts = Charged(q.fence) BY <1>1, <1>3
  <2> HIDE DEF q
  <2> QED BY <1>3, <2>1, <2>2 DEF RowSound
<1> HIDE DEF q
<1>7. Evolves(r, q) BY <1>3 DEF Evolves, Row
<1>8. NotRevived(r, q) BY <1>3 DEF NotRevived, Live
<1>9. Sound(r, q) BY <1>4, <1>6, <1>7, <1>8 DEF Sound
<1> QED BY <1>3, <1>9 DEF q

\* A row that is paused or rejected where it stands.
LEMMA WithdrawnSound ==
    ASSUME NEW r \in Row, RowSound(r, now), r.state # "none",
           NEW state \in {"paused", "rejected"}
    PROVE  LET q == [r EXCEPT !.state = state, !.lease = 0] IN
           Sound(r, q) /\ q.state = state
<1> DEFINE q == [r EXCEPT !.state = state, !.lease = 0]
<1>1. /\ q \in Row /\ q.state = state /\ q.lease = 0 /\ q.eligible = r.eligible
      /\ q.attempts = r.attempts /\ q.fence = r.fence /\ q.first = r.first
  BY DEF Row, States
<1> HIDE DEF q
<1>2. Sound(r, q) BY <1>1 DEF Sound, RowSound, Evolves, NotRevived, Live, Row
<1> QED BY <1>1, <1>2 DEF q

\* A captured row (INSERT_JOB).
LEMMA InsertedSound ==
    ASSUME TypeOK, NEW j \in Jobs, NEW d \in Nat, NEW parent \in Jobs \cup {NoJob},
           RowSound(rows[j], now), rows[j].state = "none", Granted(ServiceOf[j])
    PROVE  LET q == Inserted(j, d, parent) IN
           /\ q \in Row /\ RowSound(q, now) /\ Evolves(rows[j], q)
           /\ q.state = "pending" /\ q.gen = deployment /\ q.epoch = runtime.epoch
           /\ q.version = grants[ServiceOf[j]].version
<1> DEFINE q == Inserted(j, d, parent)
<1>1. /\ q.state = "pending" /\ q.gen = deployment /\ q.epoch = runtime.epoch
      /\ q.version = grants[ServiceOf[j]].version
      /\ q.attempts = 0 /\ q.fence = 0 /\ q.lease = 0
      /\ q.eligible = now + d /\ q.first = now + d
  BY DEF Inserted, NoRow
<1>2. q \in Row
  <2>1. /\ now + d \in Nat /\ deployment \in Nat /\ runtime.epoch \in Nat
        /\ grants[ServiceOf[j]].version \in Nat
    BY MapAssumption DEF TypeOK, Grant
  <2>2. NoRow \in Row BY LimitAssumption DEF NoRow, Row, States
  <2>3. "pending" \in States BY DEF States
  <2> QED BY <2>1, <2>2, <2>3, LimitAssumption DEF Inserted, Row
<1>3. rows[j] \in Row BY DEF TypeOK
<1>4. rows[j].fence = 0
  BY <1>3, LimitAssumption DEF RowSound, Charged, Row
<1> HIDE DEF q
<1>5. RowSound(q, now) /\ Evolves(rows[j], q)
  BY <1>1, <1>2, <1>3, <1>4, LimitAssumption DEF RowSound, Charged, Evolves, Row
<1> QED BY <1>1, <1>2, <1>5 DEF q

-----------------------------------------------------------------------------
(* Attempts, receipts and envelopes.                                       *)

\* A step whose rows are as they should be after it.
Follows ==
    /\ rows' \in [Jobs -> Row]
    /\ RowsSound'
    /\ \A j \in Jobs : Evolves(rows[j], rows'[j])
    /\ ReceiptMeansSuccess'
    /\ EnvelopeCurrent'

\* An attempt stays sound whatever its row evolves into.
LEMMA AttemptKept ==
    ASSUME NEW r \in Row, NEW s \in Row, Evolves(r, s), NEW a \in Attempt,
           AttemptSound(a, r)
    PROVE  AttemptSound(a, s)
BY DEF Evolves, AttemptSound, Row, Attempt

\* A worker that is idle after the step, or whose attempt fits the new rows; the
\* other workers did nothing.
LEMMA WorkerKept ==
    ASSUME JobsInv, Follows, NEW w \in Workers, NEW a \in Attempt, To(w, a),
           a.phase = "idle" \/ (a.job \in Jobs /\ AttemptSound(a, rows'[a.job]))
    PROVE  workers' \in [Workers -> Attempt] /\ AttemptsSound'
<1>1. workers \in [Workers -> Attempt] /\ rows \in [Jobs -> Row] /\ AttemptsSound
  BY DEF JobsInv, TypeOK
<1>2. workers' \in [Workers -> Attempt]
      /\ \A v \in Workers : workers'[v] = IF v = w THEN a ELSE workers[v]
  BY <1>1 DEF To
<1>3. ASSUME NEW v \in Workers, workers'[v].phase # "idle", v # w
      PROVE  workers'[v].job \in Jobs /\ AttemptSound(workers'[v], rows'[workers'[v].job])
  <2>1. workers'[v] = workers[v] BY <1>2, <1>3
  <2>2. workers[v].job \in Jobs /\ AttemptSound(workers[v], rows[workers[v].job])
    BY <1>1, <1>3, <2>1 DEF AttemptsSound
  <2>3. Evolves(rows[workers[v].job], rows'[workers[v].job]) BY <2>2 DEF Follows
  <2>4. rows[workers[v].job] \in Row /\ rows'[workers[v].job] \in Row
        /\ workers[v] \in Attempt
    BY <1>1, <2>2 DEF Follows
  <2>5. AttemptSound(workers[v], rows'[workers[v].job])
    BY <2>2, <2>3, <2>4, AttemptKept
  <2> QED BY <2>1, <2>2, <2>5
<1>4. workers'[w].phase # "idle" =>
        workers'[w].job \in Jobs /\ AttemptSound(workers'[w], rows'[workers'[w].job])
  BY <1>2
<1> QED BY <1>2, <1>3, <1>4 DEF AttemptsSound

\* No worker did anything, or some lost what they were doing.
LEMMA WorkersKept ==
    ASSUME JobsInv, Follows, workers' \in [Workers -> Attempt],
           \A w \in Workers : workers'[w] = workers[w] \/ workers'[w].phase = "idle"
    PROVE  AttemptsSound'
<1>1. workers \in [Workers -> Attempt] /\ rows \in [Jobs -> Row] /\ AttemptsSound
  BY DEF JobsInv, TypeOK
<1>3. ASSUME NEW v \in Workers, workers'[v].phase # "idle"
      PROVE  workers'[v].job \in Jobs /\ AttemptSound(workers'[v], rows'[workers'[v].job])
  <2>1. workers'[v] = workers[v] BY <1>3
  <2>2. workers[v].job \in Jobs /\ AttemptSound(workers[v], rows[workers[v].job])
    BY <1>1, <1>3, <2>1 DEF AttemptsSound
  <2>3. Evolves(rows[workers[v].job], rows'[workers[v].job]) BY <2>2 DEF Follows
  <2>4. rows[workers[v].job] \in Row /\ rows'[workers[v].job] \in Row
        /\ workers[v] \in Attempt
    BY <1>1, <2>2 DEF Follows
  <2>5. AttemptSound(workers[v], rows'[workers[v].job])
    BY <2>2, <2>3, <2>4, AttemptKept
  <2> QED BY <2>1, <2>2, <2>5
<1> QED BY <1>3 DEF AttemptsSound

\* Authority that did not change still covers rows that were not revived.
LEMMA EnvelopeKept ==
    ASSUME EnvelopeCurrent, UNCHANGED authority,
           \A j \in Jobs : NotRevived(rows[j], rows'[j])
    PROVE  EnvelopeCurrent'
<1> SUFFICES ASSUME NEW j \in Jobs, rows'[j].state \in Live
             PROVE  (RuntimeBound /\ Authority(j))'
  BY DEF EnvelopeCurrent
<1>1. rows[j].state \in Live /\ SameEnvelope(rows[j], rows'[j]) BY DEF NotRevived
<1>2. RuntimeBound /\ Authority(j) BY <1>1 DEF EnvelopeCurrent
<1> QED BY <1>1, <1>2 DEF RuntimeBound, Authority, authority, SameEnvelope

\* Rows that stay as they are follow.
LEMMA RowsUntouched ==
    ASSUME JobsInv, rows' = rows, UNCHANGED <<authority, receipts>>,
           now' \in Nat, now <= now'
    PROVE  Follows
<1>1. rows \in [Jobs -> Row] /\ now \in Nat BY DEF JobsInv, TypeOK
<1>2. \A j \in Jobs : Sound(rows[j], rows[j])
  BY <1>1, SameSound DEF JobsInv, RowsSound
<1>3. RowsSound'
  <2> SUFFICES ASSUME NEW j \in Jobs PROVE RowSound(rows'[j], now') BY DEF RowsSound
  <2>1. RowSound(rows[j], now) BY DEF JobsInv, RowsSound
  <2> QED BY <1>1, <2>1, LaterSound
<1>4. EnvelopeCurrent' BY <1>2, EnvelopeKept DEF JobsInv, Sound
<1>5. ReceiptMeansSuccess' BY DEF JobsInv, ReceiptMeansSuccess
<1> QED BY <1>1, <1>2, <1>3, <1>4, <1>5 DEF Follows, Sound

\* Sound successors that neither succeed nor undo a success follow.
LEMMA RowsMoved ==
    ASSUME JobsInv, rows' \in [Jobs -> Row], UNCHANGED <<now, authority, receipts>>,
           \A j \in Jobs :
              /\ Sound(rows[j], rows'[j])
              /\ rows[j].state = "succeeded" <=> rows'[j].state = "succeeded"
    PROVE  Follows
<1>1. RowsSound' BY DEF RowsSound, Sound
<1>2. EnvelopeCurrent' BY EnvelopeKept DEF JobsInv, Sound
<1>3. ReceiptMeansSuccess' BY DEF JobsInv, ReceiptMeansSuccess
<1> QED BY <1>1, <1>2, <1>3 DEF Follows, Sound

\* The same for one row.
LEMMA RowMoved ==
    ASSUME JobsInv, NEW j \in Jobs, NEW r, rows' = [rows EXCEPT ![j] = r],
           UNCHANGED <<now, authority, receipts>>, Sound(rows[j], r),
           rows[j].state # "succeeded", r.state # "succeeded"
    PROVE  Follows
<1>1. rows \in [Jobs -> Row] /\ r \in Row BY DEF JobsInv, TypeOK, Sound
<1>2. rows' \in [Jobs -> Row]
      /\ \A k \in Jobs : rows'[k] = IF k = j THEN r ELSE rows[k]
  BY <1>1
<1>3. \A k \in Jobs : Sound(rows[k], rows[k])
  BY <1>1, SameSound DEF JobsInv, RowsSound
<1> QED BY <1>2, <1>3, RowsMoved

\* What a worker knows of the row it claimed.
LEMMA ClaimedRow ==
    ASSUME JobsInv, NEW w \in Workers, workers[w].phase # "idle"
    PROVE  /\ JobAt(w) \in Jobs /\ RowAt(w) = rows[JobAt(w)] /\ RowAt(w) \in Row
           /\ workers[w] \in Attempt /\ AttemptSound(workers[w], RowAt(w))
           /\ RowSound(RowAt(w), now)
BY DEF JobsInv, TypeOK, AttemptsSound, RowsSound, JobAt, RowAt

-----------------------------------------------------------------------------
(* The steps of a worker.                                                  *)

\* A row that runs under this claim has no receipt: recovery by receipt is never
\* what settles it, and it does not have to be.
LEMMA HeldNoReceipt ==
    ASSUME JobsInv, NEW w \in Workers, workers[w].phase # "idle", Holds(w)
    PROVE  JobAt(w) \notin receipts /\ RowAt(w).state = "running"
BY ClaimedRow DEF Holds, JobsInv, ReceiptMeansSuccess

\* What the execution lock makes of a held row.
LEMMA LockedSound ==
    ASSUME JobsInv, NEW w \in Workers, workers[w].phase # "idle", Holds(w)
    PROVE  Sound(RowAt(w), LockedRow(w)) /\ LockedRow(w).state # "succeeded"
<1> DEFINE r == RowAt(w)
<1>1. r \in Row /\ RowSound(r, now) /\ r.state = "running" /\ JobAt(w) \notin receipts
  BY ClaimedRow, HeldNoReceipt
<1>2. now \in Nat /\ now >= r.first BY <1>1 DEF RowSound, JobsInv, TypeOK, Row
<1>3. ASSUME NEW state \in {"paused", "dead"}
      PROVE  Sound(r, Settled(r, state, now)) /\ Settled(r, state, now).state = state
  <2>1. state \in States \ {"none", "running"} /\ state # "pending"
    BY <1>3 DEF States
  <2>2. Sound(r, Settled(r, state, now)) BY <1>1, <1>2, <2>1, SettledSound
  <2>3. Settled(r, state, now).state = state BY <1>1, <1>2, <2>1, SettledFields
  <2> QED BY <2>2, <2>3
<1>4. \/ LockedRow(w) = r
      \/ \E state \in {"paused", "dead"} : LockedRow(w) = Settled(r, state, now)
  BY <1>1 DEF LockedRow
<1>5. Sound(r, r) /\ r.state # "succeeded" BY <1>1, SameSound
<1> HIDE DEF r
<1> SUFFICES Sound(r, LockedRow(w)) /\ LockedRow(w).state # "succeeded" BY DEF r
<1> QED BY <1>3, <1>4, <1>5

\* What a recorded failure makes of a held row; a retry has attempts left.
LEMMA FailedSound ==
    ASSUME JobsInv, NEW w \in Workers, workers[w].phase = "failing", Holds(w),
           NEW jitter \in Jitter
    PROVE  Sound(RowAt(w), FailedRow(w, jitter)) /\ FailedRow(w, jitter).state # "succeeded"
<1> DEFINE r == RowAt(w)  a == workers[w]
<1>1. /\ r \in Row /\ RowSound(r, now) /\ r.state = "running" /\ JobAt(w) \notin receipts
      /\ a \in Attempt /\ AttemptSound(a, r)
  BY ClaimedRow, HeldNoReceipt
<1>2. a.at \in Nat /\ a.at >= r.first BY <1>1 DEF AttemptSound, Attempt
<1>3. ASSUME NEW state \in {"paused", "rejected", "dead"}
      PROVE  Sound(r, Settled(r, state, a.at)) /\ Settled(r, state, a.at).state = state
  <2>1. state \in States \ {"none", "running"} /\ state # "pending"
    BY <1>3 DEF States
  <2>2. Sound(r, Settled(r, state, a.at)) BY <1>1, <1>2, <2>1, SettledSound
  <2>3. Settled(r, state, a.at).state = state BY <1>1, <1>2, <2>1, SettledFields
  <2> QED BY <2>2, <2>3
<1>4. ASSUME ~ Spent(w)
      PROVE  LET q == Settled(r, "pending", NextRetry(w, jitter)) IN
             Sound(r, q) /\ q.state = "pending"
  <2>1. r.attempts \in 1 .. MaxAttempts - 1
    <3>1. r.attempts \in Nat /\ r.fence \in Nat /\ r.fence > 0
          /\ r.attempts = Charged(r.fence)
      BY <1>1 DEF RowSound, Row
    <3>2. r.attempts < MaxAttempts BY <1>4, <3>1, LimitAssumption DEF Spent
    <3> QED BY <3>1, <3>2, LimitAssumption DEF Charged
  <2>2. Backoff[r.attempts] \in Nat /\ jitter \in Nat BY <2>1, LimitAssumption
  <2>3. NextRetry(w, jitter) \in Nat /\ NextRetry(w, jitter) >= r.first
    BY <1>1, <1>2, <2>2 DEF NextRetry, Row
  <2>4. r.attempts < MaxAttempts BY <2>1, LimitAssumption
  <2>5. "pending" \in States \ {"none", "running"} BY DEF States
  <2>6. Sound(r, Settled(r, "pending", NextRetry(w, jitter)))
    BY <1>1, <2>3, <2>4, <2>5, SettledSound
  <2>7. Settled(r, "pending", NextRetry(w, jitter)).state = "pending"
    BY <1>1, <2>3, <2>5, SettledFields
  <2> QED BY <2>6, <2>7
<1>5. \/ \E state \in {"paused", "rejected", "dead"} :
           FailedRow(w, jitter) = Settled(r, state, a.at)
      \/ ~ Spent(w) /\ FailedRow(w, jitter) = Settled(r, "pending", NextRetry(w, jitter))
  BY <1>1 DEF FailedRow
<1> HIDE DEF r, a
<1> SUFFICES Sound(r, FailedRow(w, jitter)) /\ FailedRow(w, jitter).state # "succeeded"
  BY DEF r
<1> QED BY <1>3, <1>4, <1>5

\* Everything but rows, workers and the fences that ran is typed by its own step.
RestTyped ==
    /\ {now, deployment, seq} \subseteq Nat
    /\ runtime \in [gen : Nat, epoch : Nat, state : {"active", "paused"}]
    /\ grants \in [Services -> Grant]
    /\ tenantSeq \in [Tenants -> Nat]
    /\ receipts \subseteq Jobs
    /\ hosts \in [Hosts -> [up : BOOLEAN, gen : Nat]]
    /\ mutations \in [Jobs -> Nat]
    /\ ran \in [Jobs -> SUBSET Nat]
    /\ interruptions \in 0 .. MaxInterruptions

\* The parts of the invariant, put together again.
LEMMA Assembled ==
    ASSUME Follows, RestTyped', workers' \in [Workers -> Attempt], AttemptsSound',
           RanCharged'
    PROVE  JobsInv'
BY DEF Follows, RestTyped, JobsInv, TypeOK

\* A slot without a claim.
LEMMA IdleAttempt == Idle \in Attempt /\ Idle.phase = "idle"
BY LimitAssumption DEF Idle, Attempt, Phases, Failure

\* A claim: the winner's fence is the row's, above every fence issued before.
LEMMA ClaimKeeps ==
    ASSUME JobsInv, NEW w \in Workers, NEW j \in Jobs, Claim(w, j) \/ ClaimLost(w, j)
    PROVE  JobsInv'
<1>1. ClaimTx(w, j) BY DEF Claim, ClaimLost
<1>2. /\ now \in Nat /\ rows[j] \in Row /\ RowSound(rows[j], now) /\ rows[j] = rows[j]
      /\ TypeOK /\ RanCharged
  BY DEF JobsInv, TypeOK, RowsSound
<1>3. \/ rows[j].state = "running"
      \/ rows[j].state = "pending" /\ rows[j].eligible <= now
  BY <1>1 DEF ClaimTx, NextClaimable, Claimable
<1> DEFINE q == Claimed(rows[j])
<1>4. Sound(rows[j], q) /\ q.state = "running" /\ q.fence = rows[j].fence + 1
      /\ q.lease = now + Lease
  BY <1>2, <1>3, ClaimedSound
<1>5. /\ rows' = [rows EXCEPT ![j] = q]
      /\ UNCHANGED <<now, authority, receipts, hosts, history>>
      /\ seq' = seq + 1
      /\ tenantSeq' = [tenantSeq EXCEPT ![TenantOf[ServiceOf[j]]] = seq + 1]
  BY <1>1 DEF ClaimTx
<1> HIDE DEF q
<1>6. Follows BY <1>3, <1>4, <1>5, RowMoved
<1>7. RestTyped'
  <2>1. interruptions' \in 0 .. MaxInterruptions
    BY <1>2, LimitsTyped DEF Claim, ClaimLost, Interrupt, TypeOK
  <2>a. seq + 1 \in Nat /\ tenantSeq \in [Tenants -> Nat] BY <1>2 DEF TypeOK
  <2>b. tenantSeq' = [tenantSeq EXCEPT ![TenantOf[ServiceOf[j]]] = seq + 1]
    BY <1>5
  <2>2. seq' \in Nat /\ tenantSeq' \in [Tenants -> Nat] BY <1>5, <2>a, <2>b
  <2>3. UNCHANGED <<now, deployment, runtime, grants, receipts, hosts, mutations, ran>>
    BY <1>5 DEF authority, history
  <2> QED BY <1>2, <2>1, <2>2, <2>3 DEF TypeOK, RestTyped
<1>8. RanCharged' BY <1>2, <1>5 DEF RanCharged, history
<1>9. CASE Claim(w, j)
  <2> DEFINE late == rows[j].attempts >= MaxAttempts
  <2> DEFINE a == [Idle EXCEPT !.phase = "claimed", !.job = j, !.fence = rows[j].fence + 1,
                               !.lease = now + Lease, !.exhausted = late]
  <2>1. To(w, a) BY <1>9 DEF Claim, ClaimOf, To
  <2>2. late \in BOOLEAN /\ rows[j].fence + 1 \in Nat /\ now + Lease \in Nat
        /\ (~ late => rows[j].fence + 1 <= MaxAttempts)
    <3>1. rows[j].fence \in Nat /\ rows[j].attempts \in Nat
          /\ rows[j].attempts = Charged(rows[j].fence)
      BY <1>2 DEF Row, RowSound
    <3> QED BY <1>2, <3>1, LimitsTyped DEF Charged
  <2> HIDE DEF late
  <2>3. a \in Attempt BY <2>2, IdleAttempt DEF Attempt, Phases
  <2>4. /\ a.phase = "claimed" /\ a.job = j /\ a.fence = rows[j].fence + 1
        /\ a.lease = now + Lease /\ a.exhausted = late
    BY IdleAttempt DEF Idle
  <2>5. rows'[j] = q BY <1>2, <1>5 DEF TypeOK
  <2> HIDE DEF a
  <2>6. AttemptSound(a, rows'[a.job])
    BY <1>2, <1>4, <2>2, <2>4, <2>5 DEF AttemptSound, Row
  <2>7. workers' \in [Workers -> Attempt] /\ AttemptsSound'
    BY <1>6, <2>1, <2>3, <2>4, <2>6, WorkerKept
  <2> QED BY <1>6, <1>7, <1>8, <2>7, Assembled
<1>10. CASE ClaimLost(w, j)
  <2>1. workers' = workers BY <1>10 DEF ClaimLost
  <2>2. workers' \in [Workers -> Attempt] /\ AttemptsSound'
    BY <1>2, <1>6, <2>1, WorkersKept DEF TypeOK
  <2> QED BY <1>6, <1>7, <1>8, <2>2, Assembled
<1> QED BY <1>9, <1>10

\* A worker step that leaves authority, receipts, processes and history alone.
LEMMA AttemptStep ==
    ASSUME JobsInv, Follows, NEW w \in Workers, NEW a \in Attempt, To(w, a),
           a.phase = "idle" \/ (a.job \in Jobs /\ AttemptSound(a, rows'[a.job])),
           UNCHANGED <<now, authority, queue, receipts, hosts, mutations>>,
           ran' \in [Jobs -> SUBSET Nat], RanCharged',
           interruptions' \in 0 .. MaxInterruptions
    PROVE  JobsInv'
<1>1. workers' \in [Workers -> Attempt] /\ AttemptsSound' BY WorkerKept
<1>2. RestTyped' BY DEF RestTyped, JobsInv, TypeOK, authority, queue
<1> QED BY <1>1, <1>2, Assembled

\* The same for a worker that is done.
LEMMA IdleStep ==
    ASSUME JobsInv, Follows, NEW w \in Workers, To(w, Idle),
           UNCHANGED <<now, authority, queue, receipts, hosts, history>>,
           interruptions' \in 0 .. MaxInterruptions
    PROVE  JobsInv'
<1>1. mutations' = mutations /\ ran' = ran BY DEF history
<1>2. workers' \in [Workers -> Attempt] /\ AttemptsSound'
  <2>1. /\ workers' \in [Workers -> Attempt]
        /\ \A v \in Workers : workers'[v] = workers[v] \/ workers'[v].phase = "idle"
    BY IdleAttempt DEF To, JobsInv, TypeOK
  <2> QED BY <2>1, WorkersKept
<1>3. RestTyped' BY <1>1 DEF RestTyped, JobsInv, TypeOK, authority, queue
<1>4. RanCharged' BY <1>1 DEF JobsInv, RanCharged
<1> QED BY <1>2, <1>3, <1>4, Assembled

\* Execution::Ready: a claim that is not exhausted runs under a fence within the
\* allowance, at a time when its row was due.
LEMMA LockReadyKeeps ==
    ASSUME JobsInv, NEW w \in Workers, LockReady(w) PROVE JobsInv'
<1>1. workers[w].phase # "idle" /\ workers[w].phase = "claimed" /\ Holds(w)
  BY DEF LockReady
<1>2. /\ JobAt(w) \in Jobs /\ RowAt(w) = rows[JobAt(w)] /\ RowAt(w) \in Row
      /\ workers[w] \in Attempt /\ AttemptSound(workers[w], RowAt(w))
      /\ RowSound(RowAt(w), now) /\ RowAt(w).state = "running"
      /\ JobAt(w) \notin receipts /\ now \in Nat
  BY <1>1, ClaimedRow, HeldNoReceipt DEF JobsInv, TypeOK
<1>3. ~ workers[w].exhausted
  <2>1. LockedRow(w).state = "running" /\ now < RowAt(w).lease BY DEF LockReady
  <2>2. ASSUME NEW state \in {"paused", "dead"}
        PROVE  Settled(RowAt(w), state, now).state = state
    <3>1. state \in States BY DEF States
    <3> QED BY <1>2, <3>1, SettledFields
  <2> QED BY <1>2, <2>1, <2>2 DEF LockedRow, Row
<1> DEFINE a == [workers[w] EXCEPT !.phase = "executing", !.at = now]
<1>4. a \in Attempt /\ a.phase = "executing" /\ a.at = now /\ a.job = JobAt(w)
      /\ a.fence = workers[w].fence /\ a.lease = workers[w].lease
      /\ a.exhausted = workers[w].exhausted
  BY <1>2 DEF Attempt, Phases, JobAt
<1>5. To(w, a) /\ UNCHANGED <<now, authority, queue, rows, receipts, hosts, mutations,
                               interruptions>>
  BY DEF LockReady
<1> HIDE DEF a
<1>6. Follows BY <1>2, <1>5, RowsUntouched
<1>7. AttemptSound(a, rows'[a.job])
  <2>1. a.at >= RowAt(w).first BY <1>2, <1>4 DEF RowSound, Row
  <2> QED BY <1>2, <1>4, <1>5, <2>1 DEF AttemptSound
<1>8. ran' \in [Jobs -> SUBSET Nat] /\ RanCharged'
  <2>1. workers[w].fence \in 1 .. MaxAttempts
    BY <1>2, <1>3, LimitAssumption DEF AttemptSound, Attempt
  <2>2. ran' = [ran EXCEPT ![JobAt(w)] = @ \cup {workers[w].fence}] BY DEF LockReady
  <2>3. ran \in [Jobs -> SUBSET Nat] /\ RanCharged BY DEF JobsInv, TypeOK
  <2>4. workers[w].fence \in Nat BY <1>2 DEF Attempt
  <2>5. ran' \in [Jobs -> SUBSET Nat] BY <2>2, <2>3, <2>4
  <2>6. \A j \in Jobs : ran'[j] \subseteq 1 .. MaxAttempts
    BY <2>1, <2>2, <2>3 DEF RanCharged
  <2> QED BY <2>5, <2>6 DEF RanCharged
<1>9. interruptions' \in 0 .. MaxInterruptions BY <1>5 DEF JobsInv, TypeOK
<1> QED BY <1>2, <1>4, <1>5, <1>6, <1>7, <1>8, <1>9, AttemptStep

\* Settling what the lock found, or finding the claim lost.
LEMMA LockSettleKeeps ==
    ASSUME JobsInv, NEW w \in Workers, LockSettle(w) PROVE JobsInv'
<1>1. workers[w].phase # "idle" /\ To(w, Idle)
      /\ UNCHANGED <<now, authority, queue, receipts, hosts, history, interruptions>>
  BY DEF LockSettle
<1>2. now \in Nat BY DEF JobsInv, TypeOK
<1>3. Follows
  <2>1. CASE Holds(w)
    <3>1. rows' = [rows EXCEPT ![JobAt(w)] = LockedRow(w)] BY <2>1 DEF LockSettle
    <3>2. Sound(RowAt(w), LockedRow(w)) /\ LockedRow(w).state # "succeeded"
      BY <1>1, <2>1, LockedSound
    <3>3. JobAt(w) \in Jobs /\ RowAt(w) = rows[JobAt(w)] /\ RowAt(w).state = "running"
      BY <1>1, <2>1, ClaimedRow, HeldNoReceipt
    <3> QED BY <1>1, <3>1, <3>2, <3>3, RowMoved
  <2>2. CASE ~ Holds(w)
    BY <1>1, <1>2, <2>2, RowsUntouched DEF LockSettle
  <2> QED BY <2>1, <2>2
<1>4. interruptions' \in 0 .. MaxInterruptions BY <1>1 DEF JobsInv, TypeOK
<1> QED BY <1>1, <1>3, <1>4, IdleStep

\* Recording a failure, or finding the claim lost.
LEMMA FailKeeps ==
    ASSUME JobsInv, NEW w \in Workers, NEW jitter \in Jitter, Fail(w, jitter)
    PROVE  JobsInv'
<1>1. workers[w].phase # "idle" /\ workers[w].phase = "failing" /\ To(w, Idle)
      /\ UNCHANGED <<now, authority, queue, receipts, hosts, history, interruptions>>
  BY DEF Fail
<1>2. now \in Nat BY DEF JobsInv, TypeOK
<1>3. Follows
  <2>1. CASE Holds(w)
    <3>1. rows' = [rows EXCEPT ![JobAt(w)] = FailedRow(w, jitter)] BY <2>1 DEF Fail
    <3>2. Sound(RowAt(w), FailedRow(w, jitter)) /\ FailedRow(w, jitter).state # "succeeded"
      BY <1>1, <2>1, FailedSound
    <3>3. JobAt(w) \in Jobs /\ RowAt(w) = rows[JobAt(w)] /\ RowAt(w).state = "running"
      BY <1>1, <2>1, ClaimedRow, HeldNoReceipt
    <3> QED BY <1>1, <3>1, <3>2, <3>3, RowMoved
  <2>2. CASE ~ Holds(w)
    BY <1>1, <1>2, <2>2, RowsUntouched DEF Fail
  <2> QED BY <2>1, <2>2
<1>4. interruptions' \in 0 .. MaxInterruptions BY <1>1 DEF JobsInv, TypeOK
<1> QED BY <1>1, <1>3, <1>4, IdleStep

\* The steps that only move a worker: a lost claim or settlement, an abort, a
\* rejection, a raw error.
LEMMA AttemptOnlyKeeps ==
    ASSUME JobsInv, NEW w \in Workers,
           \/ LockFail(w) \/ FailLost(w)
           \/ ExecuteAbort(w) \/ ExecuteReject(w) \/ ExecuteError(w)
    PROVE  JobsInv'
<1>1. UNCHANGED <<now, authority, queue, rows, receipts, hosts, history>>
  BY DEF LockFail, FailLost, ExecuteAbort, ExecuteReject, ExecuteError
<1>2. interruptions' \in 0 .. MaxInterruptions
  <2>1. interruptions \in 0 .. MaxInterruptions BY DEF JobsInv, TypeOK
  <2> QED BY <2>1, LimitAssumption
      DEF LockFail, FailLost, ExecuteAbort, ExecuteReject, ExecuteError, Interrupt
<1>3. /\ ran' \in [Jobs -> SUBSET Nat] /\ RanCharged' /\ mutations' = mutations /\ now \in Nat
  BY <1>1 DEF JobsInv, TypeOK, RanCharged, history
<1>4. Follows BY <1>1, <1>3, RowsUntouched
<1>5. CASE To(w, Idle)
  BY <1>1, <1>2, <1>4, <1>5, IdleStep
<1>6. ASSUME workers[w].phase = "executing", NEW tries \in 0 .. MaxTries,
             NEW phase \in {"claimed", "failing"}, NEW failure \in Failure,
             To(w, [workers[w] EXCEPT !.phase = phase, !.tries = tries, !.failure = failure])
      PROVE  JobsInv'
  <2> DEFINE a == [workers[w] EXCEPT !.phase = phase, !.tries = tries, !.failure = failure]
  <2>1. JobAt(w) \in Jobs /\ workers[w] \in Attempt /\ AttemptSound(workers[w], RowAt(w))
    BY <1>6, ClaimedRow
  <2>2. /\ a \in Attempt /\ a.job = JobAt(w) /\ a.fence = workers[w].fence
        /\ a.lease = workers[w].lease /\ a.exhausted = workers[w].exhausted
        /\ a.at = workers[w].at
    BY <2>1 DEF Attempt, Phases, JobAt
  <2>3. To(w, a) BY <1>6
  <2> HIDE DEF a
  <2>4. AttemptSound(a, rows'[a.job])
    BY <1>1, <1>6, <2>1, <2>2 DEF AttemptSound, RowAt
  <2> QED BY <1>1, <1>2, <1>3, <1>4, <2>1, <2>2, <2>3, <2>4, AttemptStep
<1>7. CASE ExecuteAbort(w) \/ ExecuteReject(w)
  <2>1. workers[w].phase = "executing" /\ workers[w] \in Attempt
    BY <1>7, ClaimedRow DEF ExecuteAbort, ExecuteReject
  <2>2. /\ workers[w].tries \in 0 .. MaxTries
        /\ workers[w].tries < MaxTries - 1 => workers[w].tries + 1 \in 0 .. MaxTries
        /\ workers[w].failure \in Failure
        /\ {"transient", "rejected"} \subseteq Failure
    BY <2>1, LimitsTyped DEF Attempt, Failure
  <2>3. CASE ExecuteReject(w) \/ To(w, [workers[w] EXCEPT !.phase = "failing",
                                                         !.failure = "transient"])
    <3>1. PICK failure \in Failure :
             To(w, [workers[w] EXCEPT !.phase = "failing", !.failure = failure])
      BY <2>2, <2>3 DEF ExecuteReject
    <3>2. [workers[w] EXCEPT !.phase = "failing", !.failure = failure]
          = [workers[w] EXCEPT !.phase = "failing", !.tries = workers[w].tries,
                               !.failure = failure]
      BY <2>1 DEF Attempt
    <3> QED BY <1>6, <2>1, <2>2, <3>1, <3>2
  <2>4. CASE /\ workers[w].tries < MaxTries - 1
             /\ To(w, [workers[w] EXCEPT !.phase = "claimed", !.tries = @ + 1])
    <3>1. [workers[w] EXCEPT !.phase = "claimed", !.tries = @ + 1]
          = [workers[w] EXCEPT !.phase = "claimed", !.tries = workers[w].tries + 1,
                               !.failure = workers[w].failure]
      BY <2>1 DEF Attempt
    <3> QED BY <1>6, <2>1, <2>2, <2>4, <3>1
  <2> QED BY <1>7, <2>3, <2>4 DEF ExecuteAbort
<1> QED BY <1>5, <1>7 DEF LockFail, FailLost, ExecuteError

\* Mutation, receipt, success and follow-up captures in one COMMIT: the one step
\* that makes a job succeed writes its receipt.
LEMMA ExecuteCommitKeeps ==
    ASSUME JobsInv, NEW w \in Workers, NEW K, K \subseteq Jobs, NEW d \in Nat,
           ExecuteCommit(w, K, d)
    PROVE  JobsInv'
<1> DEFINE j == JobAt(w)
<1>1. /\ workers[w].phase # "idle" /\ Holds(w)
      /\ \A k \in K : rows[k].state = "none" /\ Granted(ServiceOf[k])
  BY DEF ExecuteCommit, MayEnqueue
<1>2. /\ j \in Jobs /\ rows[j] \in Row /\ rows[j].state = "running"
      /\ RowSound(rows[j], now)
      /\ rows \in [Jobs -> Row] /\ now \in Nat
  BY <1>1, ClaimedRow, HeldNoReceipt DEF JobsInv, TypeOK
<1> DEFINE done == Settled(rows[j], "succeeded", rows[j].lease)
<1>3. Sound(rows[j], done) /\ done.state = "succeeded"
  <2>1. "succeeded" \in States \ {"none", "running"} BY DEF States
  <2>2. rows[j].lease \in Nat /\ rows[j].lease >= rows[j].first
    BY <1>2 DEF RowSound, Row
  <2>3. Sound(rows[j], done) BY <1>2, <2>1, <2>2, SettledSound
  <2>4. done.state = "succeeded" BY <1>2, <2>1, <2>2, SettledFields
  <2> QED BY <2>3, <2>4
<1>4. ASSUME NEW k \in K
      PROVE  LET q == Inserted(k, d, NoJob) IN
             /\ q \in Row /\ RowSound(q, now) /\ Evolves(rows[k], q)
             /\ q.state = "pending" /\ q.gen = deployment /\ q.epoch = runtime.epoch
             /\ q.version = grants[ServiceOf[k]].version
  BY <1>1, InsertedSound DEF JobsInv, RowsSound
<1>5. rows' = [k \in Jobs |-> IF k = j THEN done
                              ELSE IF k \in K THEN Inserted(k, d, NoJob) ELSE rows[k]]
  BY DEF ExecuteCommit
<1>6. UNCHANGED <<now, authority, queue, hosts, ran, interruptions>>
      /\ receipts' = receipts \cup {j} /\ mutations' = [mutations EXCEPT ![j] = @ + 1]
      /\ To(w, Idle)
  BY DEF ExecuteCommit
<1> HIDE DEF done, j
<1>7. ASSUME NEW k \in Jobs
      PROVE  /\ rows'[k] \in Row /\ RowSound(rows'[k], now) /\ Evolves(rows[k], rows'[k])
             /\ rows'[k].state = "succeeded" <=> (k = j \/ rows[k].state = "succeeded")
             /\ rows'[k].state \in Live => (RuntimeBound /\ Authority(k))'
  <2>1. CASE k = j BY <1>2, <1>3, <1>5, <2>1 DEF Sound, Live
  <2>2. CASE k # j /\ k \in K
    <3>1. rows'[k] = Inserted(k, d, NoJob) BY <1>5, <2>2
    <3>2. rows'[k].gen = deployment /\ rows'[k].epoch = runtime.epoch
          /\ rows'[k].version = grants[ServiceOf[k]].version
      BY <1>4, <2>2, <3>1
    <3>3. (RuntimeBound /\ Authority(k))'
      BY <1>1, <1>6, <2>2, <3>2 DEF Granted, RuntimeBound, Authority, authority
    <3> QED BY <1>1, <1>4, <2>2, <3>1, <3>3
  <2>3. CASE k # j /\ k \notin K
    <3>1. rows'[k] = rows[k] BY <1>5, <2>3
    <3>2. Sound(rows[k], rows[k]) BY <1>2, SameSound DEF JobsInv, RowsSound
    <3>3. rows[k].state \in Live => (RuntimeBound /\ Authority(k))'
      BY <1>6, <3>1 DEF JobsInv, EnvelopeCurrent, RuntimeBound, Authority, authority
    <3> QED BY <2>3, <3>1, <3>2, <3>3 DEF Sound
  <2> QED BY <2>1, <2>2, <2>3
<1>8. rows' \in [Jobs -> Row] BY <1>5, <1>7
<1>9. ReceiptMeansSuccess'
  BY <1>2, <1>6, <1>7 DEF JobsInv, ReceiptMeansSuccess
<1>10. Follows
  BY <1>6, <1>7, <1>8, <1>9 DEF Follows, RowsSound, EnvelopeCurrent
<1>11. workers' \in [Workers -> Attempt] /\ AttemptsSound'
  <2>1. /\ workers' \in [Workers -> Attempt]
        /\ \A v \in Workers : workers'[v] = workers[v] \/ workers'[v].phase = "idle"
    BY <1>6, IdleAttempt DEF To, JobsInv, TypeOK
  <2> QED BY <1>10, <2>1, WorkersKept
<1>12. RestTyped'
  <2>1. receipts' \subseteq Jobs /\ mutations' \in [Jobs -> Nat]
    BY <1>2, <1>6 DEF JobsInv, TypeOK
  <2> QED BY <1>6, <2>1 DEF RestTyped, JobsInv, TypeOK, authority, queue
<1>13. RanCharged' BY <1>6 DEF JobsInv, RanCharged
<1> QED BY <1>10, <1>11, <1>12, <1>13, Assembled

\* The steps of a worker slot keep the invariant.
LEMMA WorkerKeeps == ASSUME JobsInv, NEW w \in Workers, WorkerStep(w) PROVE JobsInv'
<1>1. CASE \E j \in Jobs : Claim(w, j) \/ ClaimLost(w, j) BY <1>1, ClaimKeeps
<1>2. CASE ExecuteCommit(w, {}, 0) BY <1>2, ExecuteCommitKeeps
<1>3. ASSUME NEW k \in Jobs, NEW d \in Delays, ExecuteCommit(w, {k}, d) PROVE JobsInv'
  <2>1. d \in Nat /\ {k} \subseteq Jobs BY LimitAssumption
  <2> QED BY <1>3, <2>1, ExecuteCommitKeeps
<1>4. CASE \E jitter \in Jitter : Fail(w, jitter) BY <1>4, FailKeeps
<1> QED BY <1>1, <1>2, <1>3, <1>4, LockReadyKeeps, LockSettleKeeps, AttemptOnlyKeeps
        DEF WorkerStep

-----------------------------------------------------------------------------
(* Captures, processes and time.                                           *)

\* The rows after a capture.
LEMMA RowInserted ==
    ASSUME JobsInv, NEW j \in Jobs, NEW d \in Nat, NEW parent \in Jobs \cup {NoJob},
           NEW R \in [Jobs -> Row], MayEnqueue(R, j, d),
           \A k \in Jobs : /\ Sound(rows[k], R[k])
                           /\ R[k].state = "succeeded" <=> rows[k].state = "succeeded",
           R[j] = rows[j], rows' = [R EXCEPT ![j] = Inserted(j, d, parent)],
           UNCHANGED <<now, authority, receipts>>
    PROVE  Follows
<1> DEFINE q == Inserted(j, d, parent)
<1>1. /\ q \in Row /\ RowSound(q, now) /\ Evolves(rows[j], q)
      /\ q.state = "pending" /\ q.gen = deployment /\ q.epoch = runtime.epoch
      /\ q.version = grants[ServiceOf[j]].version
  BY InsertedSound DEF JobsInv, RowsSound, MayEnqueue
<1> HIDE DEF q
<1>2. rows' \in [Jobs -> Row] /\ \A k \in Jobs : rows'[k] = IF k = j THEN q ELSE R[k]
  BY <1>1 DEF q
<1>3. rows[j].state = "none" /\ Granted(ServiceOf[j]) BY DEF MayEnqueue
<1>4. ASSUME NEW k \in Jobs
      PROVE  /\ RowSound(rows'[k], now) /\ Evolves(rows[k], rows'[k])
             /\ rows'[k].state = "succeeded" <=> rows[k].state = "succeeded"
             /\ rows'[k].state \in Live => (RuntimeBound /\ Authority(k))'
  <2>1. CASE k = j
    <3>1. (RuntimeBound /\ Authority(j))'
      BY <1>1, <1>2, <1>3 DEF Granted, RuntimeBound, Authority, authority
    <3> QED BY <1>1, <1>2, <1>3, <2>1, <3>1
  <2>2. CASE k # j
    <3>1. rows'[k] = R[k] /\ Sound(rows[k], R[k]) BY <1>2, <2>2
    <3>2. R[k].state \in Live => (RuntimeBound /\ Authority(k))'
      BY <3>1 DEF Sound, NotRevived, SameEnvelope, JobsInv, EnvelopeCurrent, RuntimeBound,
                  Authority, authority
    <3> QED BY <3>1, <3>2 DEF Sound
  <2> QED BY <2>1, <2>2
<1>5. ReceiptMeansSuccess' BY <1>4 DEF JobsInv, ReceiptMeansSuccess
<1> QED BY <1>2, <1>4, <1>5 DEF Follows, RowsSound, EnvelopeCurrent

\* Steps that leave workers and history alone.
LEMMA OtherStep ==
    ASSUME JobsInv, Follows, RestTyped', UNCHANGED <<workers, history>>
    PROVE  JobsInv'
<1>1. workers' \in [Workers -> Attempt] BY DEF JobsInv, TypeOK
<1>2. AttemptsSound' BY <1>1, WorkersKept
<1>3. RanCharged' BY DEF JobsInv, RanCharged, history
<1> QED BY <1>1, <1>2, <1>3, Assembled

\* A job is stored under the authority of the moment.
LEMMA EnqueueKeeps ==
    ASSUME JobsInv, NEW j \in Jobs, NEW d \in Delays, Enqueue(j, d) PROVE JobsInv'
<1>1. d \in Nat /\ rows \in [Jobs -> Row] BY LimitAssumption DEF JobsInv, TypeOK
<1>2. UNCHANGED <<now, authority, queue, receipts, hosts, workers, history, interruptions>>
      /\ MayEnqueue(rows, j, d) /\ rows' = [rows EXCEPT ![j] = Inserted(j, d, NoJob)]
  BY DEF Enqueue
<1>3. \A k \in Jobs : Sound(rows[k], rows[k])
  BY <1>1, SameSound DEF JobsInv, RowsSound
<1>4. Follows BY <1>1, <1>2, <1>3, RowInserted
<1>5. RestTyped'
  BY <1>2 DEF RestTyped, JobsInv, TypeOK, authority, queue, history
<1> QED BY <1>2, <1>4, <1>5, OtherStep

\* Processes come and go; a process that ends takes its attempts with it.
LEMMA HostKeeps ==
    ASSUME JobsInv, NEW h \in Hosts, HostStart(h) \/ HostExit(h) \/ HostRetire(h)
    PROVE  JobsInv'
<1>1. UNCHANGED <<now, authority, queue, rows, receipts, history>>
  BY DEF HostStart, HostExit, HostRetire
<1>2. now \in Nat BY DEF JobsInv, TypeOK
<1>3. Follows BY <1>1, <1>2, RowsUntouched
<1>4. RestTyped'
  <2>1. hosts' \in [Hosts -> [up : BOOLEAN, gen : Nat]]
    <3>1. hosts \in [Hosts -> [up : BOOLEAN, gen : Nat]] /\ deployment \in Nat
      BY DEF JobsInv, TypeOK
    <3>2. \/ hosts' = [hosts EXCEPT ![h] = [up |-> TRUE, gen |-> deployment]]
          \/ hosts' = [hosts EXCEPT ![h].up = FALSE]
      BY DEF HostStart, HostExit, HostRetire
    <3>3. CASE hosts' = [hosts EXCEPT ![h] = [up |-> TRUE, gen |-> deployment]]
      BY <3>1, <3>3
    <3>4. CASE hosts' = [hosts EXCEPT ![h].up = FALSE]
      <4> DEFINE q == [hosts[h] EXCEPT !.up = FALSE]
      <4>1. q \in [up : BOOLEAN, gen : Nat] BY <3>1
      <4>2. hosts' = [hosts EXCEPT ![h] = q] BY <3>4
      <4> HIDE DEF q
      <4> QED BY <3>1, <4>1, <4>2
    <3> QED BY <3>2, <3>3, <3>4
  <2>2. interruptions' \in 0 .. MaxInterruptions
    BY LimitsTyped DEF HostStart, HostExit, HostRetire, Interrupt, JobsInv, TypeOK
  <2> QED BY <1>1, <2>1, <2>2 DEF RestTyped, JobsInv, TypeOK, authority, queue, history
<1>5. /\ workers' \in [Workers -> Attempt]
      /\ \A w \in Workers : workers'[w] = workers[w] \/ workers'[w].phase = "idle"
  BY IdleAttempt DEF HostStart, HostExit, HostRetire, JobsInv, TypeOK
<1>6. AttemptsSound' BY <1>3, <1>5, WorkersKept
<1>7. RanCharged' BY <1>1 DEF JobsInv, RanCharged, history
<1> QED BY <1>3, <1>4, <1>5, <1>6, <1>7, Assembled

\* The durable clock moves on.
LEMMA TickKeeps == ASSUME JobsInv, Tick PROVE JobsInv'
<1>1. UNCHANGED <<authority, queue, rows, receipts, hosts, workers, history>>
      /\ now' = now + 1
  BY DEF Tick
<1>2. now \in Nat BY DEF JobsInv, TypeOK
<1>3. Follows BY <1>1, <1>2, RowsUntouched
<1>4. interruptions' \in 0 .. MaxInterruptions
  BY LimitsTyped DEF Tick, Interrupt, JobsInv, TypeOK
<1>5. RestTyped'
  BY <1>1, <1>2, <1>4 DEF RestTyped, JobsInv, TypeOK, authority, queue, history
<1> QED BY <1>1, <1>3, <1>5, OtherStep

-----------------------------------------------------------------------------
(* Commands and startup.  What changes the authority pauses, in the same   *)
(* transaction, every live row that the change would leave behind.         *)

\* The rows after a PAUSE_... statement: what is still live was not selected.
LEMMA PauseSound ==
    ASSUME JobsInv, NEW J, rows' = PauseOf(J)
    PROVE  /\ rows' \in [Jobs -> Row]
           /\ \A j \in Jobs :
                /\ Sound(rows[j], rows'[j])
                /\ rows[j].state = "succeeded" <=> rows'[j].state = "succeeded"
                /\ rows'[j].state \in Live => j \notin J /\ rows'[j] = rows[j]
<1>1. \A j \in Jobs : rows[j] \in Row /\ RowSound(rows[j], now)
  BY DEF JobsInv, TypeOK, RowsSound
<1>2. ASSUME NEW j \in Jobs
      PROVE  /\ Sound(rows[j], rows'[j])
             /\ rows[j].state = "succeeded" <=> rows'[j].state = "succeeded"
             /\ rows'[j].state \in Live => j \notin J /\ rows'[j] = rows[j]
  <2> DEFINE q == [rows[j] EXCEPT !.state = "paused", !.lease = 0]
  <2>1. rows'[j] = IF rows[j].state \in Live /\ j \in J THEN q ELSE rows[j]
    BY DEF PauseOf
  <2>2. rows[j].state # "none" => Sound(rows[j], q) /\ q.state = "paused"
    BY <1>1, WithdrawnSound
  <2>3. Sound(rows[j], rows[j]) BY <1>1, SameSound
  <2> HIDE DEF q
  <2> QED BY <2>1, <2>2, <2>3 DEF Live
<1>3. rows' \in [Jobs -> Row]
  <2>1. \A j \in Jobs : rows'[j] \in Row BY <1>2 DEF Sound
  <2> QED BY <2>1 DEF PauseOf
<1> QED BY <1>2, <1>3

\* Rows that were paused follow once the authority covers the live ones.
LEMMA PauseFollows ==
    ASSUME JobsInv, NEW J, rows' = PauseOf(J), UNCHANGED <<now, receipts>>,
           EnvelopeCurrent'
    PROVE  Follows
<1>1. /\ rows' \in [Jobs -> Row]
      /\ \A j \in Jobs :
           /\ Sound(rows[j], rows'[j])
           /\ rows[j].state = "succeeded" <=> rows'[j].state = "succeeded"
  BY PauseSound
<1>2. ReceiptMeansSuccess' BY <1>1 DEF JobsInv, ReceiptMeansSuccess
<1> QED BY <1>1, <1>2 DEF Follows, RowsSound, Sound

\* Revoking or granting one service pauses its live rows; the envelopes of the
\* others compare with what did not change, and a runtime that was paused has no
\* live rows.
LEMMA ServiceKeeps ==
    ASSUME JobsInv, NEW s \in Services, Revoke(s) \/ GrantService(s)
    PROVE  JobsInv'
<1>1. /\ rows' = PauseOf(JobsOf(s))
      /\ UNCHANGED <<now, deployment, queue, receipts, hosts, workers, history, interruptions>>
      /\ runtime' = runtime \/ runtime' = [runtime EXCEPT !.state = "active"]
      /\ \A b \in Services \ {s} : grants'[b] = grants[b]
  BY DEF Revoke, GrantService, Operator, JobsInv, TypeOK
<1>2. grants' \in [Services -> Grant]
      /\ runtime' \in [gen : Nat, epoch : Nat, state : {"active", "paused"}]
  BY DEF Revoke, GrantService, JobsInv, TypeOK, Grant
<1>3. EnvelopeCurrent'
  <2> SUFFICES ASSUME NEW j \in Jobs, rows'[j].state \in Live
               PROVE  (RuntimeBound /\ Authority(j))'
    BY DEF EnvelopeCurrent
  <2>1. j \notin JobsOf(s) /\ rows'[j] = rows[j] BY <1>1, PauseSound
  <2>2. RuntimeBound /\ Authority(j) BY <2>1 DEF JobsInv, EnvelopeCurrent
  <2>3. rows[j].gen = deployment BY <2>2 DEF RuntimeBound, Authority
  <2>4. ServiceOf[j] \in Services \ {s} BY <2>1, <2>3, MapAssumption DEF JobsOf
  <2>5. grants'[ServiceOf[j]] = grants[ServiceOf[j]] BY <1>1, <2>4
  <2>6. runtime' = runtime
    BY <1>1, <2>2 DEF Authority, JobsInv, TypeOK
  <2> QED BY <1>1, <2>1, <2>2, <2>5, <2>6 DEF RuntimeBound, Authority
<1>4. Follows BY <1>1, <1>3, PauseFollows
<1>5. RestTyped' BY <1>1, <1>2 DEF RestTyped, JobsInv, TypeOK, queue, history
<1> QED BY <1>1, <1>4, <1>5, OtherStep

\* Ending a pause by an effect grant: a paused runtime has no live rows.
LEMMA GrantEffectKeeps == ASSUME JobsInv, GrantEffect PROVE JobsInv'
<1>1. /\ runtime.state = "paused" /\ runtime' = [runtime EXCEPT !.state = "active"]
      /\ UNCHANGED <<now, deployment, grants, queue, rows, receipts, hosts, workers,
                     history, interruptions>>
  BY DEF GrantEffect, Operator
<1>2. \A j \in Jobs : rows[j].state \notin Live
  BY <1>1 DEF JobsInv, EnvelopeCurrent, Authority
<1>3. EnvelopeCurrent' BY <1>1, <1>2 DEF EnvelopeCurrent
<1>4. rows' = PauseOf({})
  <2>1. rows \in [Jobs -> Row] BY DEF JobsInv, TypeOK
  <2> QED BY <1>1, <2>1 DEF PauseOf
<1>5. Follows BY <1>1, <1>3, <1>4, PauseFollows
<1>6. runtime' \in [gen : Nat, epoch : Nat, state : {"active", "paused"}]
  BY <1>1 DEF JobsInv, TypeOK
<1>7. RestTyped' BY <1>1, <1>6 DEF RestTyped, JobsInv, TypeOK, queue, history
<1> QED BY <1>1, <1>5, <1>7, OtherStep

\* A rejected source, and the row that may replace it.
LEMMA RejectedSound ==
    ASSUME JobsInv, NEW j \in Jobs, rows[j].state \notin {"none", "succeeded"}
    PROVE  Sound(rows[j], Rejected(rows[j])) /\ Rejected(rows[j]).state = "rejected"
<1>1. rows[j] \in Row /\ RowSound(rows[j], now) BY DEF JobsInv, TypeOK, RowsSound
<1> QED BY <1>1, WithdrawnSound DEF Rejected

\* A cancelled job is live no more.
LEMMA CancelKeeps == ASSUME JobsInv, NEW j \in Jobs, Cancel(j) PROVE JobsInv'
<1>1. /\ rows' = [rows EXCEPT ![j] = Rejected(rows[j])]
      /\ UNCHANGED <<now, deployment, runtime, grants, queue, receipts, hosts, workers,
                     history, interruptions>>
      /\ rows[j].state \notin {"none", "succeeded"}
  BY DEF Cancel, Operator, Cancellable
<1>2. Sound(rows[j], Rejected(rows[j])) /\ Rejected(rows[j]).state = "rejected"
  BY <1>1, RejectedSound
<1>3. UNCHANGED <<now, authority, receipts>> BY <1>1 DEF authority
<1>4. Follows BY <1>1, <1>2, <1>3, RowMoved
<1>5. RestTyped' BY <1>1 DEF RestTyped, JobsInv, TypeOK, queue, history
<1> QED BY <1>1, <1>4, <1>5, OtherStep

\* A reconciliation ends jobs and puts others in their places.
LEMMA ReconcileKeeps ==
    ASSUME JobsInv, NEW j \in Jobs, NEW k \in Jobs, Reconcile(j, k) PROVE JobsInv'
<1> DEFINE R == [rows EXCEPT ![j] = Rejected(rows[j])]
<1>1. /\ rows' = [R EXCEPT ![k] = Inserted(k, 0, j)] /\ MayEnqueue(R, k, 0)
      /\ UNCHANGED <<now, deployment, runtime, grants, queue, receipts, hosts, workers,
                     history, interruptions>>
      /\ rows[j].state \notin {"none", "succeeded"}
  BY DEF Reconcile, Operator
<1>2. Sound(rows[j], Rejected(rows[j])) /\ Rejected(rows[j]).state = "rejected"
  BY <1>1, RejectedSound
<1>3. /\ rows \in [Jobs -> Row] /\ R \in [Jobs -> Row]
      /\ \A i \in Jobs : R[i] = IF i = j THEN Rejected(rows[j]) ELSE rows[i]
  BY <1>2 DEF JobsInv, TypeOK, Sound
<1> HIDE DEF R
<1>4. \A i \in Jobs : /\ Sound(rows[i], R[i])
                      /\ R[i].state = "succeeded" <=> rows[i].state = "succeeded"
  <2>1. \A i \in Jobs : Sound(rows[i], rows[i])
    BY <1>3, SameSound DEF JobsInv, RowsSound
  <2> QED BY <1>1, <1>2, <1>3, <2>1
<1>5. R[k] = rows[k] /\ UNCHANGED <<now, authority, receipts>>
  <2>1. R[k].state = "none" BY <1>1 DEF MayEnqueue
  <2> QED BY <1>1, <1>2, <1>3, <2>1 DEF authority
<1>6. Follows BY <1>1, <1>3, <1>4, <1>5, RowInserted
<1>7. RestTyped' BY <1>1 DEF RestTyped, JobsInv, TypeOK, queue, history
<1> QED BY <1>1, <1>6, <1>7, OtherStep

\* A new epoch or a new generation leaves nothing live.
LEMMA EpochKeeps ==
    ASSUME JobsInv, Fork \/ RecoverClock \/ \E g \in {deployment, deployment + 1} : Activate(g)
    PROVE  JobsInv'
<1>1. /\ rows' = PauseOf(Jobs)
      /\ UNCHANGED <<now, seq, receipts, hosts, workers, history, interruptions>>
  BY DEF Fork, RecoverClock, Activate, Operator, NewEpoch, queue
<1>2. \A j \in Jobs : rows'[j].state \notin Live BY <1>1, PauseSound
<1>3. Follows BY <1>1, <1>2, PauseFollows DEF EnvelopeCurrent
<1>t. /\ deployment \in Nat /\ tenantSeq \in [Tenants -> Nat]
      /\ runtime \in [gen : Nat, epoch : Nat, state : {"active", "paused"}]
      /\ grants \in [Services -> Grant]
      /\ \A s \in Services : grants[s] \in Grant
  BY DEF JobsInv, TypeOK
<1>4. deployment' \in Nat /\ tenantSeq' \in [Tenants -> Nat]
      /\ runtime' \in [gen : Nat, epoch : Nat, state : {"active", "paused"}]
  <2>1. CASE Fork \/ RecoverClock
    <3> DEFINE e == runtime.epoch + 1
    <3>1. /\ deployment' = deployment \/ deployment' = deployment + 1
          /\ tenantSeq' = tenantSeq
          /\ runtime' = [runtime EXCEPT !.epoch = e, !.state = "paused"]
      BY <2>1 DEF Fork, RecoverClock, Operator, NewEpoch, queue
    <3>2. e \in Nat BY <1>t
    <3>3. deployment' \in Nat /\ tenantSeq' \in [Tenants -> Nat] BY <1>t, <3>1
    <3> HIDE DEF e
    <3>4. runtime' \in [gen : Nat, epoch : Nat, state : {"active", "paused"}]
      BY <1>t, <3>1, <3>2
    <3> QED BY <3>3, <3>4
  <2>2. ASSUME NEW g \in {deployment, deployment + 1}, Activate(g)
        PROVE  /\ deployment' \in Nat /\ tenantSeq' \in [Tenants -> Nat]
               /\ runtime' \in [gen : Nat, epoch : Nat, state : {"active", "paused"}]
    <3> DEFINE e == runtime.epoch + 1
    <3>1. /\ deployment' = g
          /\ tenantSeq' = [t \in Tenants |-> 0]
          /\ runtime' = [runtime EXCEPT !.gen = g, !.epoch = e]
      BY <2>2 DEF Activate
    <3>2. e \in Nat /\ g \in Nat BY <1>t
    <3>3. deployment' \in Nat /\ tenantSeq' \in [Tenants -> Nat] BY <3>1, <3>2
    <3> HIDE DEF e
    <3>4. runtime' \in [gen : Nat, epoch : Nat, state : {"active", "paused"}]
      BY <1>t, <3>1, <3>2
    <3> QED BY <3>3, <3>4
  <2> QED BY <2>1, <2>2
<1>5. grants' \in [Services -> Grant]
  <2>1. CASE Fork \/ RecoverClock
    <3>1. ASSUME NEW s \in Services
          PROVE  /\ [grants[s] EXCEPT !.state = "revoked"] \in Grant
                 /\ [grants[s] EXCEPT !.state = "revoked",
                                      !.version = grants[s].version + 1] \in Grant
      <4>1. grants[s].version + 1 \in Nat BY <1>t DEF Grant
      <4>2. grants[s] \in Grant BY <1>t
      <4> QED BY <4>1, <4>2 DEF Grant
    <3>2. CASE Fork BY <1>t, <3>1, <3>2 DEF Fork
    <3>3. CASE RecoverClock BY <1>t, <3>1, <3>3 DEF RecoverClock
    <3> QED BY <2>1, <3>2, <3>3
  <2>2. ASSUME NEW g \in {deployment, deployment + 1}, Activate(g)
        PROVE  grants' \in [Services -> Grant]
    <3>1. runtime.epoch + 1 \in Nat BY <1>t
    <3> QED BY <2>2, <3>1 DEF Activate, Grant
  <2> QED BY <2>1, <2>2
<1>6. RestTyped' BY <1>1, <1>4, <1>5 DEF RestTyped, JobsInv, TypeOK, history
<1> QED BY <1>1, <1>3, <1>6, OtherStep

-----------------------------------------------------------------------------
\* Initially nothing is stored.
LEMMA InitJobs == ASSUME Init PROVE JobsInv
<1>1. NoRow \in Row /\ NoRow.state = "none" /\ NoRow.fence = 0 /\ NoRow.attempts = 0
      /\ NoRow.lease = 0
  BY LimitAssumption DEF NoRow, Row, States
<1>2. TypeOK
  <2>1. /\ now = 1 /\ deployment = 1 /\ seq = 0 /\ interruptions = 0 /\ receipts = {}
        /\ runtime \in [gen : Nat, epoch : Nat, state : {"active", "paused"}]
        /\ grants \in [Services -> Grant] /\ tenantSeq \in [Tenants -> Nat]
        /\ hosts \in [Hosts -> [up : BOOLEAN, gen : Nat]]
        /\ mutations \in [Jobs -> Nat] /\ ran \in [Jobs -> SUBSET Nat]
    BY DEF Init, Grant
  <2>2. rows \in [Jobs -> Row] /\ workers \in [Workers -> Attempt]
    BY <1>1, IdleAttempt DEF Init
  <2> QED BY <2>1, <2>2, LimitAssumption DEF TypeOK
<1>3. \A j \in Jobs : rows[j] = NoRow BY DEF Init
<1>4. RowsSound
  <2>1. RowSound(NoRow, now) BY <1>1, LimitAssumption DEF RowSound, Charged
  <2> QED BY <1>3, <2>1 DEF RowsSound
<1>5. AttemptsSound BY IdleAttempt DEF Init, AttemptsSound
<1>6. ReceiptMeansSuccess BY <1>1, <1>3 DEF Init, ReceiptMeansSuccess
<1>7. EnvelopeCurrent BY <1>1, <1>3 DEF EnvelopeCurrent, Live
<1>8. RanCharged BY DEF Init, RanCharged
<1> QED BY <1>2, <1>4, <1>5, <1>6, <1>7, <1>8 DEF JobsInv

\* Every step keeps the invariant.
LEMMA StepJobs == ASSUME JobsInv, [Next]_vars PROVE JobsInv'
<1>1. CASE UNCHANGED vars
  <2>1. now \in Nat BY DEF JobsInv, TypeOK
  <2>2. UNCHANGED <<now, authority, queue, rows, receipts, hosts, workers, history,
                    interruptions>>
    BY <1>1 DEF vars, authority, queue, history
  <2>3. Follows BY <2>1, <2>2, RowsUntouched
  <2>4. RestTyped' BY <2>2 DEF RestTyped, JobsInv, TypeOK, authority, queue, history
  <2> QED BY <2>2, <2>3, <2>4, OtherStep
<1>2. CASE OperatorStep
  BY <1>2, ServiceKeeps, GrantEffectKeeps, CancelKeeps, ReconcileKeeps, EpochKeeps
  DEF OperatorStep
<1>3. CASE StartupStep BY <1>3, EpochKeeps DEF StartupStep
<1> QED BY <1>1, <1>2, <1>3, EnqueueKeeps, WorkerKeeps, HostKeeps, TickKeeps DEF Next

\* The invariant holds in every reachable state.
LEMMA JobsAlways == Spec => []JobsInv
<1>1. Init => JobsInv BY InitJobs
<1>2. JobsInv /\ [Next]_vars => JobsInv' BY StepJobs
<1> QED BY <1>1, <1>2, PTL DEF Spec

\* Every stored row can be read again, by its worker and by the recovery by
\* receipt: the shape QueueContext::row asserts, a worker that holds its row finds
\* its own lease, and a receipt exists exactly for the jobs that succeeded.
THEOREM EveryRowReadable == Spec => []StoredSound
<1>1. JobsInv => StoredSound
  <2> SUFFICES ASSUME JobsInv PROVE StoredSound OBVIOUS
  <2>1. TypeOK /\ ReceiptMeansSuccess BY DEF JobsInv
  <2>2. ASSUME NEW j \in Jobs
        PROVE  /\ rows[j].state # "none" => rows[j].eligible >= rows[j].first
               /\ rows[j].state = "running" =>
                     rows[j].lease > 0 /\ rows[j].fence > 0 /\ rows[j].attempts > 0
               /\ rows[j].state = "pending" => rows[j].attempts < MaxAttempts
               /\ rows[j].state # "running" => rows[j].lease = 0
    <3>1. rows[j] \in Row /\ RowSound(rows[j], now) BY <2>1 DEF JobsInv, RowsSound, TypeOK
    <3> QED BY <3>1, LimitAssumption DEF RowSound, Charged, Row
  <2>3. \A w \in Workers :
          workers[w].phase # "idle" /\ Holds(w) => RowAt(w).lease = workers[w].lease
    BY ClaimedRow DEF Holds, AttemptSound
  <2> QED BY <2>1, <2>2, <2>3 DEF StoredSound, StoredShape
<1> QED BY <1>1, JobsAlways, PTL

\* A pending or running job always carries the authority that is current: no claim
\* and no open execution transaction can meet a stale envelope, whichever command
\* or restart interleaves.
THEOREM EnvelopesStayCurrent == Spec => []EnvelopeCurrent
<1>1. JobsInv => EnvelopeCurrent BY DEF JobsInv
<1> QED BY <1>1, JobsAlways, PTL

\* "At most five attempts": an action that ran did so under a fence within the
\* allowance, so no job is executed under more than MaxAttempts claims.
THEOREM AttemptsWithinAllowance == Spec => []AttemptsBounded
<1>1. JobsInv => AttemptsBounded
  <2> SUFFICES ASSUME JobsInv, NEW j \in Jobs PROVE Cardinality(ran[j]) <= MaxAttempts
    BY DEF AttemptsBounded
  <2>1. ran[j] \subseteq 1 .. MaxAttempts BY DEF JobsInv, RanCharged
  <2>2. 1 \in Int /\ MaxAttempts \in Int /\ MaxAttempts - 1 + 1 = MaxAttempts
        /\ 1 <= MaxAttempts
    BY LimitAssumption
  <2>3. IsFiniteSet(1 .. MaxAttempts) /\ Cardinality(1 .. MaxAttempts) = MaxAttempts
    BY <2>2, FS_Interval
  <2> QED BY <2>1, <2>3, FS_Subset
<1> QED BY <1>1, JobsAlways, PTL

-----------------------------------------------------------------------------
(* The promise.  What the queue does to a job is one of the moves of       *)
(* JobLifecycle, or nothing that it sees.                                  *)

status == [j \in Jobs |-> Status(rows[j])]

Moves == [Lifecycle!Next]_<<status, mutations>>

\* The status of a row, state by state.
LEMMA StatusOf ==
    ASSUME NEW r, r.state \in States
    PROVE  /\ r.state \in Live => Status(r) = "queued"
           /\ r.state = "paused" => Status(r) = "held"
           /\ r.state \notin Live \cup {"paused"} => Status(r) = r.state
BY DEF Status, Live, States

\* Every row is typed, and so is its state.
LEMMA StatesOfRows ==
    ASSUME JobsInv PROVE rows \in [Jobs -> Row] /\ \A j \in Jobs : rows[j].state \in States
BY DEF JobsInv, TypeOK, Row

\* Rows with the statuses they had, and no new mutation, are no move.
LEMMA NoMove ==
    ASSUME \A j \in Jobs : Status(rows'[j]) = Status(rows[j]), mutations' = mutations
    PROVE  Moves
<1>1. status' = status BY DEF status
<1> QED BY <1>1 DEF Moves

\* A job whose row is replaced moves as the promise allows; its mutation is not
\* committed here.
LEMMA OneMove ==
    ASSUME JobsInv, NEW j \in Jobs, NEW r, rows' = [rows EXCEPT ![j] = r],
           mutations' = mutations,
           LET old == Status(rows[j])  new == Status(r) IN
           \/ new = old
           \/ old = "none" /\ new = "queued"
           \/ old = "queued" /\ new \in {"held", "dead"}
           \/ old \in {"queued", "held", "dead"} /\ new = "rejected"
    PROVE  Moves
<1>1. status' = [status EXCEPT ![j] = Status(r)]
  <2>1. \A k \in Jobs : rows'[k] = IF k = j THEN r ELSE rows[k] BY StatesOfRows
  <2>2. \A k \in Jobs : Status(rows'[k]) = IF k = j THEN Status(r) ELSE Status(rows[k])
    BY <2>1
  <2> QED BY <2>2 DEF status
<1>2. status[j] = Status(rows[j]) /\ UNCHANGED mutations BY DEF status
<1>3. CASE Status(r) = Status(rows[j])
  <2>1. status' = status BY <1>1, <1>2, <1>3 DEF status
  <2> QED BY <1>2, <2>1 DEF Moves
<1>4. CASE Status(rows[j]) = "none" /\ Status(r) = "queued"
  <2>1. Lifecycle!Capture(j) BY <1>1, <1>2, <1>4 DEF Lifecycle!Capture, status
  <2> QED BY <2>1 DEF Moves, Lifecycle!Next
<1>5. CASE Status(rows[j]) = "queued" /\ Status(r) = "held"
  <2>1. Lifecycle!Hold({j}) BY <1>1, <1>2, <1>5 DEF Lifecycle!Hold, status
  <2> QED BY <2>1 DEF Moves, Lifecycle!Next
<1>6. CASE Status(rows[j]) = "queued" /\ Status(r) = "dead"
  <2>1. Lifecycle!GiveUp(j) BY <1>1, <1>2, <1>6 DEF Lifecycle!GiveUp, status
  <2> QED BY <2>1 DEF Moves, Lifecycle!Next
<1>7. CASE Status(rows[j]) \in {"queued", "held", "dead"} /\ Status(r) = "rejected"
  <2>1. Lifecycle!Reject(j) BY <1>1, <1>2, <1>7 DEF Lifecycle!Reject, status
  <2> QED BY <2>1 DEF Moves, Lifecycle!Next
<1> QED BY <1>3, <1>4, <1>5, <1>6, <1>7

\* A pause holds the queued jobs it selects.
LEMMA PauseMoves ==
    ASSUME JobsInv, NEW J, rows' = PauseOf(J), mutations' = mutations PROVE Moves
<1> DEFINE H == {j \in Jobs : rows[j].state \in Live /\ j \in J}
<1>1. ASSUME NEW j \in Jobs
      PROVE  Status(rows'[j]) = IF j \in H THEN "held" ELSE Status(rows[j])
  <2>1. CASE j \in H
    <3>1. rows'[j].state = "paused"
      <4>1. rows'[j] = [rows[j] EXCEPT !.state = "paused", !.lease = 0]
        BY <2>1 DEF PauseOf
      <4>2. rows[j] \in Row BY StatesOfRows
      <4> QED BY <4>1, <4>2 DEF Row
    <3> QED BY <2>1, <3>1, StatusOf DEF States
  <2>2. CASE j \notin H
    <3>1. rows'[j] = rows[j] BY <2>2 DEF PauseOf
    <3> QED BY <2>2, <3>1
  <2> QED BY <2>1, <2>2
<1>2. status' = [j \in Jobs |-> IF j \in H THEN "held" ELSE status[j]]
  BY <1>1 DEF status
<1>3. \A j \in H : status[j] = "queued" BY StatesOfRows, StatusOf DEF status
<1>4. Lifecycle!Hold(H) BY <1>2, <1>3 DEF Lifecycle!Hold, status
<1>5. H \in SUBSET Jobs OBVIOUS
<1> QED BY <1>4, <1>5 DEF Moves, Lifecycle!Next

\* A commit is the success of the one job and the capture of its follow-ups.
LEMMA CommitMoves ==
    ASSUME JobsInv, NEW w \in Workers, NEW K, K \subseteq Jobs, NEW d,
           ExecuteCommit(w, K, d)
    PROVE  Moves
<1> DEFINE j == JobAt(w)
<1>1. /\ j \in Jobs /\ rows[j] \in Row /\ rows[j].state = "running"
      /\ \A k \in K : rows[k].state = "none"
  BY ClaimedRow, HeldNoReceipt DEF ExecuteCommit, MayEnqueue
<1>2. /\ mutations' = [mutations EXCEPT ![j] = @ + 1]
      /\ rows' = [k \in Jobs |->
                   IF k = j THEN Settled(rows[j], "succeeded", rows[j].lease)
                   ELSE IF k \in K THEN Inserted(k, d, NoJob) ELSE rows[k]]
  BY DEF ExecuteCommit
<1>3. Settled(rows[j], "succeeded", rows[j].lease).state = "succeeded"
  BY <1>1 DEF Settled, Row
<1>4. \A k : Inserted(k, d, NoJob).state = "pending" BY DEF Inserted, NoRow
<1> HIDE DEF j
<1>5. ASSUME NEW k \in Jobs
      PROVE  Status(rows'[k]) = IF k = j THEN "succeeded"
                                ELSE IF k \in K THEN "queued" ELSE Status(rows[k])
  <2>1. /\ k = j => rows'[k].state = "succeeded"
        /\ k # j /\ k \in K => rows'[k].state = "pending"
        /\ k # j /\ k \notin K => rows'[k] = rows[k]
    BY <1>2, <1>3, <1>4
  <2> QED BY <2>1, StatusOf DEF States, Live
<1>6. status' = [k \in Jobs |-> IF k = j THEN "succeeded"
                                ELSE IF k \in K THEN "queued" ELSE status[k]]
  BY <1>5 DEF status
<1>7. status[j] = "queued" /\ \A k \in K : status[k] = "none"
  BY <1>1, StatesOfRows, StatusOf DEF status, Live
<1>8. Lifecycle!Succeed(j, K) BY <1>2, <1>6, <1>7 DEF Lifecycle!Succeed, status
<1>9. K \in SUBSET (Jobs \ {j}) BY <1>1
<1> QED BY <1>1, <1>8, <1>9 DEF Moves, Lifecycle!Next

\* A reconciliation replaces a job that was held, dead or rejected.
LEMMA ReconcileMoves ==
    ASSUME JobsInv, NEW j \in Jobs, NEW k \in Jobs, Reconcile(j, k) PROVE Moves
<1> DEFINE R == [rows EXCEPT ![j] = Rejected(rows[j])]
<1>1. /\ rows' = [R EXCEPT ![k] = Inserted(k, 0, j)] /\ R[k].state = "none"
      /\ mutations' = mutations /\ rows[j].state \in {"paused", "dead", "rejected"}
  BY DEF Reconcile, Operator, MayEnqueue, history
<1>2. Rejected(rows[j]).state = "rejected" /\ Inserted(k, 0, j).state = "pending"
  BY StatesOfRows DEF Rejected, Row, Inserted, NoRow
<1>3. /\ \A i \in Jobs : R[i] = IF i = j THEN Rejected(rows[j]) ELSE rows[i]
      /\ R \in [Jobs -> {R[i] : i \in Jobs}]
  BY StatesOfRows
<1> HIDE DEF R
<1>4. k # j /\ rows[k].state = "none" BY <1>1, <1>2, <1>3
<1>5. ASSUME NEW i \in Jobs
      PROVE  Status(rows'[i]) = IF i = k THEN "queued" ELSE IF i = j THEN "rejected"
                                ELSE Status(rows[i])
  <2>1. /\ i = k => rows'[i].state = "pending"
        /\ i = j => rows'[i].state = "rejected"
        /\ i \notin {j, k} => rows'[i] = rows[i]
    BY <1>1, <1>2, <1>3, <1>4
  <2> QED BY <1>4, <2>1, StatusOf DEF States, Live
<1>6. status' = [status EXCEPT ![j] = "rejected", ![k] = "queued"]
  BY <1>4, <1>5 DEF status
<1>7. status[j] \in {"held", "dead", "rejected"} /\ status[k] = "none"
  BY <1>1, <1>4, StatesOfRows, StatusOf DEF status, Live
<1>8. Lifecycle!Replace(j, k) BY <1>1, <1>6, <1>7 DEF Lifecycle!Replace, status
<1> QED BY <1>4, <1>8 DEF Moves, Lifecycle!Next

\* The worker steps.  A late worker settles nothing: only a row that runs under its
\* own claim leaves the queue.
LEMMA WorkerMoves ==
    ASSUME JobsInv, NEW w \in Workers, WorkerStep(w) PROVE Moves
<1>t. rows \in [Jobs -> Row] /\ \A j \in Jobs : rows[j].state \in States
  BY StatesOfRows
<1>n. rows' = rows /\ mutations' = mutations => Moves BY NoMove
<1>q. ASSUME NEW r, r.state \in Live PROVE Status(r) = "queued"
  BY <1>q, StatusOf DEF Live, States
<1>r. ASSUME NEW r, NEW q, q.state \in States \ {"none", "succeeded"}, r.state = "running"
      PROVE  Status(r) = "queued" /\ Status(q) \in {"queued", "held", "dead", "rejected"}
  BY <1>r, StatusOf DEF Live, States
<1>1. ASSUME NEW j \in Jobs, Claim(w, j) \/ ClaimLost(w, j) PROVE Moves
  <2>1. /\ rows' = [rows EXCEPT ![j] = Claimed(rows[j])] /\ mutations' = mutations
        /\ rows[j].state \in Live
    BY <1>1 DEF Claim, ClaimLost, ClaimTx, NextClaimable, Claimable, Live, history
  <2>2. Claimed(rows[j]).state \in Live
    <3>1. rows[j] \in Row BY <1>t
    <3> QED BY <3>1 DEF Claimed, Row, Live
  <2>3. Status(Claimed(rows[j])) = Status(rows[j]) BY <1>q, <2>1, <2>2
  <2> QED BY <2>1, <2>3, OneMove
<1>2. CASE LockSettle(w)
  <2>1. workers[w].phase # "idle" /\ mutations' = mutations
    BY <1>2 DEF LockSettle, history
  <2>2. CASE Holds(w)
    <3>1. rows' = [rows EXCEPT ![JobAt(w)] = LockedRow(w)] BY <1>2, <2>2 DEF LockSettle
    <3>2. JobAt(w) \in Jobs /\ rows[JobAt(w)].state = "running"
          /\ Sound(RowAt(w), LockedRow(w)) /\ LockedRow(w).state # "succeeded"
      BY <2>1, <2>2, ClaimedRow, HeldNoReceipt, LockedSound
    <3>3. LockedRow(w).state \in States \ {"none", "succeeded"}
      BY <2>1, <3>2, ClaimedRow DEF Sound, Evolves, Row
    <3> QED BY <1>r, <2>1, <3>1, <3>2, <3>3, OneMove
  <2> QED BY <1>2, <1>n, <2>1, <2>2 DEF LockSettle
<1>3. ASSUME NEW jitter \in Jitter, Fail(w, jitter) PROVE Moves
  <2>1. workers[w].phase = "failing" /\ workers[w].phase # "idle" /\ mutations' = mutations
    BY <1>3 DEF Fail, history
  <2>2. CASE Holds(w)
    <3>1. rows' = [rows EXCEPT ![JobAt(w)] = FailedRow(w, jitter)] BY <1>3, <2>2 DEF Fail
    <3>2. JobAt(w) \in Jobs /\ rows[JobAt(w)].state = "running"
          /\ Sound(RowAt(w), FailedRow(w, jitter)) /\ FailedRow(w, jitter).state # "succeeded"
      BY <2>1, <2>2, ClaimedRow, HeldNoReceipt, FailedSound
    <3>3. FailedRow(w, jitter).state \in States \ {"none", "succeeded"}
      BY <2>1, <3>2, ClaimedRow DEF Sound, Evolves, Row
    <3> QED BY <1>r, <2>1, <3>1, <3>2, <3>3, OneMove
  <2> QED BY <1>3, <1>n, <2>1, <2>2 DEF Fail
<1>4. CASE ExecuteCommit(w, {}, 0) BY <1>4, CommitMoves
<1>5. ASSUME NEW k \in Jobs, NEW d \in Delays, ExecuteCommit(w, {k}, d) PROVE Moves
  <2>1. {k} \subseteq Jobs OBVIOUS
  <2> QED BY <1>5, <2>1, CommitMoves
<1>6. CASE \/ LockReady(w) \/ LockFail(w) \/ FailLost(w)
           \/ ExecuteAbort(w) \/ ExecuteReject(w) \/ ExecuteError(w)
  BY <1>6, <1>n DEF LockReady, LockFail, FailLost, ExecuteAbort, ExecuteReject,
     ExecuteError, history
<1> QED BY <1>1, <1>2, <1>3, <1>4, <1>5, <1>6 DEF WorkerStep

\* Every step is a move of the promise, or none.
LEMMA StepMoves == ASSUME JobsInv, [Next]_vars PROVE Moves
<1>t. rows \in [Jobs -> Row] /\ \A j \in Jobs : rows[j].state \in States
  BY StatesOfRows
<1>n. rows' = rows /\ mutations' = mutations => Moves BY NoMove
<1>1. ASSUME NEW j \in Jobs, NEW d \in Delays, Enqueue(j, d) PROVE Moves
  <2> DEFINE q == Inserted(j, d, NoJob)
  <2>1. rows' = [rows EXCEPT ![j] = q] /\ mutations' = mutations /\ rows[j].state = "none"
    BY <1>1 DEF Enqueue, MayEnqueue, history
  <2>2. q.state = "pending" BY DEF Inserted, NoRow
  <2> HIDE DEF q
  <2>3. Status(q) = "queued" /\ Status(rows[j]) = "none"
    BY <1>t, <2>1, <2>2, StatusOf DEF States, Live
  <2> QED BY <2>1, <2>3, OneMove
<1>2. ASSUME NEW j \in Jobs, Cancel(j) PROVE Moves
  <2>1. /\ rows' = [rows EXCEPT ![j] = Rejected(rows[j])] /\ mutations' = mutations
        /\ rows[j].state \in Cancellable
    BY <1>2 DEF Cancel, Operator, history
  <2>2. Rejected(rows[j]).state = "rejected" BY <1>t DEF Rejected, Row
  <2>3. Status(Rejected(rows[j])) = "rejected" BY <2>2, StatusOf DEF States, Live
  <2>4. Status(rows[j]) \in {"queued", "held", "dead"}
    BY <1>t, <2>1, StatusOf DEF Cancellable, Live
  <2> QED BY <2>1, <2>3, <2>4, OneMove
<1>3. CASE \/ \E s \in Services : Revoke(s) \/ GrantService(s)
           \/ GrantEffect \/ Fork \/ StartupStep
  <2>1. mutations' = mutations /\ (rows' = rows \/ \E J : rows' = PauseOf(J))
    BY <1>3 DEF Revoke, GrantService, GrantEffect, Fork, StartupStep, RecoverClock,
       Activate, Operator, NewEpoch, history
  <2> QED BY <1>n, <2>1, PauseMoves
<1>4. CASE \/ Tick \/ UNCHANGED vars
           \/ \E h \in Hosts : HostStart(h) \/ HostExit(h) \/ HostRetire(h)
  BY <1>4, <1>n DEF Tick, HostStart, HostExit, HostRetire, vars, history
<1> QED BY <1>1, <1>2, <1>3, <1>4, WorkerMoves, ReconcileMoves DEF Next, OperatorStep

\* The queue implements its promise: a mutation is committed once and only from the
\* queue, and a job that was held, rejected, given up or done is not brought back by
\* a late worker, an expired claim or a restart.
THEOREM JobsImplementLifecycle == Spec => JobLifecycleSpec
<1>1. Init => Lifecycle!Init
  <2> SUFFICES ASSUME Init PROVE Lifecycle!Init OBVIOUS
  <2>1. Status(NoRow) = "none"
    <3>1. NoRow.state = "none" BY DEF NoRow
    <3> QED BY <3>1, StatusOf DEF States, Live
  <2>2. [j \in Jobs |-> Status(rows[j])] = [j \in Jobs |-> "none"] BY <2>1 DEF Init
  <2> QED BY <2>2 DEF Lifecycle!Init, Init
<1>2. JobsInv /\ [Next]_vars => [Lifecycle!Next]_<<status, mutations>>
  BY StepMoves DEF Moves
<1> QED BY <1>1, <1>2, JobsAlways, PTL DEF Spec, JobLifecycleSpec, Lifecycle!Spec, status

-----------------------------------------------------------------------------
(* Counting: concurrency and the limits.  Counts need the counted rows to  *)
(* be finitely many, even where the jobs that may ever be captured are     *)
(* not.                                                                    *)

\* A set that grew by at most one element.
LEMMA AtMostOneMore ==
    ASSUME NEW S, NEW T, NEW x, IsFiniteSet(S), T \subseteq S \cup {x}
    PROVE  /\ IsFiniteSet(T)
           /\ Cardinality(S) \in Nat /\ Cardinality(T) \in Nat
           /\ Cardinality(T) <= Cardinality(S) + 1
<1>1. IsFiniteSet(S \cup {x}) /\ Cardinality(S \cup {x}) <= Cardinality(S) + 1
      /\ Cardinality(S) \in Nat
  BY FS_AddElement, FS_CardinalityType
<1>2. IsFiniteSet(T) /\ Cardinality(T) <= Cardinality(S \cup {x})
  BY <1>1, FS_Subset
<1>3. Cardinality(T) \in Nat /\ Cardinality(S \cup {x}) \in Nat
  BY <1>1, <1>2, FS_CardinalityType
<1> QED BY <1>1, <1>2, <1>3

\* Fewer elements are not more.
LEMMA NoneMore ==
    ASSUME NEW S, NEW T, IsFiniteSet(S), T \subseteq S, NEW n \in Nat, Cardinality(S) <= n
    PROVE  IsFiniteSet(T) /\ Cardinality(T) <= n
<1>1. IsFiniteSet(T) /\ Cardinality(T) <= Cardinality(S) BY FS_Subset
<1>2. Cardinality(S) \in Nat /\ Cardinality(T) \in Nat BY <1>1, FS_CardinalityType
<1> QED BY <1>1, <1>2

Running == {j \in Jobs : rows[j].state = "running"}

RunningInv == JobsInv /\ IsFiniteSet(Running) /\ RunningWithinConcurrency

\* A claim of a pending row asks for capacity, a claim of an expired one replaces a
\* running row by itself, and no other step makes a row run.
LEMMA StepRunning == ASSUME RunningInv, [Next]_vars PROVE RunningInv'
<1>t. JobsInv /\ JobsInv' BY StepJobs DEF RunningInv
<1> SUFFICES IsFiniteSet(Running') /\ Cardinality(Running') <= Concurrency
  BY <1>t DEF RunningInv, RunningWithinConcurrency, Running
<1>f. /\ IsFiniteSet(Running) /\ Cardinality(Running) \in Nat
      /\ Cardinality(Running) <= Concurrency /\ Concurrency \in Nat
  BY LimitAssumption, FS_CardinalityType DEF RunningInv, RunningWithinConcurrency, Running
<1>1. ASSUME NEW w \in Workers, NEW j \in Jobs, Claim(w, j) \/ ClaimLost(w, j)
      PROVE  IsFiniteSet(Running') /\ Cardinality(Running') <= Concurrency
  <2>1. /\ \A k \in Jobs : k # j => rows'[k] = rows[k]
        /\ rows[j].state = "running" \/ Capacity
    BY <1>1, <1>t
    DEF Claim, ClaimLost, ClaimTx, NextClaimable, Claimable, JobsInv, TypeOK
  <2>2. Running' \subseteq Running \cup {j} BY <2>1 DEF Running
  <2>3. CASE rows[j].state = "running"
    <3>1. Running' \subseteq Running BY <2>2, <2>3 DEF Running
    <3> QED BY <1>f, <3>1, NoneMore
  <2>4. CASE Capacity
    <3>1. Cardinality(Running) < Concurrency BY <2>4 DEF Capacity, Running
    <3>2. /\ IsFiniteSet(Running') /\ Cardinality(Running') \in Nat
          /\ Cardinality(Running') <= Cardinality(Running) + 1
      BY <1>f, <2>2, AtMostOneMore
    <3> QED BY <1>f, <3>1, <3>2
  <2> QED BY <2>1, <2>3, <2>4
<1>2. ASSUME \A j \in Jobs : rows'[j].state = "running" => rows[j].state = "running"
      PROVE  IsFiniteSet(Running') /\ Cardinality(Running') <= Concurrency
  <2>1. Running' \subseteq Running BY <1>2 DEF Running
  <2> QED BY <1>f, <2>1, NoneMore
<1>3. ASSUME NEW w \in Workers, WorkerStep(w),
             ~ \E j \in Jobs : Claim(w, j) \/ ClaimLost(w, j)
      PROVE  \A j \in Jobs : rows'[j].state = "running" => rows[j].state = "running"
  <2>1. CASE LockSettle(w) \/ \E jitter \in Jitter : Fail(w, jitter)
    <3>1. \/ rows' = rows
          \/ Holds(w) /\ rows' = [rows EXCEPT ![JobAt(w)] = LockedRow(w)]
          \/ \E jitter \in Jitter :
                Holds(w) /\ rows' = [rows EXCEPT ![JobAt(w)] = FailedRow(w, jitter)]
      BY <2>1 DEF LockSettle, Fail
    <3> QED BY <1>t, <3>1 DEF Holds, RowAt, JobsInv, TypeOK
  <2>2. ASSUME NEW K, NEW d, ExecuteCommit(w, K, d)
        PROVE  \A j \in Jobs : rows'[j].state = "running" => rows[j].state = "running"
    <3>1. \A k : Inserted(k, d, NoJob).state = "pending" BY DEF Inserted, NoRow
    <3>2. RowAt(w).state = "running" BY <2>2 DEF ExecuteCommit, Holds
    <3> QED BY <2>2, <3>1, <3>2 DEF ExecuteCommit, RowAt
  <2> QED BY <1>3, <2>1, <2>2 DEF WorkerStep, LockReady, LockFail, FailLost, ExecuteAbort,
          ExecuteReject, ExecuteError
<1>4. ASSUME NEW j \in Jobs, NEW d, NEW parent
      PROVE  Inserted(j, d, parent).state = "pending"
  BY DEF Inserted, NoRow
<1>5. CASE \E j \in Jobs : \E d \in Delays : Enqueue(j, d)
  BY <1>2, <1>4, <1>5, <1>t DEF Enqueue, JobsInv, TypeOK
<1>6. ASSUME NEW j \in Jobs, NEW k \in Jobs, Cancel(j) \/ Reconcile(j, k)
      PROVE  IsFiniteSet(Running') /\ Cardinality(Running') <= Concurrency
  <2>1. Rejected(rows[j]).state = "rejected" BY <1>t, StatesOfRows DEF Rejected, Row
  <2>2. \A i \in Jobs : \/ rows'[i] = rows[i] \/ rows'[i].state \in {"rejected", "pending"}
    <3>1. CASE Cancel(j) BY <1>t, <2>1, <3>1 DEF Cancel, JobsInv, TypeOK
    <3>2. CASE Reconcile(j, k) BY <1>4, <1>t, <2>1, <3>2 DEF Reconcile, JobsInv, TypeOK
    <3> QED BY <1>6, <3>1, <3>2
  <2> QED BY <1>2, <2>2
<1>7. CASE \/ \E s \in Services : Revoke(s) \/ GrantService(s)
           \/ GrantEffect \/ Fork \/ StartupStep
  <2>1. rows' = rows \/ \E J : rows' = PauseOf(J)
    BY <1>7 DEF Revoke, GrantService, GrantEffect, Fork, StartupStep, RecoverClock,
       Activate, Operator, NewEpoch
  <2>2. ASSUME NEW J, rows' = PauseOf(J)
        PROVE  \A j \in Jobs : rows'[j].state = "running" => rows[j].state = "running"
    BY <1>t, <2>2, PauseSound DEF Live
  <2> QED BY <1>2, <2>1, <2>2
<1>8. CASE \/ Tick \/ UNCHANGED vars
           \/ \E h \in Hosts : HostStart(h) \/ HostExit(h) \/ HostRetire(h)
  BY <1>2, <1>8 DEF Tick, HostStart, HostExit, HostRetire, vars
<1> QED BY <1>1, <1>2, <1>3, <1>5, <1>6, <1>7, <1>8 DEF Next, OperatorStep

\* At most `concurrency` jobs are running over all processes, although expired
\* leases are claimed again without asking for capacity.
THEOREM ConcurrencyKept == Spec => []RunningWithinConcurrency
<1>1. Init => RunningInv
  <2> SUFFICES ASSUME Init PROVE RunningInv OBVIOUS
  <2>1. Running = {} BY DEF Init, NoRow, Running
  <2>2. IsFiniteSet(Running) /\ Cardinality(Running) = 0 BY <2>1, FS_EmptySet
  <2>3. RunningWithinConcurrency
    <3>1. Cardinality(Running) <= Concurrency BY <2>2, LimitAssumption
    <3> QED BY <3>1 DEF RunningWithinConcurrency, Running
  <2> QED BY <2>2, <2>3, InitJobs DEF RunningInv
<1>2. RunningInv /\ [Next]_vars => RunningInv' BY StepRunning
<1>3. RunningInv => RunningWithinConcurrency BY DEF RunningInv
<1> QED BY <1>1, <1>2, <1>3, PTL DEF Spec

OccupantsIn(R) == {j \in Jobs : R[j].state \in Occupying}
TenantIn(R, t) == {j \in OccupantsIn(R) : TenantOf[ServiceOf[j]] = t}

QuotaInv == JobsInv /\ IsFiniteSet(OccupantsIn(rows)) /\ JobQuotaRespected

QuotaAfter == IsFiniteSet(OccupantsIn(rows')) /\ JobQuotaRespected'

\* No place more is occupied.
LEMMA PlacesKept ==
    ASSUME QuotaInv,
           \A j \in Jobs : rows'[j].state \in Occupying => rows[j].state \in Occupying
    PROVE  QuotaAfter
<1>1. OccupantsIn(rows') \subseteq OccupantsIn(rows)
      /\ \A t : TenantIn(rows', t) \subseteq TenantIn(rows, t)
  BY DEF OccupantsIn, TenantIn
<1>2. /\ IsFiniteSet(OccupantsIn(rows)) /\ Cardinality(OccupantsIn(rows)) <= PendingLimit
      /\ \A t \in Tenants : Cardinality(TenantIn(rows, t)) <= TenantLimit
      /\ PendingLimit \in Nat /\ TenantLimit \in Nat
  BY LimitAssumption DEF QuotaInv, JobQuotaRespected, OccupantsIn, TenantIn
<1>3. IsFiniteSet(OccupantsIn(rows')) /\ Cardinality(OccupantsIn(rows')) <= PendingLimit
  BY <1>1, <1>2, NoneMore
<1>4. ASSUME NEW t \in Tenants PROVE Cardinality(TenantIn(rows', t)) <= TenantLimit
  <2>1. IsFiniteSet(TenantIn(rows, t))
    <3>1. TenantIn(rows, t) \subseteq OccupantsIn(rows) BY DEF TenantIn
    <3> QED BY <1>2, <3>1, FS_Subset
  <2>2. Cardinality(TenantIn(rows, t)) <= TenantLimit BY <1>2
  <2> QED BY <1>1, <1>2, <2>1, <2>2, NoneMore
<1> QED BY <1>3, <1>4 DEF QuotaAfter, JobQuotaRespected, OccupantsIn, TenantIn

\* One job is captured into rows R where its app and tenant had a place free; R
\* occupies no more places than the rows before the step.
LEMMA PlaceTaken ==
    ASSUME QuotaInv, NEW R, NEW k \in Jobs, QuotaFree(R, TenantOf[ServiceOf[k]]),
           \A j \in Jobs : R[j].state \in Occupying => rows[j].state \in Occupying,
           \A j \in Jobs \ {k} : rows'[j].state \in Occupying => R[j].state \in Occupying
    PROVE  QuotaAfter
<1> DEFINE b == TenantOf[ServiceOf[k]]
<1>1. /\ OccupantsIn(R) \subseteq OccupantsIn(rows)
      /\ OccupantsIn(rows') \subseteq OccupantsIn(R) \cup {k}
      /\ \A t : TenantIn(rows', t) \subseteq TenantIn(R, t) \cup {k}
      /\ \A t : t # b => TenantIn(rows', t) \subseteq TenantIn(rows, t)
      /\ \A t : TenantIn(R, t) \subseteq OccupantsIn(R)
      /\ \A t : TenantIn(rows, t) \subseteq OccupantsIn(rows)
  BY DEF OccupantsIn, TenantIn
<1>2. IsFiniteSet(OccupantsIn(rows)) /\ IsFiniteSet(OccupantsIn(R))
  BY <1>1, FS_Subset DEF QuotaInv
<1>3. \A t : IsFiniteSet(TenantIn(R, t)) /\ IsFiniteSet(TenantIn(rows, t))
  BY <1>1, <1>2, FS_Subset
<1>4. /\ Cardinality(OccupantsIn(R)) < PendingLimit
      /\ Cardinality(TenantIn(R, b)) < TenantLimit
      /\ PendingLimit \in Nat /\ TenantLimit \in Nat
  BY LimitAssumption DEF QuotaFree, OccupantsIn, TenantIn
<1>5. IsFiniteSet(OccupantsIn(rows')) /\ Cardinality(OccupantsIn(rows')) <= PendingLimit
  <2>1. /\ IsFiniteSet(OccupantsIn(rows')) /\ Cardinality(OccupantsIn(rows')) \in Nat
        /\ Cardinality(OccupantsIn(R)) \in Nat
        /\ Cardinality(OccupantsIn(rows')) <= Cardinality(OccupantsIn(R)) + 1
    BY <1>1, <1>2, AtMostOneMore
  <2> QED BY <1>4, <2>1
<1>6. Cardinality(TenantIn(rows', b)) <= TenantLimit
  <2>0. TenantIn(rows', b) \subseteq TenantIn(R, b) \cup {k} /\ IsFiniteSet(TenantIn(R, b))
    BY <1>1, <1>3
  <2> HIDE DEF b
  <2>1. /\ Cardinality(TenantIn(rows', b)) \in Nat /\ Cardinality(TenantIn(R, b)) \in Nat
        /\ Cardinality(TenantIn(rows', b)) <= Cardinality(TenantIn(R, b)) + 1
    BY <2>0, AtMostOneMore
  <2> QED BY <1>4, <2>1
<1>7. ASSUME NEW t \in Tenants, t # b PROVE Cardinality(TenantIn(rows', t)) <= TenantLimit
  <2>1. Cardinality(TenantIn(rows, t)) <= TenantLimit
    BY DEF QuotaInv, JobQuotaRespected, OccupantsIn, TenantIn
  <2>2. TenantIn(rows', t) \subseteq TenantIn(rows, t) BY <1>1, <1>7
  <2> QED BY <1>3, <1>4, <2>1, <2>2, NoneMore
<1> QED BY <1>5, <1>6, <1>7 DEF QuotaAfter, JobQuotaRespected, OccupantsIn, TenantIn

\* Every step stays within the limits: a capture counts first, whether an action,
\* a follow-up or a reconciliation makes it, and nothing else takes a free place.
LEMMA StepQuota == ASSUME QuotaInv, [Next]_vars PROVE QuotaInv'
<1>t. JobsInv /\ JobsInv' BY StepJobs DEF QuotaInv
<1>r. rows \in [Jobs -> Row] /\ \A j \in Jobs : rows[j] \in Row
  BY <1>t, StatesOfRows
<1> SUFFICES QuotaAfter BY <1>t DEF QuotaInv, QuotaAfter, OccupantsIn
<1>n. rows' = rows => QuotaAfter BY PlacesKept
<1>1. ASSUME NEW j \in Jobs, NEW d \in Delays, Enqueue(j, d) PROVE QuotaAfter
  <2>1. QuotaFree(rows, TenantOf[ServiceOf[j]]) BY <1>1 DEF Enqueue, MayEnqueue
  <2>2. \A k \in Jobs \ {j} : rows'[k] = rows[k] BY <1>1, <1>r DEF Enqueue
  <2> QED BY <2>1, <2>2, PlaceTaken
<1>2. ASSUME NEW w \in Workers, NEW k \in Jobs, NEW d, ExecuteCommit(w, {k}, d)
      PROVE  QuotaAfter
  <2>1. QuotaFree(rows, TenantOf[ServiceOf[k]]) BY <1>2 DEF ExecuteCommit, MayEnqueue
  <2>2. RowAt(w).state = "running" BY <1>2 DEF ExecuteCommit, Holds
  <2>3. \A j \in Jobs \ {k} : rows'[j] = rows[j] \/ rows[j].state = "running"
    BY <1>2, <2>2 DEF ExecuteCommit, RowAt
  <2> QED BY <2>1, <2>3, PlaceTaken DEF Occupying
<1>3. ASSUME NEW j \in Jobs, NEW k \in Jobs, Reconcile(j, k) PROVE QuotaAfter
  <2> DEFINE R == [rows EXCEPT ![j] = Rejected(rows[j])]
  <2>1. QuotaFree(R, TenantOf[ServiceOf[k]]) /\ rows' = [R EXCEPT ![k] = Inserted(k, 0, j)]
    BY <1>3 DEF Reconcile, MayEnqueue
  <2>2. \A i \in Jobs \ {k} : rows'[i] = R[i] BY <1>r, <2>1
  <2>3. \A i \in Jobs : R[i] = IF i = j THEN Rejected(rows[j]) ELSE rows[i] BY <1>r
  <2>4. Rejected(rows[j]).state = "rejected" BY <1>r DEF Rejected, Row
  <2>5. \A i \in Jobs : R[i].state \in Occupying => rows[i].state \in Occupying
    BY <2>3, <2>4 DEF Occupying
  <2> HIDE DEF R
  <2> QED BY <2>1, <2>2, <2>5, PlaceTaken
<1>4. ASSUME NEW w \in Workers, WorkerStep(w),
             \A k \in Jobs : \A d \in Delays : ~ ExecuteCommit(w, {k}, d)
      PROVE  \A j \in Jobs : rows'[j].state \in Occupying => rows[j].state \in Occupying
  <2>1. ASSUME NEW j \in Jobs, Claim(w, j) \/ ClaimLost(w, j)
        PROVE  /\ \A k \in Jobs : k # j => rows'[k] = rows[k]
               /\ rows[j].state \in Occupying
    BY <1>r, <2>1
    DEF Claim, ClaimLost, ClaimTx, NextClaimable, Claimable, Occupying
  <2>2. CASE LockSettle(w) \/ \E jitter \in Jitter : Fail(w, jitter)
    <3>1. \/ rows' = rows
          \/ Holds(w) /\ rows' = [rows EXCEPT ![JobAt(w)] = LockedRow(w)]
          \/ \E jitter \in Jitter :
                Holds(w) /\ rows' = [rows EXCEPT ![JobAt(w)] = FailedRow(w, jitter)]
      BY <2>2 DEF LockSettle, Fail
    <3> QED BY <1>r, <3>1 DEF Holds, RowAt, Occupying
  <2>3. CASE ExecuteCommit(w, {}, 0)
    <3>1. RowAt(w).state = "running" BY <2>3 DEF ExecuteCommit, Holds
    <3> QED BY <2>3, <3>1 DEF ExecuteCommit, RowAt, Occupying
  <2>4. CASE \E j \in Jobs : Claim(w, j) \/ ClaimLost(w, j) BY <2>1, <2>4
  <2>5. CASE \/ LockReady(w) \/ LockFail(w) \/ FailLost(w)
             \/ ExecuteAbort(w) \/ ExecuteReject(w) \/ ExecuteError(w)
    BY <2>5 DEF LockReady, LockFail, FailLost, ExecuteAbort, ExecuteReject, ExecuteError
  <2> QED BY <1>4, <2>2, <2>3, <2>4, <2>5 DEF WorkerStep
<1>5. ASSUME NEW j \in Jobs, Cancel(j) PROVE QuotaAfter
  <2>1. Rejected(rows[j]).state = "rejected" BY <1>r DEF Rejected, Row
  <2>2. \A i \in Jobs : rows'[i] = rows[i] \/ rows'[i].state = "rejected"
    BY <1>5, <1>r, <2>1 DEF Cancel
  <2> QED BY <2>2, PlacesKept DEF Occupying
<1>6. CASE \/ \E s \in Services : Revoke(s) \/ GrantService(s)
           \/ GrantEffect \/ Fork \/ StartupStep
  <2>1. rows' = rows \/ \E J : rows' = PauseOf(J)
    BY <1>6 DEF Revoke, GrantService, GrantEffect, Fork, StartupStep, RecoverClock,
       Activate, Operator, NewEpoch
  <2>2. ASSUME NEW J, rows' = PauseOf(J), NEW j \in Jobs, rows'[j].state \in Occupying
        PROVE  rows[j].state \in Occupying
    BY <2>2 DEF PauseOf, Live, Occupying
  <2> QED BY <1>n, <2>1, <2>2, PlacesKept
<1>7. CASE \/ Tick \/ UNCHANGED vars
           \/ \E h \in Hosts : HostStart(h) \/ HostExit(h) \/ HostRetire(h)
  BY <1>7, <1>n DEF Tick, HostStart, HostExit, HostRetire, vars
<1>8. CASE \E w \in Workers : WorkerStep(w) BY <1>2, <1>4, <1>8, PlacesKept
<1> QED BY <1>1, <1>3, <1>5, <1>6, <1>7, <1>8 DEF Next, OperatorStep

\* Pending, running and paused jobs stay within the limits of the app and of the
\* tenant, replacements and follow-ups included (ACTIVE_JOB_COUNTS).
THEOREM JobQuotaKept == Spec => []JobQuotaRespected
<1>1. Init => QuotaInv
  <2> SUFFICES ASSUME Init PROVE QuotaInv OBVIOUS
  <2>1. OccupantsIn(rows) = {} /\ \A t : TenantIn(rows, t) = {}
    BY DEF Init, NoRow, OccupantsIn, TenantIn, Occupying
  <2>2. IsFiniteSet({}) /\ Cardinality({}) = 0 BY FS_EmptySet
  <2>3. Cardinality(OccupantsIn(rows)) <= PendingLimit BY <2>1, <2>2, LimitAssumption
  <2>4. ASSUME NEW t \in Tenants PROVE Cardinality(TenantIn(rows, t)) <= TenantLimit
    <3>1. Cardinality(TenantIn(rows, t)) = 0 BY <2>1, <2>2
    <3> QED BY <3>1, LimitAssumption
  <2>5. JobQuotaRespected
    BY <2>3, <2>4 DEF JobQuotaRespected, OccupantsIn, TenantIn
  <2> QED BY <2>1, <2>2, <2>5, InitJobs DEF QuotaInv
<1>2. QuotaInv /\ [Next]_vars => QuotaInv' BY StepQuota
<1>3. QuotaInv => JobQuotaRespected BY DEF QuotaInv
<1> QED BY <1>1, <1>2, <1>3, PTL DEF Spec
=============================================================================
