------------------------------ MODULE Requests ------------------------------
(***************************************************************************)
(* Forms, from the page that issues one to the answer its submission gets. *)
(* A page view signs a token for every form it shows; the token names the  *)
(* record's incarnation and, for a reviewed action, its revision.  A       *)
(* submission claims the token's receipt in the transaction that performs  *)
(* the action, so that the receipt exists exactly when the action took     *)
(* place.  The transaction runs up to three times; its COMMIT may be       *)
(* refused, acknowledged, or lost with its outcome unknown.  Whatever is   *)
(* not an answer is recovered by a second transaction that reads the       *)
(* receipt.                                                                *)
(*                                                                         *)
(* One post with comments stands for the records.  Serializable isolation  *)
(* makes a transaction one step over the state it saw: it is stale, and    *)
(* its COMMIT refused, once any other commit wrote.  Seconds, the token    *)
(* lifetime and the receipts' retention are scaled down together.          *)
(***************************************************************************)
EXTENDS Integers, FiniteSets, Sequences

CONSTANTS
    Requests, Forms, Inputs,
    Kinds,          \* the actions explored, a subset of the four of Steps
    TTL,            \* lifetime of a submission token
    TOLERANCE,      \* CLOCK_ROLLBACK_TOLERANCE
    PERSIST_LAG,    \* CLOCK_PERSIST_LAG
    RETENTION,      \* seconds a receipt outlives its token (60)
    DATABASE_CALLS, \* ExecutionBudget::new (16)
    ATTEMPTS,       \* attempts of one submission (3)
    MaxCount,       \* declared maximum of the adjusted field
    \* bounds of the explored instance
    MaxTime, MaxKeys, MaxRevision, MaxFaults

ASSUME RequestsAssumption ==
    /\ {TTL, DATABASE_CALLS, ATTEMPTS, MaxCount, MaxRevision} \subseteq Nat \ {0}
    /\ {TOLERANCE, PERSIST_LAG, RETENTION, MaxTime, MaxKeys, MaxFaults} \subseteq Nat
    /\ Kinds \subseteq {"edit", "reply", "remove", "rotate"}
    /\ "absent" \notin Inputs

VARIABLES
    wall,     \* the host's clock, which may be set back
    db,       \* the committed database
    server,   \* the serving process: its key incarnation, generation and clock memory
    form,     \* the signed tokens, by form
    req,      \* submissions
    tx,       \* their transactions
    effects,  \* how often each form's action has been committed, and with which input
    faults    \* provider faults and operator interventions so far

vars == <<wall, db, server, form, req, tx, effects, faults>>

None == [kind |-> "none"]
Absent == "absent"

Idle == [pc |-> "idle", form |-> "none", input |-> "none", secret |-> 0, tries |-> 0,
         calls |-> 0, reserved |-> FALSE, evidence |-> FALSE, unknown |-> FALSE,
         answer |-> "none"]
NoTx == [state |-> "none", stale |-> FALSE, now |-> 0]

Init ==
    /\ wall = 0
    /\ db = [post |-> [live |-> TRUE, rev |-> 1, cap |-> 1, count |-> 0, author |-> TRUE],
             comments |-> {}, queued |-> {}, session |-> TRUE,
             receipts |-> [f \in Forms |-> [digest |-> Absent, expires |-> 0, cap |-> 0]],
             observed |-> 0, keys |-> 1, gen |-> 1]
    /\ server = [keys |-> 1, gen |-> 1, memory |-> 0]
    /\ form = [f \in Forms |-> None]
    /\ req = [q \in Requests |-> Idle]
    /\ tx = [q \in Requests |-> NoTx]
    /\ effects = [f \in Forms |-> <<>>]
    /\ faults = 0

-----------------------------------------------------------------------------
(* The clock, the deployment fence and the tokens *)

Larger(a, b) == IF a >= b THEN a ELSE b

\* observe_clock_read: the raw wall time is checked against both watermarks.
High == Larger(db.observed, server.memory)
ClockHolds == High - wall <= TOLERANCE
Now == Larger(wall, High)

\* observe_clock_bounded persists a mark that has fallen too far behind.
Persisted(d, now) ==
    IF now - d.observed > PERSIST_LAG THEN [d EXCEPT !.observed = now] ELSE d

\* Application::admission: the deployment row still names this process.
Admitted == server.keys = db.keys /\ server.gen = db.gen

\* Keys::verify_domain.
Verified(t, now) ==
    /\ t.kind # "none" /\ t.keys = server.keys
    /\ t.issued <= now /\ now < t.issued + TTL

\* Capability forms and rotations are anonymous; the others carry a session.
Anonymous(kind) == kind \in {"edit", "rotate"}

\* auth::authenticate and the token's subject: the session that was shown the
\* form; every session ends with the keys that issued it.
SessionHolds(t) == Anonymous(t.kind) \/ (db.session /\ t.session = db.keys)

\* submission_identity.
IdentityHolds(t, now) == Verified(t, now) /\ SessionHolds(t)

\* The revision the form's target is reviewed at; identity targets name none.
Reviewed(kind) == kind \in {"edit", "remove"}

\* target_allowed: what the visitor must hold over the record for the form.
TargetAllowed(kind) == Anonymous(kind) \/ db.post.author

\* forms: the record is live and the form has a subject, the session's or an
\* anonymous visitor's.
Offered(kind) ==
    db.post.live /\ TargetAllowed(kind) /\ (Anonymous(kind) \/ db.session)

\* credentials, page_grants and rotation_page sign what the form acts on.
Credentials(kind) ==
    [kind |-> kind, keys |-> server.keys, issued |-> Now, session |-> server.keys,
     rev |-> db.post.rev]

\* A view issues its form's token in a read-only transaction.
View(f, kind) ==
    /\ form[f].kind = "none" /\ Admitted /\ ClockHolds /\ Offered(kind)
    /\ form' = [form EXCEPT ![f] = Credentials(kind)]
    /\ server' = [server EXCEPT !.memory = Larger(@, wall)]
    /\ UNCHANGED <<wall, db, req, tx, effects, faults>>

\* page_attempt shows the forms of actions, capability_page that of a rotation.
Render(f) == \E kind \in Kinds \ {"rotate"} : View(f, kind)
RenderCapability(f) == View(f, "rotate")

-----------------------------------------------------------------------------
(* Executing an action's steps over the rows its transaction sees *)

\* The mutations of each action, in order.  A capability edit and a removal act
\* on the reviewed post; a reply creates a row and increases a bounded field.
Steps(kind) ==
    CASE kind = "edit" -> <<"update">>
      [] kind = "reply" -> <<"create", "increase">>
      [] kind = "remove" -> <<"delete">>
      [] kind = "rotate" -> <<>>

\* create_step: the parent must exist and be readable, and the row is new.
ParentReadable(s) == s.post.live
Inserted(s, f) == [s EXCEPT !.comments = @ \cup {f}]
CreateStep(s, f) ==
    IF ParentReadable(s) THEN Inserted(s, f)
    ELSE [s EXCEPT !.error = "unavailable"]

\* update_step: the row must still carry the incarnation the grant names.
UpdateStep(s) ==
    IF s.post.live THEN [s EXCEPT !.post.rev = @ + 1]
    ELSE [s EXCEPT !.error = "unavailable"]

\* Slip: the declared maximum is not checked.
IncreaseStepUnbounded(s) == [UpdateStep(s) EXCEPT !.post.count = @ + 1]

\* adjusted_value: an increase past the declared bound is the author's rejection.
IncreaseStep(s) ==
    IF s.post.count + 1 > MaxCount THEN [s EXCEPT !.error = "guard"]
    ELSE [UpdateStep(s) EXCEPT !.post.count = @ + 1]

\* Slip: children are left without their parent.
DeleteStepOrphaning(s) == [s EXCEPT !.post.live = FALSE]

\* delete_step: a parent with children stays, as an ordinary error.
DeleteStep(s) ==
    IF s.comments # {} THEN [s EXCEPT !.error = "rejected"]
    ELSE [s EXCEPT !.post.live = FALSE]

ApplyStep(s, step, f) ==
    CASE step = "create" -> CreateStep(s, f)
      [] step = "update" -> UpdateStep(s)
      [] step = "increase" -> IncreaseStep(s)
      [] step = "delete" -> DeleteStep(s)

\* execute_transaction: the first error ends the action, whose transaction is
\* rolled back whole.  No action has more than two steps.
Performed(s, steps, n, f) ==
    IF n > Len(steps) \/ s.error # "none" THEN s ELSE ApplyStep(s, steps[n], f)
ExecuteTransaction(d, f) ==
    LET steps == Steps(form[f].kind)
        before == [post |-> d.post, comments |-> d.comments, error |-> "none"]
    IN Performed(Performed(before, steps, 1, f), steps, 2, f)

\* verify_edit_capability: the secret of the current version and no other.
CapabilityVerified(q) == form[req[q].form].kind = "edit" => req[q].secret = db.post.cap

\* authorize_target_source and authorize_target_steps.
TargetAuthorized(q) == TargetAllowed(form[req[q].form].kind)

\* Slip: the reviewed revision is not compared.
ResolveTargetsUnreviewed(q) ==
    IF db.post.live /\ CapabilityVerified(q) /\ TargetAuthorized(q) THEN "none"
    ELSE "unavailable"

\* resolve_action_targets and authorize_create, before any guest code runs: the
\* record, its incarnation, the capability at its current version, the source's
\* authority, and only then the reviewed revision.
ResolveTargets(q) ==
    LET t == form[req[q].form] IN
    IF ~(db.post.live /\ CapabilityVerified(q) /\ TargetAuthorized(q)) THEN "unavailable"
    ELSE IF Reviewed(t.kind) /\ t.rev # db.post.rev THEN "conflict"
    ELSE "none"

\* The capability secret of each version a visitor may hold.
Secret == <<"secret 1", "secret 2">>

\* The digest a receipt is claimed with: a rotation's input is its secret.
Digest(q) == IF form[req[q].form].kind = "rotate" THEN Secret[req[q].secret] ELSE req[q].input

\* Jobs and effects are queued in the transaction that writes the rows.
Queued(d, f) == IF form[f].kind = "rotate" THEN d.queued ELSE d.queued \cup {f}

\* advance_capability.
Advanced(d, f) == IF form[f].kind = "rotate" THEN d.post.cap + 1 ELSE d.post.cap

\* What a submission commits: the rows, the jobs and effects it queues, and the
\* receipt, written in one transaction.  prepare_rotation advances the version
\* of the capability instead.
Receipt(q, cap) == [digest |-> Digest(q), cap |-> cap, expires |-> form[req[q].form].issued + TTL]
Committed(d, q) ==
    LET f == req[q].form
        s == ExecuteTransaction(d, f)
        cap == Advanced(d, f)
    IN [Persisted(d, tx[q].now) EXCEPT
            !.post = [s.post EXCEPT !.cap = cap],
            !.comments = s.comments,
            !.queued = Queued(d, f),
            !.receipts[f] = Receipt(q, cap)]

\* claim_action_receipt and replay_attempt: a claimed receipt answers the same
\* digest again and refuses any other.
ReceiptVerdict(q) ==
    LET r == db.receipts[req[q].form]
    IN IF r.digest = Absent THEN "none"
       ELSE IF r.digest = Digest(q) THEN "replay" ELSE "invalid"

\* prepare_rotation's own checks of the capability it advances.
RotationVerdict(q) ==
    IF db.post.live /\ req[q].secret = db.post.cap THEN "commit" ELSE "invalid"

\* attempt_action after the receipt is claimed: the targets, then the steps.
ActionVerdict(q) ==
    LET target == ResolveTargets(q)
        done == ExecuteTransaction(db, req[q].form)
    IN IF target # "none" THEN target
       ELSE IF done.error # "none" THEN done.error ELSE "commit"

\* The outcome of one attempt.  "commit" and "replay" leave an open transaction,
\* the rest have rolled back.
Verdict(q) ==
    LET t == form[req[q].form] IN
    IF ~Admitted \/ ~ClockHolds THEN "rejected"
    ELSE IF ~IdentityHolds(t, Now) THEN "invalid"
    ELSE IF ReceiptVerdict(q) # "none" THEN ReceiptVerdict(q)
    ELSE IF t.kind = "rotate" THEN RotationVerdict(q)
    ELSE ActionVerdict(q)

-----------------------------------------------------------------------------
(* Submission *)

\* ExecutionBudget: calls are charged on every attempt and survive retries; a
\* redirect to the parent is reserved once and captured each time.
Cost(q) == LET kind == form[req[q].form].kind
           IN IF kind = "rotate" THEN 1
              ELSE 1 + Len(Steps(kind)) + 2 + (IF req[q].reserved THEN 0 ELSE 4)

Submit(q, f, i, secret) ==
    /\ req[q].pc = "idle" /\ form[f].kind # "none"
    /\ (i = "none") = (form[f].kind = "rotate")
    /\ Anonymous(form[f].kind) \/ secret = 1
    /\ req' = [req EXCEPT ![q] =
                   [Idle EXCEPT !.pc = "prepare", !.form = f, !.input = i,
                                !.secret = secret, !.calls = DATABASE_CALLS]]
    /\ UNCHANGED <<wall, db, server, form, tx, effects, faults>>

\* The rendered or redirected answer of the submission.
Answer(q, what) == req' = [req EXCEPT ![q].pc = "answered", ![q].answer = what]

\* rotate_capability answers by itself: no redirect and no recovery follows.
Rotates(q) == form[req[q].form].kind = "rotate"

\* An acknowledged or evidenced commit is a success whatever follows; an action
\* still looks up where to send the visitor.
Delivered(q) ==
    IF Rotates(q) THEN Answer(q, "ok")
    ELSE req' = [req EXCEPT ![q].pc = "navigate"]

\* http::forms: Busy answers at once, a rotation answers as it ends, and every
\* other failure of an action is recovered.
Settled(q, error) ==
    IF error = "busy" \/ Rotates(q) THEN Answer(q, error)
    ELSE req' = [req EXCEPT ![q].pc = "recover", ![q].unknown = (error = "unknown")]

\* settle_target_failure, settle_guest_outcome and settle_transaction_failure
\* have rolled back and answer with a page of their own.
SettledOutcomes == {"conflict", "unavailable", "guard"}

\* An attempt without a committable transaction: a verified receipt answers
\* whatever else failed, a settled outcome answers, an error is recovered.
PrepareFails(q, error) ==
    /\ IF req[q].evidence THEN Answer(q, "ok")
       ELSE IF error \in SettledOutcomes THEN Answer(q, error)
       ELSE Settled(q, error)
    /\ UNCHANGED tx

\* prepare_with_commit_evidence: a replayed receipt is evidence of its commit.
Prepare(q) ==
    LET verdict == Verdict(q) IN
    /\ req[q].pc = "prepare"
    /\ IF verdict \in {"commit", "replay"}
       THEN /\ verdict = "commit" => Cost(q) <= req[q].calls
            /\ req' = [req EXCEPT ![q].pc = "commit",
                                  ![q].calls = IF verdict = "commit" THEN @ - Cost(q) ELSE @,
                                  ![q].reserved = @ \/ verdict = "commit",
                                  ![q].evidence = @ \/ verdict = "replay"]
            /\ tx' = [tx EXCEPT ![q] = [state |-> IF verdict = "commit" THEN "open" ELSE "read",
                                        stale |-> FALSE, now |-> Now]]
       ELSE PrepareFails(q, verdict)
    /\ server' = [server EXCEPT !.memory = IF Admitted THEN Larger(@, wall) ELSE @]
    /\ UNCHANGED <<wall, db, form, effects, faults>>

\* A spent call budget, the guest's own rejection, or the deadline.
PrepareStops(q) ==
    /\ req[q].pc = "prepare" /\ Verdict(q) = "commit"
    /\ \/ Cost(q) > req[q].calls /\ PrepareFails(q, "rejected") /\ UNCHANGED faults
       \/ /\ faults < MaxFaults /\ faults' = faults + 1
          /\ \E error \in {"guard", "rejected", "busy"} :
                /\ error = "guard" => form[req[q].form].kind # "rotate"
                /\ PrepareFails(q, error)
    /\ UNCHANGED <<wall, db, server, form, effects>>

\* A retryable failure runs the attempt again, three times at most.
Retried(q) ==
    IF req[q].tries + 1 < ATTEMPTS
    THEN req' = [req EXCEPT ![q].pc = "prepare", ![q].tries = @ + 1]
    ELSE Answer(q, "busy")

PrepareRetries(q) ==
    /\ req[q].pc = "prepare" /\ faults < MaxFaults
    /\ faults' = faults + 1
    /\ IF req[q].evidence THEN Answer(q, "ok") ELSE Retried(q)
    /\ UNCHANGED <<wall, db, server, form, tx, effects>>

\* The transaction's rows become the database, and every other open
\* transaction is stale.
Commits(q) ==
    /\ db' = Committed(db, q)
    /\ effects' = [effects EXCEPT ![req[q].form] = Append(@, Digest(q))]
    /\ tx' = [p \in Requests |-> IF p = q THEN [tx[q] EXCEPT !.state = "applied"]
                                 ELSE [tx[p] EXCEPT !.stale = TRUE]]

Applicable(q) == tx[q].state \in {"open", "sent"} /\ ~tx[q].stale /\ db.post.rev < MaxRevision

CommitAcknowledged(q) ==
    /\ req[q].pc = "commit" /\ Applicable(q)
    /\ Commits(q) /\ Delivered(q)
    /\ UNCHANGED <<wall, server, form, faults>>

\* A replay's transaction writes nothing: the receipt answers however it ends.
ReplayEnds(q) ==
    /\ req[q].pc = "commit" /\ tx[q].state = "read"
    /\ tx' = [tx EXCEPT ![q] = NoTx] /\ Answer(q, "ok")
    /\ UNCHANGED <<wall, db, server, form, effects, faults>>

\* finish_navigation: the destination is read again, as the visitor, in a
\* transaction of its own; whatever fails there, the prepared success stands.
Navigate(q) ==
    /\ req[q].pc = "navigate"
    /\ Answer(q, IF Admitted /\ db.post.live THEN "redirected" ELSE "ok")
    /\ UNCHANGED <<wall, db, server, form, tx, effects, faults>>

\* A refused COMMIT is rolled back before the next attempt; when the rollback
\* fails nothing is known any more.
CommitRefused(q) ==
    /\ req[q].pc = "commit" /\ tx[q].state = "open" /\ tx[q].stale
    /\ \/ Retried(q) /\ tx' = [tx EXCEPT ![q] = NoTx] /\ UNCHANGED faults
       \/ /\ faults < MaxFaults /\ faults' = faults + 1
          /\ Settled(q, "unknown") /\ tx' = [tx EXCEPT ![q] = NoTx]
    /\ UNCHANGED <<wall, db, server, form, effects>>

\* The statement that would send COMMIT is over the request's limit.
CommitUnsent(q) ==
    /\ req[q].pc = "commit" /\ tx[q].state = "open" /\ faults < MaxFaults
    /\ faults' = faults + 1
    /\ \E error \in {"busy", "unknown"} : Settled(q, error)
    /\ tx' = [tx EXCEPT ![q] = NoTx]
    /\ UNCHANGED <<wall, db, server, form, effects>>

\* Slip: a lost answer is taken for a refusal.
CommitLostBusy(q) ==
    /\ req[q].pc = "commit" /\ tx[q].state = "open" /\ faults < MaxFaults
    /\ faults' = faults + 1
    /\ Answer(q, "busy")
    /\ tx' = [tx EXCEPT ![q].state = "sent"]
    /\ UNCHANGED <<wall, db, server, form, effects>>

\* The answer to COMMIT is lost: it has taken effect, will, or never will.
CommitLost(q) ==
    /\ req[q].pc = "commit" /\ tx[q].state = "open" /\ faults < MaxFaults
    /\ faults' = faults + 1
    /\ Settled(q, "unknown")
    /\ tx' = [tx EXCEPT ![q].state = "sent"]
    /\ UNCHANGED <<wall, db, server, form, effects>>

Land(q) ==
    /\ tx[q].state = "sent" /\ Applicable(q)
    /\ Commits(q)
    /\ UNCHANGED <<wall, server, form, req, faults>>

Vanish(q) ==
    /\ tx[q].state = "sent"
    /\ tx' = [tx EXCEPT ![q] = NoTx]
    /\ UNCHANGED <<wall, db, server, form, req, effects, faults>>

-----------------------------------------------------------------------------
(* recover_form *)

\* The receipt decides; without one the form is offered again with its token,
\* after the checks that decide whether it still may be submitted.
RecoveryOf(q) ==
    LET target == ResolveTargets(q)
    IN IF ~Admitted \/ ~ClockHolds \/ ~IdentityHolds(form[req[q].form], Now) THEN "failed"
       ELSE IF ReceiptVerdict(q) = "replay" THEN "ok"
       ELSE IF ReceiptVerdict(q) = "invalid" THEN "used"
       ELSE IF target = "unavailable" THEN "unavailable"
       ELSE IF target = "conflict" /\ ~req[q].unknown THEN "conflict"
       ELSE IF req[q].unknown THEN "unconfirmed" ELSE "retry"

Recover(q) ==
    /\ req[q].pc = "recover"
    /\ LET outcome == RecoveryOf(q)
       IN Answer(q, IF outcome = "failed" /\ req[q].unknown THEN "unconfirmed" ELSE outcome)
    /\ server' = [server EXCEPT !.memory = IF Admitted THEN Larger(@, wall) ELSE @]
    /\ UNCHANGED <<wall, db, form, tx, effects, faults>>

\* The recovery's own transaction fails: the first error answers.
RecoverFails(q) ==
    /\ req[q].pc = "recover" /\ faults < MaxFaults
    /\ faults' = faults + 1
    /\ Answer(q, IF req[q].unknown THEN "unconfirmed" ELSE "failed")
    /\ UNCHANGED <<wall, db, server, form, tx, effects>>

-----------------------------------------------------------------------------
(* Operators, maintenance and time *)

Stale(d) ==
    /\ db' = d
    /\ tx' = [p \in Requests |-> [tx[p] EXCEPT !.stale = TRUE]]

\* Database::maintain prunes receipts whose token can no longer be accepted.
Prunable(f, now) == db.receipts[f].digest # Absent /\ db.receipts[f].expires < now - RETENTION

Maintain ==
    LET now == Larger(wall, db.observed) IN
    /\ db.observed - wall <= TOLERANCE
    /\ \E f \in Forms : Prunable(f, now)
    /\ Stale([db EXCEPT !.observed = now,
                        !.receipts = [f \in Forms |->
                            IF Prunable(f, now)
                            THEN [digest |-> Absent, expires |-> 0, cap |-> 0]
                            ELSE @[f]]])
    /\ UNCHANGED <<wall, server, form, req, effects, faults>>

\* Slip: the clock is reset under the old host key.
RecoverClockSameKeys ==
    /\ db.keys < MaxKeys /\ db.observed - wall > TOLERANCE
    /\ Stale([db EXCEPT !.gen = @ + 1, !.session = FALSE, !.observed = wall])
    /\ UNCHANGED <<wall, server, form, req, effects, faults>>

\* Database::recover_clock: fresh keys, no sessions, receipts and records kept.
RecoverClock ==
    /\ db.keys < MaxKeys /\ db.observed - wall > TOLERANCE
    /\ Stale([db EXCEPT !.keys = @ + 1, !.gen = @ + 1, !.session = FALSE,
                        !.observed = wall])
    /\ UNCHANGED <<wall, server, form, req, effects, faults>>

\* A process started with the current host key takes the deployment over; the
\* memory of the clock starts from nothing.
Restart ==
    /\ server.keys # db.keys \/ server.gen # db.gen \/ ~ClockHolds
    /\ server' = [keys |-> db.keys, gen |-> db.gen, memory |-> 0]
    /\ server' # server
    /\ UNCHANGED <<wall, db, form, req, tx, effects, faults>>

\* The author's authority over the post, or the session, is withdrawn by another
\* request's committed transaction.
Withdraw ==
    /\ faults < MaxFaults /\ faults' = faults + 1
    /\ \/ db.post.author /\ Stale([db EXCEPT !.post.author = FALSE])
       \/ db.session /\ Stale([db EXCEPT !.session = FALSE])
    /\ UNCHANGED <<wall, server, form, req, effects>>

Tick ==
    /\ wall < MaxTime /\ wall' = wall + 1
    /\ UNCHANGED <<db, server, form, req, tx, effects, faults>>

SetBack ==
    /\ faults < MaxFaults /\ faults' = faults + 1
    /\ \E t \in 0 .. wall - 1 : wall' = t
    /\ UNCHANGED <<db, server, form, req, tx, effects>>

-----------------------------------------------------------------------------

Serve(q) ==
    \/ Prepare(q) \/ PrepareStops(q) \/ PrepareRetries(q)
    \/ CommitAcknowledged(q) \/ Navigate(q) \/ ReplayEnds(q) \/ CommitRefused(q)
    \/ CommitUnsent(q) \/ CommitLost(q) \/ Recover(q) \/ RecoverFails(q)

Next ==
    \/ \E f \in Forms : Render(f) \/ RenderCapability(f)
    \/ \E q \in Requests : Serve(q) \/ Land(q) \/ Vanish(q)
    \/ \E q \in Requests, f \in Forms, i \in Inputs \cup {"none"}, s \in 1 .. 2 : Submit(q, f, i, s)
    \/ Maintain \/ RecoverClock \/ Restart \/ Withdraw \/ Tick \/ SetBack

Spec == Init /\ [][Next]_vars

-----------------------------------------------------------------------------

TypeOK ==
    /\ wall \in 0 .. MaxTime
    /\ \A f \in Forms : db.receipts[f].digest \in Inputs \cup {Absent, Secret[1], Secret[2]}
    /\ db.post.count \in 0 .. MaxCount /\ db.post.rev \in 1 .. MaxRevision
    /\ \A q \in Requests : req[q].calls \in 0 .. DATABASE_CALLS
                           /\ req[q].tries \in 0 .. ATTEMPTS - 1
    /\ db.comments \cup db.queued \subseteq Forms

\* However a form is submitted (twice at once, again after an unknown outcome,
\* after its receipt was pruned, or after the operator set the clock back), its
\* action is committed at most once.
OncePerForm == \A f \in Forms : Len(effects[f]) <= 1

\* The rows, the counters and the queue agree with the actions that committed:
\* a comment, its increase and its queued work exist together or not at all.
RowsAgree ==
    /\ db.post.count = Cardinality(db.comments)
    /\ ~db.post.live => db.comments = {}
    /\ \A f \in Forms : (Len(effects[f]) > 0 /\ form[f].kind # "rotate") <=> f \in db.queued

\* A form takes effect once and as a whole.
SubmissionsSound == TypeOK /\ OncePerForm /\ RowsAgree

\* Success is told only of an action committed with this very input.  A plain
\* refusal is told only when this submission did not and will not commit.
Refusals == {"busy", "rejected", "invalid", "conflict", "unavailable", "guard",
             "retry", "failed"}
AnswersHonest ==
    \A q \in Requests :
        /\ req[q].answer \in {"ok", "redirected"} =>
               \E k \in DOMAIN effects[req[q].form] : effects[req[q].form][k] = Digest(q)
        /\ req[q].answer \in Refusals /\ tx[q].state \in {"sent", "applied"} =>
               req[q].unknown

\* A reviewed action is committed over the revision its form showed, and a
\* capability is used only at its current version.
EditsCurrent ==
    [][\A f \in Forms : Len(effects'[f]) > Len(effects[f]) =>
            /\ Reviewed(form[f].kind) => form[f].rev = db.post.rev
            /\ \E q \in Requests : /\ req[q].form = f
                                   /\ tx'[q].state = "applied" /\ tx[q].state # "applied"
                                   /\ Anonymous(form[f].kind) => req[q].secret = db.post.cap]_vars
=============================================================================
