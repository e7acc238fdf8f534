--------------------------- MODULE RequestsProofs ---------------------------
(***************************************************************************)
(* Theorems about Requests: a form takes effect once and as a whole, what  *)
(* a visitor is told is true, and a reviewed edit or a capability is       *)
(* current when it commits.                                                *)
(*                                                                         *)
(* The argument turns on transactions that may still commit: one that is   *)
(* open or sent and not stale was judged over the database as it is now    *)
(* (Judged), so its form has no receipt.  A form whose action took effect  *)
(* either still has its receipt or can never be verified again: its key    *)
(* has been replaced, or the observed second is past its lifetime (Spent). *)
(***************************************************************************)
EXTENDS Requests, FiniteSetTheorems, TLAPS

-----------------------------------------------------------------------------
(* The inductive invariant *)

Digests == Inputs \cup {Secret[1], Secret[2]}
Posts == [live : BOOLEAN, rev : 1 .. MaxRevision, cap : Nat \ {0}, count : 0 .. MaxCount,
          author : BOOLEAN]
Receipts == [digest : Digests \cup {Absent}, expires : Nat, cap : Nat]
Databases == [post : Posts, comments : SUBSET Forms, queued : SUBSET Forms,
              session : BOOLEAN, receipts : [Forms -> Receipts], observed : Nat,
              keys : Nat, gen : Nat]
Tokens == [kind : Kinds \cup {"rotate"}, keys : Nat, issued : Nat, session : Nat,
           rev : 1 .. MaxRevision]
Places == {"idle", "prepare", "commit", "navigate", "recover", "answered"}
Answers == Refusals \cup {"none", "ok", "redirected", "unknown", "used", "unconfirmed"}
Submissions ==
    [pc : Places, form : Forms \cup {"none"}, input : Inputs \cup {"none"}, secret : 0 .. 2,
     tries : 0 .. ATTEMPTS - 1, calls : 0 .. DATABASE_CALLS, reserved : BOOLEAN,
     evidence : BOOLEAN, unknown : BOOLEAN, answer : Answers]
Transactions ==
    [state : {"none", "open", "read", "sent", "applied"}, stale : BOOLEAN, now : Nat]

\* The shape of every variable.
Shaped ==
    /\ wall \in 0 .. MaxTime
    /\ db \in Databases
    /\ server \in [keys : Nat, gen : Nat, memory : Nat]
    /\ form \in [Forms -> Tokens \cup {None}]
    /\ req \in [Requests -> Submissions]
    /\ tx \in [Requests -> Transactions]
    /\ effects \in [Forms -> Seq(Digests)]

\* A submission names a form that was shown, with the input its kind takes.
Submitted(q) ==
    /\ req[q].form \in Forms /\ form[req[q].form].kind # "none"
    /\ req[q].secret \in 1 .. 2
    /\ (req[q].input = "none") <=> (form[req[q].form].kind = "rotate")
FormsNamed == \A q \in Requests : IF req[q].pc = "idle" THEN req[q] = Idle ELSE Submitted(q)

\* Where a submission stands, by the state of its transaction: a replay has its
\* evidence, and an answer that may be wrong about a COMMIT is known as unknown.
Placed(q) ==
    /\ tx[q].state = "none" => req[q].pc # "commit"
    /\ tx[q].state = "open" => req[q].pc = "commit"
    /\ tx[q].state = "read" => req[q].pc = "commit" /\ req[q].evidence
    /\ tx[q].state \in {"sent", "applied"} =>
            \/ req[q].pc = "navigate"
            \/ req[q].pc = "recover" /\ req[q].unknown
            \/ req[q].pc = "answered" /\ (req[q].answer \in Refusals => req[q].unknown)
TransactionsPlaced == \A q \in Requests : Placed(q)

\* No key is younger than the database's.
KeysFollow ==
    /\ server.keys <= db.keys
    /\ \A f \in Forms : form[f].kind # "none" => form[f].keys <= db.keys

\* A transaction that may still commit was judged over the present database.
Current(q) ==
    LET t == form[req[q].form] IN
    /\ t.keys = db.keys /\ db.observed < t.issued + TTL
    /\ ReceiptVerdict(q) = "none"
    /\ IF t.kind = "rotate" THEN RotationVerdict(q) = "commit" ELSE ActionVerdict(q) = "commit"
Judged == \A q \in Requests : tx[q].state \in {"open", "sent"} /\ ~tx[q].stale => Current(q)

\* A form whose action took effect has its receipt, or cannot be verified again.
Unverifiable(f) == form[f].keys < db.keys \/ form[f].issued + TTL <= db.observed
Spent ==
    \A f \in Forms :
        effects[f] # <<>> =>
            /\ form[f].kind # "none"
            /\ db.receipts[f].digest # Absent \/ Unverifiable(f)

\* A receipt tells what was committed, and lasts as long as its form.
ReceiptsTrue ==
    \A f \in Forms :
        db.receipts[f].digest # Absent =>
            /\ \E k \in DOMAIN effects[f] : effects[f][k] = db.receipts[f].digest
            /\ db.receipts[f].expires = form[f].issued + TTL

\* Whoever is on the way to a success committed what he submitted.
Took(q) == \E k \in DOMAIN effects[req[q].form] : effects[req[q].form][k] = Digest(q)
Told ==
    \A q \in Requests :
        \/ req[q].evidence \/ req[q].pc = "navigate" \/ req[q].answer \in {"ok", "redirected"}
        => Took(q)

\* An answer is the end of a submission.
AnswersLast == \A q \in Requests : req[q].pc = "answered" \/ req[q].answer = "none"

\* Comments are queued with the reply that made them.
CommentsQueued == db.comments \subseteq db.queued /\ IsFiniteSet(db.comments)

\* Rows, counter and queue, and one effect for each form.
RequestsInv ==
    /\ Shaped /\ FormsNamed /\ TransactionsPlaced /\ KeysFollow /\ Judged /\ Spent
    /\ ReceiptsTrue /\ Told /\ AnswersLast /\ CommentsQueued /\ RowsAgree /\ OncePerForm

-----------------------------------------------------------------------------
(* What the model's operators return *)

\* A submission's digest is one a receipt can hold.
LEMMA DigestKnown ==
    ASSUME Shaped, NEW q \in Requests, Submitted(q)
    PROVE  Digest(q) \in Digests
<1>1. req[q] \in Submissions
  BY DEF Shaped
<1>2. req[q].secret = 1 \/ req[q].secret = 2
  BY DEF Submitted
<1>3. CASE form[req[q].form].kind = "rotate"
  BY <1>2, <1>3 DEF Digest, Digests
<1>4. CASE form[req[q].form].kind # "rotate"
  BY <1>1, <1>4 DEF Submitted, Submissions, Digest, Digests
<1> QED
  BY <1>3, <1>4

\* What the steps of each kind of action make of the rows: an action without an
\* error has found its record live, and changes rows, counter and revision
\* together.
Edited(s) == s.post = [db.post EXCEPT !.rev = @ + 1] /\ s.comments = db.comments
Replied(s, f) ==
    /\ s.post = [db.post EXCEPT !.rev = @ + 1, !.count = @ + 1]
    /\ s.comments = db.comments \cup {f} /\ db.post.count + 1 <= MaxCount
Removed(s) ==
    s.post = [db.post EXCEPT !.live = FALSE] /\ s.comments = {} /\ db.comments = {}

\* The outcome of the steps, by the kind of the action.
LEMMA Executed ==
    ASSUME Shaped, NEW f \in Forms, form[f].kind \in {"edit", "reply", "remove", "rotate"}
    PROVE  LET s == ExecuteTransaction(db, f) IN
           /\ s.error \in {"none", "unavailable", "guard", "rejected"}
           /\ s.error = "none" =>
                  CASE form[f].kind = "edit" -> db.post.live /\ Edited(s)
                    [] form[f].kind = "reply" -> db.post.live /\ Replied(s, f)
                    [] form[f].kind = "remove" -> Removed(s)
                    [] form[f].kind = "rotate" -> s.post = db.post /\ s.comments = db.comments
<1> DEFINE before == [post |-> db.post, comments |-> db.comments, error |-> "none"]
<1>1. before.error = "none" /\ before.post = db.post /\ before.comments = db.comments
  OBVIOUS
<1>2. db.post \in Posts
  BY DEF Shaped, Databases
<1>3. CASE form[f].kind = "rotate"
  <2>1. Steps(form[f].kind) = <<>>
    BY <1>3 DEF Steps
  <2>2. ExecuteTransaction(db, f) = before
    BY <2>1 DEF ExecuteTransaction, Performed
  <2> QED
    BY <1>1, <1>3, <2>2
<1>4. CASE form[f].kind = "edit"
  <2>1. Steps(form[f].kind) = <<"update">>
    BY <1>4 DEF Steps
  <2>2. ExecuteTransaction(db, f) = UpdateStep(before)
    <3>1. Performed(before, <<"update">>, 1, f) = UpdateStep(before)
      BY DEF Performed, ApplyStep
    <3>2. \A s : Performed(s, <<"update">>, 2, f) = s
      BY DEF Performed
    <3> QED
      BY <2>1, <3>1, <3>2 DEF ExecuteTransaction
  <2>3. CASE db.post.live
    <3>1. UpdateStep(before) = [before EXCEPT !.post.rev = @ + 1]
      BY <2>3 DEF UpdateStep
    <3> QED
      BY <1>4, <2>2, <2>3, <3>1 DEF Edited
  <2>4. CASE ~db.post.live
    <3>1. UpdateStep(before) = [before EXCEPT !.error = "unavailable"]
      BY <2>4 DEF UpdateStep
    <3> QED
      BY <2>2, <3>1
  <2> QED
    BY <2>3, <2>4
<1>5. CASE form[f].kind = "remove"
  <2>1. Steps(form[f].kind) = <<"delete">>
    BY <1>5 DEF Steps
  <2>2. ExecuteTransaction(db, f) = DeleteStep(before)
    <3>1. Performed(before, <<"delete">>, 1, f) = DeleteStep(before)
      BY DEF Performed, ApplyStep
    <3>2. \A s : Performed(s, <<"delete">>, 2, f) = s
      BY DEF Performed
    <3> QED
      BY <2>1, <3>1, <3>2 DEF ExecuteTransaction
  <2>3. CASE db.comments = {}
    <3>1. DeleteStep(before) = [before EXCEPT !.post.live = FALSE]
      BY <2>3 DEF DeleteStep
    <3> QED
      BY <1>5, <2>2, <2>3, <3>1 DEF Removed
  <2>4. CASE db.comments # {}
    <3>1. DeleteStep(before) = [before EXCEPT !.error = "rejected"]
      BY <2>4 DEF DeleteStep
    <3> QED
      BY <2>2, <3>1
  <2> QED
    BY <2>3, <2>4
<1>6. CASE form[f].kind = "reply"
  <2> DEFINE created == CreateStep(before, f)
  <2>1. Steps(form[f].kind) = <<"create", "increase">>
    BY <1>6 DEF Steps
  <2>2. Performed(before, <<"create", "increase">>, 1, f) = created
    BY DEF Performed, ApplyStep
  <2>3. ExecuteTransaction(db, f) = IF created.error # "none" THEN created
                                    ELSE IncreaseStep(created)
    <3>1. Performed(created, <<"create", "increase">>, 2, f)
              = IF created.error # "none" THEN created ELSE IncreaseStep(created)
      BY DEF Performed, ApplyStep
    <3> QED
      BY <2>1, <2>2, <3>1 DEF ExecuteTransaction
  <2>4. CASE ~db.post.live
    <3>1. created = [before EXCEPT !.error = "unavailable"]
      BY <2>4 DEF CreateStep, ParentReadable
    <3> QED
      BY <2>3, <3>1
  <2>5. CASE db.post.live
    <3>1. created = [before EXCEPT !.comments = @ \cup {f}]
      BY <2>5 DEF CreateStep, ParentReadable, Inserted
    <3>2. created.error = "none" /\ created.post = db.post
          /\ created.comments = db.comments \cup {f}
      BY <3>1
    <3>3. ExecuteTransaction(db, f) = IncreaseStep(created)
      BY <2>3, <3>2
    <3> HIDE DEF created
    <3>4. CASE db.post.count + 1 > MaxCount
      <4>1. IncreaseStep(created) = [created EXCEPT !.error = "guard"]
        BY <3>2, <3>4 DEF IncreaseStep
      <4> QED
        BY <3>1, <3>3, <4>1 DEF created
    <3>5. CASE ~(db.post.count + 1 > MaxCount)
      <4>1. UpdateStep(created) = [created EXCEPT !.post.rev = @ + 1]
        BY <2>5, <3>2 DEF UpdateStep
      <4>2. IncreaseStep(created) = [UpdateStep(created) EXCEPT !.post.count = @ + 1]
        BY <3>2, <3>5 DEF IncreaseStep
      <4>3. created = [post |-> db.post, comments |-> db.comments \cup {f}, error |-> "none"]
        BY <3>1 DEF created
      <4> DEFINE s == IncreaseStep(created)
      <4>4. s.error = "none" /\ s.comments = db.comments \cup {f}
            /\ s.post = [[db.post EXCEPT !.rev = @ + 1] EXCEPT !.count = @ + 1]
        BY <4>1, <4>2, <4>3
      <4>5. db.post.count + 1 <= MaxCount
        BY <1>2, <3>5, RequestsAssumption DEF Posts
      <4>6. s.post = [db.post EXCEPT !.rev = @ + 1, !.count = @ + 1]
        BY <4>4
      <4> HIDE DEF s
      <4>7. Replied(s, f)
        BY <4>4, <4>5, <4>6 DEF Replied
      <4> QED
        BY <1>6, <2>5, <3>3, <4>4, <4>7 DEF s
    <3> QED
      BY <3>4, <3>5
  <2> QED
    BY <2>4, <2>5
<1> QED
  BY <1>3, <1>4, <1>5, <1>6

-----------------------------------------------------------------------------
(* Frames: what a step that leaves a part of the state alone preserves *)

\* A judgement depends on the database, the form and what was submitted.
LEMMA CurrentFramed ==
    ASSUME NEW q \in Requests, Current(q), db' = db,
           form'[req[q].form] = form[req[q].form],
           req'[q].form = req[q].form, req'[q].input = req[q].input,
           req'[q].secret = req[q].secret
    PROVE  Current(q)'
<1>1. Digest(q)' = Digest(q)
  BY DEF Digest
<1>2. ReceiptVerdict(q)' = ReceiptVerdict(q)
  BY <1>1 DEF ReceiptVerdict
<1>3. RotationVerdict(q)' = RotationVerdict(q)
  BY DEF RotationVerdict
<1>4. ResolveTargets(q)' = ResolveTargets(q)
  BY DEF ResolveTargets, CapabilityVerified, TargetAuthorized, TargetAllowed
<1>5. ExecuteTransaction(db, req[q].form)' = ExecuteTransaction(db, req[q].form)
  BY DEF ExecuteTransaction
<1>6. ActionVerdict(q)' = ActionVerdict(q)
  BY <1>4, <1>5 DEF ActionVerdict
<1> QED
  BY <1>2, <1>3, <1>6 DEF Current

\* A step of submission q alone, or of its transaction, that leaves the database
\* as it is: what it must establish of q for everything to stay sound.
Turn(q) ==
    /\ req[q].pc # "idle" /\ req'[q].pc # "idle"
    /\ req' \in [Requests -> Submissions] /\ tx' \in [Requests -> Transactions]
    /\ \A p \in Requests : p # q => req'[p] = req[p] /\ tx'[p] = tx[p]
    /\ req'[q].form = req[q].form /\ req'[q].input = req[q].input
    /\ req'[q].secret = req[q].secret
    /\ req'[q].pc = "answered" \/ req'[q].answer = "none"
Quiet ==
    /\ db' = db /\ form' = form /\ effects' = effects
    /\ wall' = wall
    /\ server' \in [keys : Nat, gen : Nat, memory : Nat] /\ server'.keys <= db.keys

\* A turn of one submission that leaves the database alone keeps the invariant.
LEMMA TurnKeeps ==
    ASSUME RequestsInv, NEW q \in Requests, Turn(q), Quiet,
           Placed(q)',
           tx'[q].state \in {"open", "sent"} /\ ~tx'[q].stale => Current(q),
           \/ req'[q].evidence \/ req'[q].pc = "navigate"
           \/ req'[q].answer \in {"ok", "redirected"}
           => Took(q)
    PROVE  RequestsInv'
<1>1. Shaped'
  BY DEF RequestsInv, Shaped, Turn, Quiet
<1>2. FormsNamed'
  BY DEF RequestsInv, FormsNamed, Submitted, Turn, Quiet
<1>3. TransactionsPlaced'
  <2>1. \A p \in Requests : p # q => Placed(p)'
    BY DEF RequestsInv, TransactionsPlaced, Placed, Turn
  <2> QED
    BY <2>1 DEF TransactionsPlaced
<1>4. KeysFollow'
  BY DEF RequestsInv, KeysFollow, Quiet
<1>5. Judged'
  <2> SUFFICES ASSUME NEW p \in Requests, tx'[p].state \in {"open", "sent"}, ~tx'[p].stale
               PROVE  Current(p)'
    BY DEF Judged
  <2>1. Current(p)
    BY DEF RequestsInv, Judged, Turn
  <2> QED
    BY <2>1, CurrentFramed DEF Turn, Quiet
<1>6. Spent' /\ ReceiptsTrue' /\ CommentsQueued' /\ RowsAgree' /\ OncePerForm'
  BY DEF RequestsInv, Spent, Unverifiable, ReceiptsTrue, CommentsQueued, RowsAgree,
         OncePerForm, Quiet
<1>7. Told'
  <2> SUFFICES ASSUME NEW p \in Requests,
                      \/ req'[p].evidence \/ req'[p].pc = "navigate"
                      \/ req'[p].answer \in {"ok", "redirected"}
               PROVE  Took(p)'
    BY DEF Told
  <2>1. Took(p)
    BY DEF RequestsInv, Told, Turn
  <2> QED
    BY <2>1 DEF Took, Digest, Turn, Quiet
<1>8. AnswersLast'
  BY DEF RequestsInv, AnswersLast, Turn
<1> QED
  BY <1>1, <1>2, <1>3, <1>4, <1>5, <1>6, <1>7, <1>8 DEF RequestsInv

\* Time passing and a process that starts touch neither rows nor submissions.
LEMMA ClockKeeps ==
    ASSUME RequestsInv, wall' \in 0 .. MaxTime,
           server' \in [keys : Nat, gen : Nat, memory : Nat], server'.keys <= db.keys,
           UNCHANGED <<db, form, req, tx, effects>>
    PROVE  RequestsInv'
<1>1. Shaped' /\ FormsNamed' /\ TransactionsPlaced' /\ KeysFollow'
      /\ AnswersLast'
  BY DEF RequestsInv, Shaped, FormsNamed, Submitted, TransactionsPlaced, Placed, KeysFollow,
         AnswersLast
<1>2. Judged'
  BY CurrentFramed DEF RequestsInv, Judged
<1>3. Spent' /\ ReceiptsTrue' /\ Told' /\ CommentsQueued' /\ RowsAgree' /\ OncePerForm'
  BY DEF RequestsInv, Spent, Unverifiable, ReceiptsTrue, Told, Took, Digest, CommentsQueued,
         RowsAgree, OncePerForm
<1> QED
  BY <1>1, <1>2, <1>3 DEF RequestsInv

\* Another transaction's commit makes every open one stale: what it must leave
\* alone are the rows that submissions make and the forms already spent.
LEMMA StaleKeeps ==
    ASSUME RequestsInv, NEW d \in Databases, Stale(d),
           UNCHANGED <<wall, server, form, req, effects>>,
           d.comments = db.comments, d.queued = db.queued, db.keys <= d.keys,
           d.post = [db.post EXCEPT !.author = d.post.author],
           \A f \in Forms : d.receipts[f] = db.receipts[f] \/ d.receipts[f].digest = Absent,
           \A f \in Forms : /\ form[f].kind # "none"
                            /\ db.receipts[f].digest # Absent \/ Unverifiable(f)
                            => \/ d.receipts[f].digest # Absent
                               \/ form[f].keys < d.keys \/ form[f].issued + TTL <= d.observed
    PROVE  RequestsInv'
<1> USE DEF Stale
<1>1. tx' \in [Requests -> Transactions]
  <2>1. \A p \in Requests : tx[p] \in Transactions
    BY DEF RequestsInv, Shaped
  <2>2. \A x \in Transactions : [x EXCEPT !.stale = TRUE] \in Transactions
    BY DEF Transactions
  <2> QED
    BY <2>1, <2>2
<1>2. \A p \in Requests : tx'[p].state = tx[p].state /\ tx'[p].stale
  <2>1. \A p \in Requests : tx[p] \in Transactions
    BY DEF RequestsInv, Shaped
  <2> QED
    BY <2>1 DEF Transactions
<1>3. Shaped'
  BY <1>1 DEF RequestsInv, Shaped
<1>4. FormsNamed'
  BY DEF RequestsInv, FormsNamed, Submitted
<1>5. TransactionsPlaced'
  BY <1>2 DEF RequestsInv, TransactionsPlaced, Placed
<1>6. KeysFollow'
  <2>1. server.keys \in Nat /\ db.keys \in Nat /\ d.keys \in Nat
    BY DEF RequestsInv, Shaped, Databases
  <2>2. \A f \in Forms : form[f].kind # "none" => form[f].keys \in Nat
    BY DEF RequestsInv, Shaped, Tokens, None
  <2> QED
    BY <2>1, <2>2 DEF RequestsInv, KeysFollow
<1>7. Judged'
  BY <1>2 DEF Judged
<1>8. Spent'
  BY DEF RequestsInv, Spent, Unverifiable
<1>9. ReceiptsTrue'
  BY DEF RequestsInv, ReceiptsTrue
<1>10. Told'
  BY DEF RequestsInv, Told, Took, Digest
<1>11. AnswersLast' /\ CommentsQueued' /\ OncePerForm'
  BY DEF RequestsInv, AnswersLast, CommentsQueued, OncePerForm
<1>12. RowsAgree'
  <2>1. d.post.count = db.post.count /\ d.post.live = db.post.live
    BY DEF RequestsInv, Shaped, Databases, Posts
  <2> QED
    BY <2>1 DEF RequestsInv, RowsAgree
<1> QED
  BY <1>3, <1>4, <1>5, <1>6, <1>7, <1>8, <1>9, <1>10, <1>11, <1>12 DEF RequestsInv

-----------------------------------------------------------------------------
(* The step that commits a submission *)

\* A transaction that can still be applied is current, and its form unspent: this
\* is why a form's action takes effect once.
LEMMA ApplicableUnspent ==
    ASSUME RequestsInv, NEW q \in Requests, Applicable(q)
    PROVE  /\ req[q].pc # "idle" /\ Submitted(q) /\ Current(q)
           /\ effects[req[q].form] = <<>>
           /\ db.post.rev < MaxRevision
<1> USE DEF Applicable
<1>1. req[q].pc # "idle"
  BY DEF RequestsInv, TransactionsPlaced, Placed
<1>2. Submitted(q)
  BY <1>1 DEF RequestsInv, FormsNamed
<1>3. Current(q)
  BY DEF RequestsInv, Judged
<1> DEFINE f == req[q].form
<1>4. f \in Forms /\ form[f].kind # "none"
  BY <1>2 DEF Submitted
<1>5. db.receipts[f].digest = Absent
  BY <1>3 DEF Current, ReceiptVerdict
<1>6. form[f] \in Tokens
  BY <1>4 DEF RequestsInv, Shaped, None
<1>7. ~Unverifiable(f)
  <2>1. form[f].keys = db.keys /\ db.observed < form[f].issued + TTL
    BY <1>3 DEF Current
  <2>2. db.keys \in Nat /\ db.observed \in Nat /\ form[f].issued \in Nat /\ TTL \in Nat
    BY <1>6, RequestsAssumption DEF RequestsInv, Shaped, Databases, Tokens
  <2> QED
    BY <2>1, <2>2 DEF Unverifiable
<1>8. effects[f] = <<>>
  BY <1>4, <1>5, <1>7 DEF RequestsInv, Spent
<1> QED
  BY <1>1, <1>2, <1>3, <1>8

\* What a commit writes: the receipt, the rows of the action and its work.
Wrote(q, d) ==
    LET f == req[q].form
        kind == form[f].kind
    IN /\ d.receipts = [db.receipts EXCEPT ![f] = Receipt(q, Advanced(db, f))]
       /\ d.queued = IF kind = "rotate" THEN db.queued ELSE db.queued \cup {f}
       /\ d.observed >= db.observed /\ d.keys = db.keys
       /\ d.post.count = IF kind = "reply" THEN db.post.count + 1 ELSE db.post.count
       /\ d.comments = IF kind = "reply" THEN db.comments \cup {f} ELSE db.comments
       /\ d.post.live = (db.post.live /\ kind # "remove")
       /\ kind = "remove" => db.comments = {}
       /\ kind = "reply" => db.post.live

\* A COMMIT writes what its action's steps make of the rows.
LEMMA CommitWrites ==
    ASSUME RequestsInv, NEW q \in Requests, Applicable(q)
    PROVE  Committed(db, q) \in Databases /\ Wrote(q, Committed(db, q))
<1> DEFINE f == req[q].form
           kind == form[f].kind
           s == ExecuteTransaction(db, f)
           cap == Advanced(db, f)
           base == Persisted(db, tx[q].now)
           d == Committed(db, q)
<1>1. /\ f \in Forms /\ kind \in Kinds \cup {"rotate"}
      /\ Submitted(q) /\ Current(q) /\ db.post.rev < MaxRevision
      /\ form[f] \in Tokens
  BY ApplicableUnspent DEF Submitted, RequestsInv, Shaped, None, Tokens
<1>2. kind \in {"edit", "reply", "remove", "rotate"}
  BY <1>1, RequestsAssumption
<1>3. db \in Databases /\ db.post \in Posts /\ tx[q].now \in Nat /\ db.observed \in Nat
      /\ MaxRevision \in Nat /\ PERSIST_LAG \in Nat /\ TTL \in Nat
  BY RequestsAssumption DEF RequestsInv, Shaped, Databases, Transactions
<1>4. base \in Databases /\ base.receipts = db.receipts /\ base.observed >= db.observed
      /\ base.keys = db.keys /\ base.queued = db.queued
  <2>1. CASE tx[q].now - db.observed > PERSIST_LAG
    <3>1. base = [db EXCEPT !.observed = tx[q].now]
      BY <2>1 DEF Persisted
    <3>2. tx[q].now >= db.observed
      BY <1>3, <2>1
    <3> QED
      BY <1>3, <3>1, <3>2 DEF Databases
  <2>2. CASE ~(tx[q].now - db.observed > PERSIST_LAG)
    <3>1. base = db
      BY <2>2 DEF Persisted
    <3> QED
      BY <1>3, <3>1
  <2> QED
    BY <2>1, <2>2
<1>5. /\ kind = "rotate" => s.post = db.post /\ s.comments = db.comments
      /\ kind = "edit" => db.post.live /\ Edited(s)
      /\ kind = "reply" => db.post.live /\ Replied(s, f)
      /\ kind = "remove" => Removed(s)
  <2>1. /\ s.error \in {"none", "unavailable", "guard", "rejected"}
        /\ s.error = "none" =>
               CASE kind = "edit" -> db.post.live /\ Edited(s)
                 [] kind = "reply" -> db.post.live /\ Replied(s, f)
                 [] kind = "remove" -> Removed(s)
                 [] kind = "rotate" -> s.post = db.post /\ s.comments = db.comments
    <3>1. Shaped
      BY DEF RequestsInv
    <3> HIDE DEF s
    <3> QED
      BY <1>1, <1>2, <3>1, Executed DEF s
  <2>2. CASE kind = "rotate"
    <3>1. s = [post |-> db.post, comments |-> db.comments, error |-> "none"]
      BY <2>2 DEF ExecuteTransaction, Performed, Steps
    <3> HIDE DEF s
    <3> QED
      BY <2>2, <3>1
  <2>3. CASE kind # "rotate"
    <3>1. ActionVerdict(q) = "commit"
      BY <1>1, <2>3 DEF Current
    <3>2. ResolveTargets(q) \in {"none", "unavailable", "conflict"}
      BY DEF ResolveTargets
    <3>3. s.error = "none"
      <4> HIDE DEF s
      <4> QED
        BY <2>1, <3>1, <3>2 DEF ActionVerdict, s
    <3> HIDE DEF s
    <3> QED
      BY <1>2, <2>1, <2>3, <3>3
  <2> QED
    BY <2>2, <2>3
<1>6. cap = IF kind = "rotate" THEN db.post.cap + 1 ELSE db.post.cap
  BY DEF Advanced
<1>7. Receipt(q, cap) \in Receipts
  <2>1. Digest(q) \in Digests
    BY <1>1, DigestKnown DEF RequestsInv
  <2>2. cap \in Nat
    BY <1>3, <1>6 DEF Posts
  <2>3. form[f].issued + TTL \in Nat
    BY <1>1, <1>3 DEF Tokens
  <2> HIDE DEF cap
  <2> QED
    BY <2>1, <2>2, <2>3 DEF Receipt, Receipts
<1> DEFINE post == [s.post EXCEPT !.cap = cap]
<1>8. d = [base EXCEPT !.post = post, !.comments = s.comments, !.queued = Queued(db, f),
                       !.receipts[f] = Receipt(q, cap)]
  BY DEF Committed
<1>9. Queued(db, f) = IF kind = "rotate" THEN db.queued ELSE db.queued \cup {f}
  BY DEF Queued
<1> HIDE DEF s, base, d, cap
<1>10. /\ post \in Posts /\ s.comments \in SUBSET Forms
       /\ post.count = IF kind = "reply" THEN db.post.count + 1 ELSE db.post.count
       /\ s.comments = IF kind = "reply" THEN db.comments \cup {f} ELSE db.comments
       /\ post.live = (db.post.live /\ kind # "remove")
       /\ kind = "remove" => db.comments = {}
       /\ kind = "reply" => db.post.live
  <2>1. db.comments \in SUBSET Forms /\ MaxCount \in Nat /\ cap \in Nat \ {0}
        /\ db.post.rev \in Nat /\ db.post.count \in Nat
    BY <1>3, <1>6, RequestsAssumption DEF Databases, Posts
  <2>2. CASE kind = "rotate"
    BY <1>3, <1>5, <2>1, <2>2 DEF Posts
  <2>3. CASE kind = "edit"
    BY <1>1, <1>3, <1>5, <2>1, <2>3 DEF Posts, Edited
  <2>4. CASE kind = "reply"
    <3> DEFINE r == db.post.rev + 1
               n == db.post.count + 1
    <3>1. r \in 1 .. MaxRevision /\ n \in 0 .. MaxCount
      BY <1>1, <1>3, <1>5, <2>1, <2>4 DEF Replied
    <3>2. s.post = [db.post EXCEPT !.rev = r, !.count = n]
      BY <1>5, <2>4 DEF Replied
    <3>3. s.comments = db.comments \cup {f} /\ db.post.live
      BY <1>5, <2>4 DEF Replied
    <3>4. post.count = n
      BY <1>3, <3>2 DEF Posts
    <3>5. post.live = db.post.live
      BY <1>3, <3>2 DEF Posts
    <3> HIDE DEF r, n
    <3>6. post \in Posts
      BY <1>3, <2>1, <3>1, <3>2 DEF Posts
    <3> HIDE DEF post
    <3> QED
      BY <1>1, <2>1, <2>4, <3>3, <3>4, <3>5, <3>6 DEF n
  <2>5. CASE kind = "remove"
    BY <1>3, <1>5, <2>1, <2>5 DEF Posts, Removed
  <2> QED
    BY <1>2, <2>2, <2>3, <2>4, <2>5
<1> HIDE DEF post
<1>11. db.queued \in SUBSET Forms
  BY <1>3 DEF Databases
<1>12. Queued(db, f) \in SUBSET Forms
  BY <1>1, <1>9, <1>11
<1>13. /\ d.post = post /\ d.comments = s.comments /\ d.queued = Queued(db, f)
       /\ d.receipts = [base.receipts EXCEPT ![f] = Receipt(q, cap)]
       /\ d.observed = base.observed /\ d.keys = base.keys
  BY <1>4, <1>8 DEF Databases
<1>14. d \in Databases
  <2>1. base.receipts \in [Forms -> Receipts]
    BY <1>4 DEF Databases
  <2>2. [base.receipts EXCEPT ![f] = Receipt(q, cap)] \in [Forms -> Receipts]
    BY <1>1, <1>7, <2>1
  <2> DEFINE new == [base.receipts EXCEPT ![f] = Receipt(q, cap)]
  <2>3. d = [base EXCEPT !.post = post, !.comments = s.comments, !.queued = Queued(db, f),
                         !.receipts = new]
    BY <1>8
  <2> HIDE DEF new
  <2> QED
    BY <1>4, <1>10, <1>12, <2>2, <2>3 DEF Databases, new
<1>15. Wrote(q, d)
  BY <1>4, <1>9, <1>10, <1>13 DEF Wrote, cap
<1> QED
  BY <1>14, <1>15 DEF d

\* A committed submission leaves everything sound.
LEMMA CommitKeeps ==
    ASSUME RequestsInv, NEW q \in Requests, Applicable(q), Commits(q),
           UNCHANGED <<wall, server, form>>,
           req'[q].pc # "idle", req' \in [Requests -> Submissions],
           \A p \in Requests : p # q => req'[p] = req[p],
           req'[q].form = req[q].form, req'[q].input = req[q].input,
           req'[q].secret = req[q].secret,
           req'[q].pc = "answered" \/ req'[q].answer = "none",
           Placed(q)'
    PROVE  RequestsInv'
<1> DEFINE f == req[q].form
           kind == form[f].kind
<1>1. /\ req[q].pc # "idle" /\ Submitted(q) /\ Current(q) /\ effects[f] = <<>>
      /\ f \in Forms /\ kind # "none"
  BY ApplicableUnspent DEF Submitted
<1>2. db' \in Databases /\ Wrote(q, db')
  BY CommitWrites DEF Commits
<1>3. Digest(q) \in Digests
  BY <1>1, DigestKnown DEF RequestsInv
<1>4. effects' \in [Forms -> Seq(Digests)] /\ effects'[f] = <<Digest(q)>>
      /\ \A g \in Forms : g # f => effects'[g] = effects[g]
  <2>1. effects \in [Forms -> Seq(Digests)]
    BY DEF RequestsInv, Shaped
  <2>2. Append(effects[f], Digest(q)) = <<Digest(q)>>
    BY <1>1
  <2>3. <<Digest(q)>> \in Seq(Digests)
    BY <1>3
  <2>4. effects' = [effects EXCEPT ![f] = <<Digest(q)>>]
    BY <2>2 DEF Commits
  <2> QED
    BY <1>1, <2>1, <2>3, <2>4
<1>5. /\ tx' \in [Requests -> Transactions]
      /\ tx'[q].state = "applied"
      /\ \A p \in Requests : p # q => tx'[p].state = tx[p].state /\ tx'[p].stale
  <2>1. \A p \in Requests : tx[p] \in Transactions
    BY DEF RequestsInv, Shaped
  <2>2. \A x \in Transactions : /\ [x EXCEPT !.stale = TRUE] \in Transactions
                                /\ [x EXCEPT !.stale = TRUE].state = x.state
                                /\ [x EXCEPT !.stale = TRUE].stale
                                /\ [x EXCEPT !.state = "applied"] \in Transactions
                                /\ [x EXCEPT !.state = "applied"].state = "applied"
    BY DEF Transactions
  <2>3. tx' = [p \in Requests |-> IF p = q THEN [tx[q] EXCEPT !.state = "applied"]
                                  ELSE [tx[p] EXCEPT !.stale = TRUE]]
    BY DEF Commits
  <2> QED
    BY <2>1, <2>2, <2>3
<1>6. Shaped'
  BY <1>2, <1>4, <1>5 DEF RequestsInv, Shaped
<1>7. FormsNamed'
  BY <1>1 DEF RequestsInv, FormsNamed, Submitted
<1>8. TransactionsPlaced'
  <2> SUFFICES ASSUME NEW p \in Requests
               PROVE  Placed(p)'
    BY DEF TransactionsPlaced
  <2>1. CASE p = q
    BY <2>1
  <2>2. CASE p # q
    <3>1. Placed(p) /\ req'[p] = req[p] /\ tx'[p].state = tx[p].state
      BY <1>5, <2>2 DEF RequestsInv, TransactionsPlaced
    <3> QED
      BY <3>1 DEF Placed
  <2> QED
    BY <2>1, <2>2
<1>9. KeysFollow'
  BY <1>2 DEF RequestsInv, KeysFollow, Wrote
<1>10. Judged'
  BY <1>5 DEF Judged
<1>11. db.receipts \in [Forms -> Receipts]
  BY DEF RequestsInv, Shaped, Databases
<1>12. /\ db'.receipts[f] = Receipt(q, Advanced(db, f))
       /\ \A g \in Forms : g # f => db'.receipts[g] = db.receipts[g]
  BY <1>1, <1>2, <1>11 DEF Wrote
<1>13. db'.receipts[f].digest = Digest(q) /\ db'.receipts[f].expires = form[f].issued + TTL
  BY <1>12 DEF Receipt
<1>14. Digest(q) # Absent
  BY <1>3, RequestsAssumption DEF Digests, Secret, Absent
<1>15. db'.observed \in Nat /\ db.observed \in Nat /\ TTL \in Nat
       /\ db'.observed >= db.observed /\ db'.keys = db.keys
  BY <1>2, RequestsAssumption DEF RequestsInv, Shaped, Databases, Wrote
<1>16. Spent'
  <2> SUFFICES ASSUME NEW g \in Forms, effects'[g] # <<>>
               PROVE  /\ form[g].kind # "none"
                      /\ db'.receipts[g].digest # Absent \/ Unverifiable(g)'
    BY DEF Spent
  <2>1. CASE g = f
    BY <1>1, <1>13, <1>14, <2>1
  <2>2. CASE g # f
    <3>1. /\ form[g].kind # "none"
          /\ db.receipts[g].digest # Absent \/ Unverifiable(g)
      BY <1>4, <2>2 DEF RequestsInv, Spent
    <3>2. form[g].issued \in Nat
      BY <3>1 DEF RequestsInv, Shaped, Tokens, None
    <3>3. Unverifiable(g) => Unverifiable(g)'
      BY <1>15, <3>2 DEF Unverifiable
    <3> QED
      BY <1>12, <2>2, <3>1, <3>3
  <2> QED
    BY <2>1, <2>2
<1>17. ReceiptsTrue'
  <2> SUFFICES ASSUME NEW g \in Forms, db'.receipts[g].digest # Absent
               PROVE  /\ \E k \in DOMAIN effects'[g] : effects'[g][k] = db'.receipts[g].digest
                      /\ db'.receipts[g].expires = form[g].issued + TTL
    BY DEF ReceiptsTrue
  <2>1. CASE g = f
    <3>1. 1 \in DOMAIN effects'[f] /\ effects'[f][1] = Digest(q)
      BY <1>4
    <3> QED
      BY <1>13, <2>1, <3>1
  <2>2. CASE g # f
    BY <1>4, <1>12, <2>2 DEF RequestsInv, ReceiptsTrue
  <2> QED
    BY <2>1, <2>2
<1>18. \A p \in Requests : Digest(p)' = Digest(p)
  BY DEF Digest
<1>19. Told'
  <2> SUFFICES ASSUME NEW p \in Requests,
                      \/ req'[p].evidence \/ req'[p].pc = "navigate"
                      \/ req'[p].answer \in {"ok", "redirected"}
               PROVE  Took(p)'
    BY DEF Told
  <2>1. CASE p = q
    <3>1. 1 \in DOMAIN effects'[f] /\ effects'[f][1] = Digest(q)
      BY <1>4
    <3> QED
      BY <1>18, <2>1, <3>1 DEF Took
  <2>2. CASE p # q
    <3>1. Took(p)
      BY <2>2 DEF RequestsInv, Told
    <3>2. req'[p] = req[p] /\ req[p].pc # "idle"
      BY <2>2 DEF RequestsInv, FormsNamed, Idle
    <3>3. req[p].form \in Forms
      BY <3>2 DEF RequestsInv, FormsNamed, Submitted
    <3>4. req[p].form # f
      BY <1>1, <3>1 DEF Took
    <3> QED
      BY <1>4, <1>18, <3>1, <3>2, <3>3, <3>4 DEF Took
  <2> QED
    BY <2>1, <2>2
<1>20. f \notin db.queued
  BY <1>1 DEF RequestsInv, RowsAgree
<1>21. f \notin db.comments /\ IsFiniteSet(db.comments)
  BY <1>20 DEF RequestsInv, CommentsQueued
<1>22. CommentsQueued'
  <2>1. IsFiniteSet(db'.comments)
    BY <1>2, <1>21, FS_AddElement DEF Wrote
  <2>2. db'.comments \subseteq db'.queued
    BY <1>2 DEF RequestsInv, CommentsQueued, Wrote
  <2> QED
    BY <2>1, <2>2 DEF CommentsQueued
<1>23. RowsAgree'
  <2>1. db'.post.count = Cardinality(db'.comments)
    <3>1. Cardinality(db.comments \cup {f}) = Cardinality(db.comments) + 1
      BY <1>21, FS_AddElement
    <3> QED
      BY <1>2, <3>1 DEF RequestsInv, RowsAgree, Wrote
  <2>2. ~db'.post.live => db'.comments = {}
    BY <1>2 DEF RequestsInv, RowsAgree, Wrote
  <2>3. ASSUME NEW g \in Forms
        PROVE  (Len(effects'[g]) > 0 /\ form[g].kind # "rotate") <=> g \in db'.queued
    <3>1. CASE g = f
      <4>1. Len(effects'[f]) > 0
        BY <1>4
      <4> QED
        BY <1>2, <1>20, <3>1, <4>1 DEF Wrote
    <3>2. CASE g # f
      BY <1>2, <1>4, <3>2 DEF RequestsInv, RowsAgree, Wrote
    <3> QED
      BY <3>1, <3>2
  <2> QED
    BY <2>1, <2>2, <2>3 DEF RowsAgree
<1>24. OncePerForm'
  <2>1. Len(effects'[f]) = 1
    BY <1>4
  <2>2. ASSUME NEW g \in Forms, g # f PROVE Len(effects'[g]) <= 1
    <3>1. effects'[g] = effects[g]
      BY <1>4, <2>2
    <3>2. Len(effects[g]) <= 1
      BY DEF RequestsInv, OncePerForm
    <3> QED
      BY <3>1, <3>2
  <2>3. ASSUME NEW g \in Forms PROVE Len(effects'[g]) <= 1
    <3>1. CASE g = f
      <4>1. Len(effects'[g]) = 1
        BY <2>1, <3>1
      <4> QED
        BY <4>1
    <3>2. CASE g # f
      BY <2>2, <3>2
    <3> QED
      BY <3>1, <3>2
  <2> QED
    BY <2>3 DEF OncePerForm
<1>25. AnswersLast'
  BY DEF RequestsInv, AnswersLast
<1> QED
  BY <1>6, <1>7, <1>8, <1>9, <1>10, <1>16, <1>17, <1>19, <1>22, <1>23, <1>24,
     <1>25 DEF RequestsInv

-----------------------------------------------------------------------------
(* The steps of a submission *)

\* What each way to end a step of submission q makes of it.
LEMMA AnswerTurns ==
    ASSUME RequestsInv, NEW q \in Requests, req[q].pc # "idle",
           NEW what \in Answers, Answer(q, what)
    PROVE  /\ req' \in [Requests -> Submissions]
           /\ req'[q].pc = "answered" /\ req'[q].answer = what
           /\ req'[q].evidence = req[q].evidence /\ req'[q].unknown = req[q].unknown
           /\ \A p \in Requests : p # q => req'[p] = req[p]
           /\ req'[q].form = req[q].form /\ req'[q].input = req[q].input
           /\ req'[q].secret = req[q].secret
<1>1. req \in [Requests -> Submissions]
  BY DEF RequestsInv, Shaped
<1> DEFINE r == [req[q] EXCEPT !.pc = "answered", !.answer = what]
<1>2. req' = [req EXCEPT ![q] = r]
  BY DEF Answer
<1>3. /\ r \in Submissions /\ r.pc = "answered" /\ r.answer = what
      /\ r.evidence = req[q].evidence /\ r.unknown = req[q].unknown
      /\ r.form = req[q].form /\ r.input = req[q].input /\ r.secret = req[q].secret
  <2>1. req[q] \in Submissions
    BY <1>1
  <2> QED
    BY <2>1 DEF Submissions, Places
<1> HIDE DEF r
<1> QED
  BY <1>1, <1>2, <1>3

\* What a submission is after it moved to another place.
LEMMA PlaceTurns ==
    ASSUME RequestsInv, NEW q \in Requests, req[q].pc # "idle",
           NEW place \in Places, NEW unknown \in BOOLEAN, NEW tries \in 0 .. ATTEMPTS - 1,
           req' = [req EXCEPT ![q] = [req[q] EXCEPT !.pc = place, !.unknown = unknown,
                                                    !.tries = tries]]
    PROVE  /\ req' \in [Requests -> Submissions]
           /\ req'[q].pc = place /\ req'[q].answer = req[q].answer
           /\ req'[q].evidence = req[q].evidence /\ req'[q].unknown = unknown
           /\ \A p \in Requests : p # q => req'[p] = req[p]
           /\ req'[q].form = req[q].form /\ req'[q].input = req[q].input
           /\ req'[q].secret = req[q].secret
<1>1. req \in [Requests -> Submissions]
  BY DEF RequestsInv, Shaped
<1> DEFINE r == [req[q] EXCEPT !.pc = place, !.unknown = unknown, !.tries = tries]
<1>2. req' = [req EXCEPT ![q] = r]
  OBVIOUS
<1>3. /\ r \in Submissions /\ r.pc = place /\ r.answer = req[q].answer
      /\ r.evidence = req[q].evidence /\ r.unknown = unknown
      /\ r.form = req[q].form /\ r.input = req[q].input /\ r.secret = req[q].secret
  <2>1. req[q] \in Submissions
    BY <1>1
  <2> QED
    BY <2>1 DEF Submissions
<1> HIDE DEF r
<1> QED
  BY <1>1, <1>2, <1>3

\* Preparing: a verdict of "commit" is a judgement over the present database, one
\* of "replay" has found the receipt of this very input.
LEMMA VerdictJudges ==
    ASSUME RequestsInv, NEW q \in Requests, req[q].pc # "idle"
    PROVE  /\ Verdict(q) = "commit" => Current(q)
           /\ Verdict(q) = "replay" => Took(q)
           /\ Verdict(q) \in Refusals \cup {"commit", "replay"}
<1> DEFINE f == req[q].form
<1>1. f \in Forms /\ form[f].kind # "none" /\ Submitted(q)
  BY DEF RequestsInv, FormsNamed, Submitted
<1>2. form[f] \in Tokens /\ form[f].kind \in {"edit", "reply", "remove", "rotate"}
  <2>1. form[f] \in Tokens
    BY <1>1 DEF RequestsInv, Shaped, None
  <2> QED
    BY <2>1, RequestsAssumption DEF Tokens
<1>3. ReceiptVerdict(q) \in {"none", "replay", "invalid"}
  BY DEF ReceiptVerdict
<1>4. RotationVerdict(q) \in {"commit", "invalid"}
  BY DEF RotationVerdict
<1>5. ActionVerdict(q) \in {"commit", "unavailable", "conflict", "guard", "rejected"}
  <2>1. ResolveTargets(q) \in {"none", "unavailable", "conflict"}
    BY DEF ResolveTargets
  <2>2. ExecuteTransaction(db, f).error \in {"none", "unavailable", "guard", "rejected"}
    BY <1>1, <1>2, Executed DEF RequestsInv
  <2> QED
    BY <2>1, <2>2 DEF ActionVerdict
<1>6. Verdict(q) \in Refusals \cup {"commit", "replay"}
  BY <1>3, <1>4, <1>5 DEF Verdict, Refusals
<1>7. ASSUME Verdict(q) = "commit" PROVE Current(q)
  <2>1. /\ Admitted /\ ClockHolds /\ IdentityHolds(form[f], Now)
        /\ ReceiptVerdict(q) = "none"
        /\ IF form[f].kind = "rotate" THEN RotationVerdict(q) = "commit"
           ELSE ActionVerdict(q) = "commit"
    BY <1>3, <1>4, <1>5, <1>7 DEF Verdict
  <2>2. form[f].keys = db.keys
    BY <2>1 DEF IdentityHolds, Verified, Admitted
  <2>3. db.observed < form[f].issued + TTL
    <3>1. Now < form[f].issued + TTL
      BY <2>1 DEF IdentityHolds, Verified
    <3>2. Now >= db.observed /\ Now \in Nat
      <4>1. wall \in Nat /\ db.observed \in Nat /\ server.memory \in Nat
        BY RequestsAssumption DEF RequestsInv, Shaped, Databases
      <4> QED
        BY <4>1 DEF Now, High, Larger
    <3>3. db.observed \in Nat /\ form[f].issued + TTL \in Nat
      <4>1. form[f].issued \in Nat /\ TTL \in Nat
        BY <1>2, RequestsAssumption DEF Tokens
      <4>2. db.observed \in Nat
        BY DEF RequestsInv, Shaped, Databases
      <4>3. form[f].issued + TTL \in Nat
        BY <4>1
      <4> QED
        BY <4>2, <4>3
    <3> QED
      BY <3>1, <3>2, <3>3
  <2> QED
    BY <2>1, <2>2, <2>3 DEF Current
<1>8. ASSUME Verdict(q) = "replay" PROVE Took(q)
  <2>1. ReceiptVerdict(q) = "replay"
    BY <1>3, <1>4, <1>5, <1>8 DEF Verdict
  <2>2. db.receipts[f].digest # Absent /\ db.receipts[f].digest = Digest(q)
    BY <2>1 DEF ReceiptVerdict
  <2> QED
    BY <1>1, <2>2 DEF RequestsInv, ReceiptsTrue, Took
<1> QED
  BY <1>6, <1>7, <1>8

\* The clock memory a step leaves is a time, and the server's keys stay.
LEMMA ServerStays ==
    ASSUME RequestsInv,
           \/ server' = [server EXCEPT !.memory = IF Admitted THEN Larger(@, wall) ELSE @]
           \/ server' = [server EXCEPT !.memory = Larger(@, wall)]
           \/ server' = server
    PROVE  server' \in [keys : Nat, gen : Nat, memory : Nat] /\ server'.keys <= db.keys
<1>1. wall \in Nat /\ server \in [keys : Nat, gen : Nat, memory : Nat]
      /\ server.keys <= db.keys
  BY RequestsAssumption DEF RequestsInv, Shaped, KeysFollow
<1> DEFINE l == Larger(server.memory, wall)
<1>2. l \in Nat
  BY <1>1 DEF Larger
<1>3. \/ server' = [server EXCEPT !.memory = l]
      \/ server' = server
  <2>1. server = [server EXCEPT !.memory = server.memory]
    BY <1>1
  <2> QED
    BY <2>1
<1> HIDE DEF l
<1> QED
  BY <1>1, <1>2, <1>3

\* A submission that ends without a transaction: what it answers is a refusal, a
\* success with evidence, or the admission that nothing is known.
LEMMA PlainAnswer ==
    ASSUME RequestsInv, NEW q \in Requests, req[q].pc # "idle", Quiet,
           NEW what \in Answers, Answer(q, what),
           \A p \in Requests : p # q => tx'[p] = tx[p],
           tx' \in [Requests -> Transactions],
           tx'[q].state \notin {"open", "read"},
           tx'[q].state = "sent" /\ ~tx'[q].stale => Current(q),
           tx'[q].state \in {"sent", "applied"} => (what \in Refusals => req[q].unknown),
           what \in {"ok", "redirected"} => Took(q)
    PROVE  RequestsInv'
<1>1. Turn(q)
  BY AnswerTurns DEF Turn
<1>2. /\ req'[q].pc = "answered" /\ req'[q].answer = what
      /\ req'[q].evidence = req[q].evidence /\ req'[q].unknown = req[q].unknown
  BY AnswerTurns
<1>3. tx'[q].state \in {"none", "sent", "applied"}
  BY DEF Transactions
<1>4. Placed(q)'
  BY <1>2, <1>3 DEF Placed
<1>5. tx'[q].state \in {"open", "sent"} /\ ~tx'[q].stale => Current(q)
  OBVIOUS
<1>6. req'[q].evidence \/ req'[q].pc = "navigate" \/ req'[q].answer \in {"ok", "redirected"}
      => Took(q)
  BY <1>2 DEF RequestsInv, Told
<1> QED
  BY <1>1, <1>4, <1>5, <1>6, TurnKeeps

\* An error that ends the submission or sends it to its recovery: only an unknown
\* outcome may leave a COMMIT under way.
LEMMA SettledKeeps ==
    ASSUME RequestsInv, NEW q \in Requests, req[q].pc \in {"prepare", "commit"}, Quiet,
           NEW error \in Refusals \cup {"unknown"}, Settled(q, error),
           \A p \in Requests : p # q => tx'[p] = tx[p],
           tx' \in [Requests -> Transactions],
           tx'[q].state \in {"none", "sent"},
           tx'[q].state = "sent" => error = "unknown" /\ (~tx'[q].stale => Current(q))
    PROVE  RequestsInv'
<1>1. CASE error = "busy" \/ Rotates(q)
  <2>1. Answer(q, error)
    BY <1>1 DEF Settled
  <2>2. error \in Answers /\ error \notin {"ok", "redirected"}
    BY DEF Answers, Refusals
  <2>3. "unknown" \notin Refusals
    BY DEF Refusals
  <2> QED
    BY <2>1, <2>2, <2>3, PlainAnswer
<1>2. CASE ~(error = "busy" \/ Rotates(q))
  <2> DEFINE u == error = "unknown"
  <2>1. req' = [req EXCEPT ![q].pc = "recover", ![q].unknown = u]
    BY <1>2 DEF Settled
  <2>2. req[q] \in Submissions
    BY DEF RequestsInv, Shaped
  <2> DEFINE n == req[q].tries
  <2>3. n \in 0 .. ATTEMPTS - 1 /\ "recover" \in Places /\ u \in BOOLEAN
    BY <2>2 DEF Submissions, Places
  <2>4. req' = [req EXCEPT ![q] = [req[q] EXCEPT !.pc = "recover", !.unknown = u, !.tries = n]]
    <3>1. [req[q] EXCEPT !.pc = "recover", !.unknown = u, !.tries = n]
              = [req[q] EXCEPT !.pc = "recover", !.unknown = u]
      BY <2>2 DEF Submissions
    <3> HIDE DEF u, n
    <3> QED
      BY <2>1, <3>1
  <2>5. /\ req' \in [Requests -> Submissions]
        /\ req'[q].pc = "recover" /\ req'[q].answer = req[q].answer
        /\ req'[q].evidence = req[q].evidence /\ req'[q].unknown = u
        /\ \A p \in Requests : p # q => req'[p] = req[p]
        /\ req'[q].form = req[q].form /\ req'[q].input = req[q].input
        /\ req'[q].secret = req[q].secret
    <3> HIDE DEF u, n
    <3> QED
      BY <2>3, <2>4, PlaceTurns
  <2>6. Turn(q)
    BY <2>5 DEF Turn, RequestsInv, AnswersLast
  <2>7. Placed(q)'
    BY <2>5 DEF Placed
  <2>8. req'[q].evidence \/ req'[q].pc = "navigate" \/ req'[q].answer \in {"ok", "redirected"}
        => Took(q)
    BY <2>5 DEF RequestsInv, Told
  <2> QED
    BY <2>6, <2>7, <2>8, TurnKeeps
<1> QED
  BY <1>1, <1>2

\* The next attempt, or the answer that the service is busy.
LEMMA RetriedKeeps ==
    ASSUME RequestsInv, NEW q \in Requests, req[q].pc \in {"prepare", "commit"}, Quiet, Retried(q),
           \A p \in Requests : p # q => tx'[p] = tx[p],
           tx' \in [Requests -> Transactions], tx'[q].state = "none"
    PROVE  RequestsInv'
<1>1. CASE req[q].tries + 1 < ATTEMPTS
  <2>1. req' = [req EXCEPT ![q].pc = "prepare", ![q].tries = @ + 1]
    BY <1>1 DEF Retried
  <2>2. req[q] \in Submissions
    BY DEF RequestsInv, Shaped
  <2> DEFINE n == req[q].tries + 1
             u == req[q].unknown
  <2>3. n \in 0 .. ATTEMPTS - 1 /\ "prepare" \in Places /\ u \in BOOLEAN
    BY <1>1, <2>2, RequestsAssumption DEF Submissions, Places
  <2>4. req' = [req EXCEPT ![q] = [req[q] EXCEPT !.pc = "prepare", !.unknown = u, !.tries = n]]
    <3>1. req' = [req EXCEPT ![q] = [req[q] EXCEPT !.pc = "prepare", !.tries = n]]
      BY <2>1
    <3>2. [req[q] EXCEPT !.pc = "prepare", !.unknown = u, !.tries = n]
              = [req[q] EXCEPT !.pc = "prepare", !.tries = n]
      BY <2>2 DEF Submissions
    <3> HIDE DEF u, n
    <3> QED
      BY <3>1, <3>2
  <2>5. /\ req' \in [Requests -> Submissions]
        /\ req'[q].pc = "prepare" /\ req'[q].answer = req[q].answer
        /\ req'[q].evidence = req[q].evidence
        /\ \A p \in Requests : p # q => req'[p] = req[p]
        /\ req'[q].form = req[q].form /\ req'[q].input = req[q].input
        /\ req'[q].secret = req[q].secret
    <3> HIDE DEF u, n
    <3> QED
      BY <2>3, <2>4, PlaceTurns
  <2>6. Turn(q)
    BY <2>5 DEF Turn, RequestsInv, AnswersLast
  <2>7. Placed(q)'
    BY <2>5 DEF Placed
  <2>8. req'[q].evidence \/ req'[q].pc = "navigate" \/ req'[q].answer \in {"ok", "redirected"}
        => Took(q)
    BY <2>5 DEF RequestsInv, Told
  <2> QED
    BY <2>6, <2>7, <2>8, TurnKeeps
<1>2. CASE ~(req[q].tries + 1 < ATTEMPTS)
  <2>1. Answer(q, "busy")
    BY <1>2 DEF Retried
  <2>2. "busy" \in Answers
    BY DEF Answers, Refusals
  <2> QED
    BY <2>1, <2>2, PlainAnswer
<1> QED
  BY <1>1, <1>2

\* A submission under way has no transaction while it prepares or recovers,
\* unless a COMMIT of unknown outcome is still on its way.
LEMMA WhereItStands ==
    ASSUME RequestsInv, NEW q \in Requests
    PROVE  /\ req[q].pc = "prepare" => tx[q].state = "none"
           /\ tx[q].state \in {"open", "read", "sent", "applied"} => req[q].pc # "idle"
           /\ req[q].pc = "recover" /\ tx[q].state \in {"sent", "applied"} => req[q].unknown
           /\ req[q].pc = "recover" => tx[q].state \notin {"open", "read"}
           /\ req[q].pc = "navigate" => tx[q].state \notin {"open", "read"}
           /\ tx[q] \in Transactions
<1>1. tx[q] \in Transactions /\ Placed(q)
  BY DEF RequestsInv, Shaped, TransactionsPlaced
<1>2. tx[q].state \in {"none", "open", "read", "sent", "applied"}
  BY <1>1 DEF Transactions
<1> QED
  BY <1>1, <1>2 DEF Placed

\* PrepareFails settles without a transaction.
LEMMA PrepareFailsKeeps ==
    ASSUME RequestsInv, NEW q \in Requests, req[q].pc = "prepare", Quiet,
           NEW error \in Refusals, PrepareFails(q, error)
    PROVE  RequestsInv'
<1>1. tx[q].state = "none" /\ tx' = tx /\ tx' \in [Requests -> Transactions]
  BY WhereItStands DEF PrepareFails, RequestsInv, Shaped
<1>2. CASE req[q].evidence
  <2>1. Answer(q, "ok")
    BY <1>2 DEF PrepareFails
  <2>2. "ok" \in Answers /\ Took(q)
    BY <1>2 DEF Answers, RequestsInv, Told
  <2> QED
    BY <1>1, <2>1, <2>2, PlainAnswer
<1>3. CASE ~req[q].evidence /\ error \in SettledOutcomes
  <2>1. Answer(q, error)
    BY <1>3 DEF PrepareFails
  <2>2. error \in Answers /\ error \notin {"ok", "redirected"}
    BY DEF Answers, Refusals
  <2> QED
    BY <1>1, <2>1, <2>2, PlainAnswer
<1>4. CASE ~req[q].evidence /\ error \notin SettledOutcomes
  <2>1. Settled(q, error)
    BY <1>4 DEF PrepareFails
  <2> QED
    BY <1>1, <2>1, SettledKeeps
<1> QED
  BY <1>2, <1>3, <1>4

-----------------------------------------------------------------------------
(* The actions of a submission *)

\* What a submission is charged is a number.
LEMMA CostCounts ==
    ASSUME RequestsInv, NEW q \in Requests, Submitted(q)
    PROVE  Cost(q) \in Nat
<1> DEFINE kind == form[req[q].form].kind
<1>1. kind \in {"edit", "reply", "remove", "rotate"}
  <2>1. form[req[q].form] \in Tokens
    BY DEF RequestsInv, Shaped, None, Submitted
  <2> QED
    BY <2>1, RequestsAssumption DEF Tokens
<1>2. Len(Steps(kind)) \in Nat
  <2>1. Len(<<"update">>) = 1 /\ Len(<<"create", "increase">>) = 2 /\ Len(<<"delete">>) = 1
        /\ Len(<<>>) = 0
    OBVIOUS
  <2>2. Steps(kind) \in {<<"update">>, <<"create", "increase">>, <<"delete">>, <<>>}
    BY <1>1 DEF Steps
  <2> QED
    BY <2>1, <2>2
<1> HIDE DEF kind
<1> QED
  BY <1>2 DEF Cost, kind

\* A transaction is opened on a verdict over the database it reads.
LEMMA PrepareKeeps ==
    ASSUME RequestsInv, NEW q \in Requests, Prepare(q)
    PROVE  RequestsInv'
<1>1. req[q].pc = "prepare" /\ req[q].pc # "idle"
  BY DEF Prepare
<1>2. Quiet
  BY ServerStays DEF Prepare, Quiet
<1>3. tx[q].state = "none" /\ tx \in [Requests -> Transactions] /\ req[q] \in Submissions
      /\ req \in [Requests -> Submissions]
  BY <1>1, WhereItStands DEF RequestsInv, Shaped
<1>4. CASE Verdict(q) \notin {"commit", "replay"}
  <2>1. PrepareFails(q, Verdict(q))
    BY <1>4 DEF Prepare
  <2>2. Verdict(q) \in Refusals
    BY <1>1, <1>4, VerdictJudges
  <2> QED
    BY <1>1, <1>2, <2>1, <2>2, PrepareFailsKeeps
<1>5. CASE Verdict(q) \in {"commit", "replay"}
  <2> DEFINE commits == Verdict(q) = "commit"
             calls == IF commits THEN req[q].calls - Cost(q) ELSE req[q].calls
             reserved == req[q].reserved \/ commits
             evidence == req[q].evidence \/ Verdict(q) = "replay"
             r == [req[q] EXCEPT !.pc = "commit", !.calls = calls, !.reserved = reserved,
                                 !.evidence = evidence]
             x == [state |-> IF commits THEN "open" ELSE "read", stale |-> FALSE,
                   now |-> Now]
  <2>1. req' = [req EXCEPT ![q] = r] /\ tx' = [tx EXCEPT ![q] = x]
    BY <1>5 DEF Prepare
  <2>2. calls \in 0 .. DATABASE_CALLS
    <3>1. Submitted(q)
      BY <1>1 DEF RequestsInv, FormsNamed
    <3>2. Cost(q) \in Nat /\ req[q].calls \in 0 .. DATABASE_CALLS /\ DATABASE_CALLS \in Nat
      BY <1>3, <3>1, CostCounts, RequestsAssumption DEF Submissions
    <3>3. Verdict(q) = "commit" => Cost(q) <= req[q].calls
      BY <1>5 DEF Prepare
    <3> QED
      BY <3>2, <3>3
  <2>3. reserved \in BOOLEAN /\ evidence \in BOOLEAN
    BY <1>3 DEF Submissions
  <2>4. /\ r \in Submissions /\ r.pc = "commit" /\ r.evidence = evidence
        /\ r.answer = req[q].answer
        /\ r.form = req[q].form /\ r.input = req[q].input /\ r.secret = req[q].secret
    <3> HIDE DEF calls, reserved, evidence
    <3> QED
      BY <1>3, <2>2, <2>3 DEF Submissions, Places
  <2>5. x \in Transactions /\ x.state \in {"open", "read"}
        /\ (x.state \in {"open", "sent"} => Verdict(q) = "commit")
        /\ (x.state = "read" => evidence)
    <3>1. Now \in Nat
      <4>1. wall \in Nat /\ db.observed \in Nat /\ server.memory \in Nat
        BY RequestsAssumption DEF RequestsInv, Shaped, Databases
      <4> QED
        BY <4>1 DEF Now, High, Larger
    <3> QED
      BY <1>5, <3>1 DEF Transactions
  <2> HIDE DEF r, x
  <2>6. req'[q] = r /\ tx'[q] = x
        /\ req' \in [Requests -> Submissions] /\ tx' \in [Requests -> Transactions]
        /\ \A p \in Requests : p # q => req'[p] = req[p] /\ tx'[p] = tx[p]
    BY <1>3, <2>1, <2>4, <2>5
  <2>7. Turn(q)
    BY <1>1, <2>4, <2>6 DEF Turn, RequestsInv, AnswersLast
  <2>8. Placed(q)'
    BY <2>4, <2>5, <2>6 DEF Placed
  <2>9. tx'[q].state \in {"open", "sent"} /\ ~tx'[q].stale => Current(q)
    BY <1>1, <2>5, <2>6, VerdictJudges
  <2>10. req'[q].evidence \/ req'[q].pc = "navigate" \/ req'[q].answer \in {"ok", "redirected"}
         => Took(q)
    BY <1>1, <2>4, <2>6, VerdictJudges DEF RequestsInv, Told
  <2> QED
    BY <1>2, <2>7, <2>8, <2>9, <2>10, TurnKeeps
<1> QED
  BY <1>4, <1>5

\* A submission that is refused has committed nothing.
LEMMA PrepareStopsKeeps ==
    ASSUME RequestsInv, NEW q \in Requests, PrepareStops(q)
    PROVE  RequestsInv'
<1>1. req[q].pc = "prepare"
  BY DEF PrepareStops
<1>2. Quiet
  BY ServerStays DEF PrepareStops, Quiet
<1>3. PICK error \in Refusals : PrepareFails(q, error)
  BY DEF PrepareStops, Refusals
<1> QED
  BY <1>1, <1>2, <1>3, PrepareFailsKeeps

\* A submission whose transaction failed to open tries again.
LEMMA PrepareRetriesKeeps ==
    ASSUME RequestsInv, NEW q \in Requests, PrepareRetries(q)
    PROVE  RequestsInv'
<1>1. req[q].pc = "prepare" /\ req[q].pc # "idle"
  BY DEF PrepareRetries
<1>2. Quiet
  BY ServerStays DEF PrepareRetries, Quiet
<1>3. tx[q].state = "none" /\ tx' = tx /\ tx' \in [Requests -> Transactions]
  BY <1>1, WhereItStands DEF PrepareRetries, RequestsInv, Shaped
<1>4. CASE req[q].evidence
  <2>1. Answer(q, "ok")
    BY <1>4 DEF PrepareRetries
  <2>2. "ok" \in Answers /\ Took(q)
    BY <1>4 DEF Answers, RequestsInv, Told
  <2> QED
    BY <1>1, <1>2, <1>3, <2>1, <2>2, PlainAnswer
<1>5. CASE ~req[q].evidence
  <2>1. Retried(q)
    BY <1>5 DEF PrepareRetries
  <2> QED
    BY <1>1, <1>2, <1>3, <2>1, RetriedKeeps
<1> QED
  BY <1>4, <1>5

\* A COMMIT that is acknowledged took effect.
LEMMA CommitAcknowledgedKeeps ==
    ASSUME RequestsInv, NEW q \in Requests, CommitAcknowledged(q)
    PROVE  RequestsInv'
<1>1. /\ req[q].pc = "commit" /\ req[q].pc # "idle"
      /\ Applicable(q) /\ Commits(q) /\ Delivered(q)
      /\ UNCHANGED <<wall, server, form>>
  BY DEF CommitAcknowledged
<1>2. tx'[q].state = "applied"
  <2>1. tx[q] \in Transactions
    BY WhereItStands
  <2>2. tx'[q] = [tx[q] EXCEPT !.state = "applied"]
    BY <1>1 DEF Commits
  <2> QED
    BY <2>1, <2>2 DEF Transactions
<1>3. CASE Rotates(q)
  <2>1. Answer(q, "ok") /\ "ok" \in Answers /\ "ok" \notin Refusals
    BY <1>1, <1>3 DEF Delivered, Answers, Refusals
  <2>2. /\ req' \in [Requests -> Submissions]
        /\ req'[q].pc = "answered" /\ req'[q].answer = "ok"
        /\ \A p \in Requests : p # q => req'[p] = req[p]
        /\ req'[q].form = req[q].form /\ req'[q].input = req[q].input
        /\ req'[q].secret = req[q].secret
    BY <1>1, <2>1, AnswerTurns
  <2>3. Placed(q)'
    BY <1>2, <2>1, <2>2 DEF Placed
  <2> QED
    BY <1>1, <2>2, <2>3, CommitKeeps
<1>4. CASE ~Rotates(q)
  <2>1. req' = [req EXCEPT ![q].pc = "navigate"]
    BY <1>1, <1>4 DEF Delivered
  <2> DEFINE r == [req[q] EXCEPT !.pc = "navigate"]
  <2>2. req \in [Requests -> Submissions] /\ req[q] \in Submissions
    BY DEF RequestsInv, Shaped
  <2>3. /\ r \in Submissions /\ r.pc = "navigate" /\ r.answer = req[q].answer
        /\ r.form = req[q].form /\ r.input = req[q].input /\ r.secret = req[q].secret
    BY <2>2 DEF Submissions, Places
  <2>4. req' = [req EXCEPT ![q] = r]
    BY <2>1
  <2> HIDE DEF r
  <2>5. req'[q] = r /\ req' \in [Requests -> Submissions]
        /\ \A p \in Requests : p # q => req'[p] = req[p]
    BY <2>2, <2>3, <2>4
  <2>6. Placed(q)'
    BY <1>2, <2>3, <2>5 DEF Placed
  <2>7. req'[q].answer = "none"
    BY <1>1, <2>3, <2>5 DEF RequestsInv, AnswersLast
  <2> QED
    BY <1>1, <2>3, <2>5, <2>6, <2>7, CommitKeeps
<1> QED
  BY <1>3, <1>4

\* A COMMIT whose answer was lost takes effect later.
LEMMA LandKeeps ==
    ASSUME RequestsInv, NEW q \in Requests, Land(q)
    PROVE  RequestsInv'
<1>1. /\ tx[q].state = "sent" /\ Applicable(q) /\ Commits(q)
      /\ UNCHANGED <<wall, server, form, req>>
  BY DEF Land
<1>2. req[q].pc # "idle" /\ tx[q] \in Transactions
  BY <1>1, WhereItStands
<1>3. tx'[q].state = "applied"
  <2>1. tx'[q] = [tx[q] EXCEPT !.state = "applied"]
    BY <1>1 DEF Commits
  <2> QED
    BY <1>2, <2>1 DEF Transactions
<1>4. Placed(q)'
  <2>1. Placed(q)
    BY DEF RequestsInv, TransactionsPlaced
  <2> QED
    BY <1>1, <1>3, <2>1 DEF Placed
<1>5. req' \in [Requests -> Submissions] /\ req' = req
      /\ (req[q].pc = "answered" \/ req[q].answer = "none")
  BY <1>1 DEF RequestsInv, Shaped, AnswersLast
<1> QED
  BY <1>1, <1>2, <1>4, <1>5, CommitKeeps

\* A submission that succeeded is told so.
LEMMA NavigateKeeps ==
    ASSUME RequestsInv, NEW q \in Requests, Navigate(q)
    PROVE  RequestsInv'
<1>1. req[q].pc = "navigate" /\ req[q].pc # "idle" /\ Quiet /\ tx' = tx
  BY ServerStays DEF Navigate, Quiet
<1>2. PICK what \in {"ok", "redirected"} : Answer(q, what)
  BY DEF Navigate
<1>3. what \in Answers /\ what \notin Refusals /\ Took(q)
  BY <1>1 DEF Answers, Refusals, RequestsInv, Told
<1>4. tx \in [Requests -> Transactions] /\ tx[q].state \notin {"open", "read"}
  BY <1>1, WhereItStands DEF RequestsInv, Shaped
<1>5. tx[q].state = "sent" /\ ~tx[q].stale => Current(q)
  BY DEF RequestsInv, Judged
<1> QED
  BY <1>1, <1>2, <1>3, <1>4, <1>5, PlainAnswer

\* Giving up its transaction leaves a submission without one.
LEMMA TxGone ==
    ASSUME RequestsInv, NEW q \in Requests, tx' = [tx EXCEPT ![q] = NoTx]
    PROVE  /\ tx' \in [Requests -> Transactions] /\ tx'[q].state = "none"
           /\ \A p \in Requests : p # q => tx'[p] = tx[p]
<1>1. NoTx \in Transactions /\ NoTx.state = "none"
  BY DEF NoTx, Transactions
<1> HIDE DEF NoTx
<1> QED
  BY <1>1 DEF RequestsInv, Shaped

\* A replay ends with the evidence of its receipt.
LEMMA ReplayEndsKeeps ==
    ASSUME RequestsInv, NEW q \in Requests, ReplayEnds(q)
    PROVE  RequestsInv'
<1>1. /\ req[q].pc = "commit" /\ req[q].pc # "idle" /\ Quiet
      /\ tx' = [tx EXCEPT ![q] = NoTx] /\ Answer(q, "ok") /\ tx[q].state = "read"
  BY ServerStays DEF ReplayEnds, Quiet
<1>2. req[q].evidence
  BY <1>1 DEF RequestsInv, TransactionsPlaced, Placed
<1>3. Took(q)
  BY <1>2 DEF RequestsInv, Told
<1>4. "ok" \in Answers /\ "ok" \notin Refusals
  BY DEF Answers, Refusals
<1>5. tx'[q].state = "none"
  BY <1>1, TxGone
<1> QED
  BY <1>1, <1>3, <1>4, <1>5, TxGone, PlainAnswer

\* A COMMIT that is refused took no effect.
LEMMA CommitRefusedKeeps ==
    ASSUME RequestsInv, NEW q \in Requests, CommitRefused(q)
    PROVE  RequestsInv'
<1>1. /\ req[q].pc = "commit" /\ req[q].pc # "idle" /\ Quiet
      /\ tx' = [tx EXCEPT ![q] = NoTx] /\ (Retried(q) \/ Settled(q, "unknown"))
  BY ServerStays DEF CommitRefused, Quiet
<1>2. CASE Retried(q)
  BY <1>1, <1>2, TxGone, RetriedKeeps
<1>3. CASE Settled(q, "unknown")
  <2>1. tx'[q].state # "sent"
    BY <1>1, TxGone
  <2> QED
    BY <1>1, <1>3, <2>1, TxGone, SettledKeeps
<1> QED
  BY <1>1, <1>2, <1>3

\* A COMMIT that was not sent takes no effect.
LEMMA CommitUnsentKeeps ==
    ASSUME RequestsInv, NEW q \in Requests, CommitUnsent(q)
    PROVE  RequestsInv'
<1>1. /\ req[q].pc = "commit" /\ req[q].pc # "idle" /\ Quiet
      /\ tx' = [tx EXCEPT ![q] = NoTx]
  BY ServerStays DEF CommitUnsent, Quiet
<1>2. PICK error \in {"busy", "unknown"} : Settled(q, error)
  BY DEF CommitUnsent
<1>3. error \in Refusals \cup {"unknown"}
  BY DEF Refusals
<1>4. tx'[q].state = "none"
  BY <1>1, TxGone
<1> QED
  BY <1>1, <1>2, <1>3, <1>4, TxGone, SettledKeeps

\* A COMMIT without an answer makes the outcome unknown.
LEMMA CommitLostKeeps ==
    ASSUME RequestsInv, NEW q \in Requests, CommitLost(q)
    PROVE  RequestsInv'
<1>1. /\ req[q].pc = "commit" /\ req[q].pc # "idle" /\ Quiet
      /\ tx' = [tx EXCEPT ![q].state = "sent"] /\ Settled(q, "unknown")
      /\ tx[q].state = "open"
  BY ServerStays DEF CommitLost, Quiet
<1>2. tx \in [Requests -> Transactions] /\ tx[q] \in Transactions
  BY DEF RequestsInv, Shaped
<1> DEFINE x == [tx[q] EXCEPT !.state = "sent"]
<1>3. x \in Transactions /\ x.state = "sent" /\ x.stale = tx[q].stale
  BY <1>2 DEF Transactions
<1>4. tx' = [tx EXCEPT ![q] = x]
  BY <1>1
<1> HIDE DEF x
<1>5. tx' \in [Requests -> Transactions] /\ tx'[q] = x
      /\ \A p \in Requests : p # q => tx'[p] = tx[p]
  BY <1>2, <1>3, <1>4
<1>6. ~x.stale => Current(q)
  BY <1>1, <1>3 DEF RequestsInv, Judged
<1> QED
  BY <1>1, <1>3, <1>5, <1>6, SettledKeeps

\* An unknown outcome is recovered by the receipt.
LEMMA RecoverKeeps ==
    ASSUME RequestsInv, NEW q \in Requests, Recover(q)
    PROVE  RequestsInv'
<1>1. req[q].pc = "recover" /\ req[q].pc # "idle" /\ Quiet /\ tx' = tx
  BY ServerStays DEF Recover, Quiet
<1> DEFINE outcome == RecoveryOf(q)
           what == IF outcome = "failed" /\ req[q].unknown THEN "unconfirmed" ELSE outcome
<1>2. Answer(q, what)
  BY DEF Recover
<1>3. outcome \in {"failed", "ok", "used", "unavailable", "conflict", "unconfirmed", "retry"}
  BY DEF RecoveryOf
<1>4. outcome = "ok" => Took(q)
  <2> SUFFICES ASSUME outcome = "ok" PROVE Took(q)
    OBVIOUS
  <2>1. ReceiptVerdict(q) = "replay"
    BY DEF RecoveryOf
  <2>2. db.receipts[req[q].form].digest # Absent
        /\ db.receipts[req[q].form].digest = Digest(q)
    BY <2>1 DEF ReceiptVerdict
  <2>3. req[q].form \in Forms
    BY <1>1 DEF RequestsInv, FormsNamed, Submitted
  <2> QED
    BY <2>2, <2>3 DEF RequestsInv, ReceiptsTrue, Took
<1> HIDE DEF outcome
<1>5. what \in Answers /\ (what \in {"ok", "redirected"} => outcome = "ok")
  BY <1>3 DEF Answers, Refusals
<1>6. tx \in [Requests -> Transactions] /\ tx[q].state \notin {"open", "read"}
      /\ (tx[q].state \in {"sent", "applied"} => req[q].unknown)
  BY <1>1, WhereItStands DEF RequestsInv, Shaped
<1>7. tx[q].state = "sent" /\ ~tx[q].stale => Current(q)
  BY DEF RequestsInv, Judged
<1> HIDE DEF what
<1> QED
  BY <1>1, <1>2, <1>4, <1>5, <1>6, <1>7, PlainAnswer

\* A recovery that fails leaves the outcome unknown.
LEMMA RecoverFailsKeeps ==
    ASSUME RequestsInv, NEW q \in Requests, RecoverFails(q)
    PROVE  RequestsInv'
<1>1. req[q].pc = "recover" /\ req[q].pc # "idle" /\ Quiet /\ tx' = tx
  BY ServerStays DEF RecoverFails, Quiet
<1>2. PICK what \in {"unconfirmed", "failed"} : Answer(q, what)
  BY DEF RecoverFails
<1>3. what \in Answers /\ what \notin {"ok", "redirected"}
  BY DEF Answers, Refusals
<1>4. tx \in [Requests -> Transactions] /\ tx[q].state \notin {"open", "read"}
      /\ (tx[q].state \in {"sent", "applied"} => req[q].unknown)
  BY <1>1, WhereItStands DEF RequestsInv, Shaped
<1>5. tx[q].state = "sent" /\ ~tx[q].stale => Current(q)
  BY DEF RequestsInv, Judged
<1> QED
  BY <1>1, <1>2, <1>3, <1>4, <1>5, PlainAnswer

\* What vanishes was sent by a submission that goes on without it.
LEMMA VanishKeeps ==
    ASSUME RequestsInv, NEW q \in Requests, Vanish(q)
    PROVE  RequestsInv'
<1>1. tx[q].state = "sent" /\ tx' = [tx EXCEPT ![q] = NoTx] /\ Quiet /\ req' = req
  BY ServerStays DEF Vanish, Quiet
<1>2. req[q].pc # "idle" /\ req[q].pc # "commit"
  BY <1>1 DEF RequestsInv, TransactionsPlaced, Placed
<1>3. tx'[q].state = "none"
  BY <1>1, TxGone
<1>4. Turn(q)
  BY <1>1, <1>2, TxGone DEF Turn, RequestsInv, Shaped, AnswersLast
<1>5. Placed(q)'
  BY <1>1, <1>2, <1>3 DEF Placed
<1>6. req'[q].evidence \/ req'[q].pc = "navigate" \/ req'[q].answer \in {"ok", "redirected"}
      => Took(q)
  BY <1>1 DEF RequestsInv, Told
<1> QED
  BY <1>1, <1>3, <1>4, <1>5, <1>6, TurnKeeps

-----------------------------------------------------------------------------
(* Pages, operators, maintenance and time *)

\* A page shows a new form under the keys of its server.
LEMMA ViewKeeps ==
    ASSUME RequestsInv, NEW f \in Forms, NEW kind \in Kinds \cup {"rotate"}, View(f, kind)
    PROVE  RequestsInv'
<1> DEFINE t == Credentials(kind)
<1>1. /\ form[f].kind = "none" /\ Admitted /\ form' = [form EXCEPT ![f] = t]
      /\ UNCHANGED <<wall, db, req, tx, effects>>
      /\ server' \in [keys : Nat, gen : Nat, memory : Nat] /\ server'.keys <= db.keys
  BY ServerStays DEF View
<1>2. kind # "none"
  BY RequestsAssumption
<1>3. t \in Tokens /\ t.keys = db.keys /\ t.kind = kind
  <2>1. Now \in Nat
    <3>1. wall \in Nat /\ db.observed \in Nat /\ server.memory \in Nat
      BY RequestsAssumption DEF RequestsInv, Shaped, Databases
    <3> QED
      BY <3>1 DEF Now, High, Larger
  <2>2. server.keys = db.keys /\ server.keys \in Nat /\ db.post.rev \in 1 .. MaxRevision
    BY <1>1 DEF Admitted, RequestsInv, Shaped, Databases, Posts
  <2> QED
    BY <2>1, <2>2 DEF Credentials, Tokens
<1> HIDE DEF t
<1>4. form \in [Forms -> Tokens \cup {None}]
  BY DEF RequestsInv, Shaped
<1>5. /\ form' \in [Forms -> Tokens \cup {None}] /\ form'[f] = t
      /\ \A g \in Forms : g # f => form'[g] = form[g]
  BY <1>1, <1>3, <1>4
<1>6. effects[f] = <<>> /\ f \notin db.queued
  <2>1. effects[f] = <<>>
    BY <1>1 DEF RequestsInv, Spent
  <2>2. ~(Len(effects[f]) > 0)
    BY <2>1
  <2> QED
    BY <2>1, <2>2 DEF RequestsInv, RowsAgree
<1>7. db.receipts[f].digest = Absent
  BY <1>6 DEF RequestsInv, ReceiptsTrue
<1>8. \A p \in Requests : req[p].pc # "idle" =>
          req[p].form \in Forms /\ req[p].form # f /\ form'[req[p].form] = form[req[p].form]
  BY <1>1, <1>5 DEF RequestsInv, FormsNamed, Submitted
<1>9. \A p \in Requests : req[p].pc # "idle" => Digest(p)' = Digest(p)
  BY <1>1, <1>8 DEF Digest
<1>10. Shaped'
  BY <1>1, <1>5 DEF RequestsInv, Shaped
<1>11. FormsNamed'
  BY <1>1, <1>8 DEF RequestsInv, FormsNamed, Submitted
<1>12. TransactionsPlaced'
  BY <1>1 DEF RequestsInv, TransactionsPlaced, Placed
<1>13. KeysFollow'
  <2>1. db.keys \in Nat
    BY DEF RequestsInv, Shaped, Databases
  <2> QED
    BY <1>1, <1>3, <1>5, <2>1 DEF RequestsInv, KeysFollow
<1>14. Judged'
  <2> SUFFICES ASSUME NEW p \in Requests, tx[p].state \in {"open", "sent"}, ~tx[p].stale
               PROVE  Current(p)'
    BY <1>1 DEF Judged
  <2>1. Current(p) /\ req[p].pc # "idle"
    BY WhereItStands DEF RequestsInv, Judged
  <2> QED
    BY <1>1, <1>8, <2>1, CurrentFramed
<1>15. Spent'
  BY <1>1, <1>5, <1>6 DEF RequestsInv, Spent, Unverifiable
<1>16. ReceiptsTrue'
  BY <1>1, <1>5, <1>7 DEF RequestsInv, ReceiptsTrue
<1>17. Told'
  <2> SUFFICES ASSUME NEW p \in Requests,
                      \/ req[p].evidence \/ req[p].pc = "navigate"
                      \/ req[p].answer \in {"ok", "redirected"}
               PROVE  Took(p)'
    BY <1>1 DEF Told
  <2>1. Took(p) /\ req[p].pc # "idle"
    BY DEF RequestsInv, Told, FormsNamed, Idle
  <2> QED
    BY <1>1, <1>9, <2>1 DEF Took
<1>18. RowsAgree'
  <2>1. \A g \in Forms : (Len(effects[g]) > 0 /\ form'[g].kind # "rotate") <=> g \in db.queued
    <3> SUFFICES ASSUME NEW g \in Forms
                 PROVE  (Len(effects[g]) > 0 /\ form'[g].kind # "rotate") <=> g \in db.queued
      OBVIOUS
    <3>1. CASE g = f
      <4>1. ~(Len(effects[g]) > 0)
        BY <1>6, <3>1
      <4> QED
        BY <1>6, <3>1, <4>1
    <3>2. CASE g # f
      BY <1>5, <3>2 DEF RequestsInv, RowsAgree
    <3> QED
      BY <3>1, <3>2
  <2> QED
    BY <1>1, <2>1 DEF RequestsInv, RowsAgree
<1>19. AnswersLast' /\ CommentsQueued' /\ OncePerForm'
  BY <1>1 DEF RequestsInv, AnswersLast, CommentsQueued, OncePerForm
<1> QED
  BY <1>10, <1>11, <1>12, <1>13, <1>14, <1>15, <1>16, <1>17, <1>18, <1>19 DEF RequestsInv

\* A visitor submits a form that was shown.
LEMMA SubmitKeeps ==
    ASSUME RequestsInv, NEW q \in Requests, NEW f \in Forms, NEW i \in Inputs \cup {"none"},
           NEW secret \in 1 .. 2, Submit(q, f, i, secret)
    PROVE  RequestsInv'
<1> DEFINE r == [Idle EXCEPT !.pc = "prepare", !.form = f, !.input = i, !.secret = secret,
                             !.calls = DATABASE_CALLS]
<1>1. /\ req[q].pc = "idle" /\ form[f].kind # "none"
      /\ (i = "none") <=> (form[f].kind = "rotate")
      /\ req' = [req EXCEPT ![q] = r]
      /\ UNCHANGED <<wall, db, server, form, tx, effects>>
  BY DEF Submit
<1>2. /\ r \in Submissions /\ r.pc = "prepare" /\ r.form = f /\ r.input = i
      /\ r.secret = secret /\ r.evidence = FALSE /\ r.answer = "none"
  <2>1. DATABASE_CALLS \in 0 .. DATABASE_CALLS /\ 0 \in 0 .. ATTEMPTS - 1 /\ secret \in 0 .. 2
    <3>1. DATABASE_CALLS \in Nat \ {0} /\ ATTEMPTS \in Nat \ {0}
      BY RequestsAssumption
    <3>2. secret \in 0 .. 2
      OBVIOUS
    <3> QED
      BY <3>1, <3>2
  <2>2. "prepare" \in Places /\ "none" \in Answers /\ i \in Inputs \cup {"none"}
        /\ f \in Forms \cup {"none"}
    BY DEF Places, Answers
  <2> QED
    BY <2>1, <2>2 DEF Submissions, Idle
<1> HIDE DEF r
<1>3. req \in [Requests -> Submissions]
  BY DEF RequestsInv, Shaped
<1>4. /\ req' \in [Requests -> Submissions] /\ req'[q] = r
      /\ \A p \in Requests : p # q => req'[p] = req[p]
  BY <1>1, <1>2, <1>3
<1>5. tx[q].state = "none"
  BY <1>1, WhereItStands DEF Transactions
<1>6. Shaped'
  BY <1>1, <1>4 DEF RequestsInv, Shaped
<1>7. FormsNamed'
  BY <1>1, <1>2, <1>4 DEF RequestsInv, FormsNamed, Submitted
<1>8. TransactionsPlaced'
  <2> SUFFICES ASSUME NEW p \in Requests PROVE Placed(p)'
    BY DEF TransactionsPlaced
  <2>1. CASE p = q
    BY <1>1, <1>2, <1>4, <1>5, <2>1 DEF Placed
  <2>2. CASE p # q
    BY <1>1, <1>4, <2>2 DEF RequestsInv, TransactionsPlaced, Placed
  <2> QED
    BY <2>1, <2>2
<1>9. Judged'
  <2> SUFFICES ASSUME NEW p \in Requests, tx[p].state \in {"open", "sent"}, ~tx[p].stale
               PROVE  Current(p)'
    BY <1>1 DEF Judged
  <2>1. Current(p) /\ p # q
    BY <1>5 DEF RequestsInv, Judged
  <2> QED
    BY <1>1, <1>4, <2>1, CurrentFramed
<1>10. Told'
  <2> SUFFICES ASSUME NEW p \in Requests,
                      \/ req'[p].evidence \/ req'[p].pc = "navigate"
                      \/ req'[p].answer \in {"ok", "redirected"}
               PROVE  Took(p)'
    BY DEF Told
  <2>1. p # q
    BY <1>2, <1>4
  <2> QED
    BY <1>1, <1>4, <2>1 DEF RequestsInv, Told, Took, Digest
<1>11. KeysFollow' /\ Spent' /\ ReceiptsTrue' /\ CommentsQueued' /\ RowsAgree' /\ OncePerForm'
  BY <1>1 DEF RequestsInv, KeysFollow, Spent, Unverifiable, ReceiptsTrue, CommentsQueued,
              RowsAgree, OncePerForm
<1>12. AnswersLast'
  BY <1>2, <1>4 DEF RequestsInv, AnswersLast
<1> QED
  BY <1>6, <1>7, <1>8, <1>9, <1>10, <1>11, <1>12 DEF RequestsInv

\* An authority or a session that is withdrawn outdates every open transaction.
LEMMA WithdrawKeeps ==
    ASSUME RequestsInv, Withdraw
    PROVE  RequestsInv'
<1>1. UNCHANGED <<wall, server, form, req, effects>> /\ db \in Databases /\ db.post \in Posts
      /\ db.keys \in Nat
  BY DEF Withdraw, RequestsInv, Shaped, Databases
<1>2. CASE Stale([db EXCEPT !.post.author = FALSE])
  <2> DEFINE post == [db.post EXCEPT !.author = FALSE]
             d == [db EXCEPT !.post = post]
  <2>1. post \in Posts /\ post = [db.post EXCEPT !.author = post.author]
    BY <1>1 DEF Posts
  <2>2. Stale(d)
    BY <1>2
  <2>3. /\ d \in Databases /\ d.post = post /\ d.comments = db.comments
        /\ d.queued = db.queued /\ d.keys = db.keys /\ d.receipts = db.receipts
        /\ d.observed = db.observed
    <3> HIDE DEF post
    <3> QED
      BY <1>1, <2>1 DEF Databases
  <2> HIDE DEF post, d
  <2> QED
    BY <1>1, <2>1, <2>2, <2>3, StaleKeeps DEF Unverifiable
<1>3. CASE Stale([db EXCEPT !.session = FALSE])
  <2> DEFINE d == [db EXCEPT !.session = FALSE]
  <2>1. db.post = [db.post EXCEPT !.author = db.post.author]
    BY <1>1 DEF Posts
  <2>2. /\ d \in Databases /\ d.post = db.post /\ d.comments = db.comments
        /\ d.queued = db.queued /\ d.keys = db.keys /\ d.receipts = db.receipts
        /\ d.observed = db.observed
    BY <1>1 DEF Databases
  <2>3. Stale(d)
    BY <1>3
  <2> HIDE DEF d
  <2> QED
    BY <1>1, <2>1, <2>2, <2>3, StaleKeeps DEF Unverifiable
<1> QED
  BY <1>2, <1>3 DEF Withdraw

\* Recovering the clock replaces the keys, so no form shown before can be
\* verified any more, wherever the observed second is put.
LEMMA RecoverClockKeeps ==
    ASSUME RequestsInv, RecoverClock
    PROVE  RequestsInv'
<1> DEFINE keys == db.keys + 1
           gen == db.gen + 1
           d == [db EXCEPT !.keys = keys, !.gen = gen, !.session = FALSE, !.observed = wall]
<1>1. Stale(d) /\ UNCHANGED <<wall, server, form, req, effects>>
  BY DEF RecoverClock
<1>2. db \in Databases /\ db.keys \in Nat /\ db.gen \in Nat /\ wall \in Nat /\ db.post \in Posts
  BY RequestsAssumption DEF RequestsInv, Shaped, Databases
<1>3. /\ d \in Databases /\ d.post = db.post /\ d.comments = db.comments
      /\ d.queued = db.queued /\ d.keys = db.keys + 1 /\ d.receipts = db.receipts
  <2>1. keys \in Nat /\ gen \in Nat
    BY <1>2
  <2>2. d.keys = db.keys + 1
    BY <1>2 DEF Databases
  <2> HIDE DEF keys, gen
  <2> QED
    BY <1>2, <2>1, <2>2 DEF Databases
<1>4. db.post = [db.post EXCEPT !.author = db.post.author]
  BY <1>2 DEF Posts
<1>5. \A f \in Forms : form[f].kind # "none" => form[f].keys < db.keys + 1
  <2> SUFFICES ASSUME NEW f \in Forms, form[f].kind # "none"
               PROVE  form[f].keys < db.keys + 1
    OBVIOUS
  <2>1. form[f].keys \in Nat
    BY DEF RequestsInv, Shaped, Tokens, None
  <2>2. form[f].keys <= db.keys
    BY DEF RequestsInv, KeysFollow
  <2> QED
    BY <1>2, <2>1, <2>2
<1> HIDE DEF d
<1> QED
  BY <1>1, <1>2, <1>3, <1>4, <1>5, StaleKeeps

\* Pruning removes only receipts of forms that have expired for good.
LEMMA MaintainKeeps ==
    ASSUME RequestsInv, Maintain
    PROVE  RequestsInv'
<1> DEFINE now == Larger(wall, db.observed)
           empty == [digest |-> Absent, expires |-> 0, cap |-> 0]
           kept == [f \in Forms |-> IF Prunable(f, now) THEN empty ELSE db.receipts[f]]
           d == [db EXCEPT !.observed = now, !.receipts = kept]
<1>1. Stale(d) /\ UNCHANGED <<wall, server, form, req, effects>>
  BY DEF Maintain
<1>2. db \in Databases /\ db.keys \in Nat /\ wall \in Nat /\ db.post \in Posts
      /\ db.observed \in Nat /\ db.receipts \in [Forms -> Receipts]
      /\ RETENTION \in Nat /\ TTL \in Nat
  BY RequestsAssumption DEF RequestsInv, Shaped, Databases
<1>3. now \in Nat /\ now >= db.observed
  BY <1>2 DEF Larger
<1>4. empty \in Receipts /\ empty.digest = Absent
  BY DEF Receipts
<1> HIDE DEF now, empty
<1>5. kept \in [Forms -> Receipts]
  BY <1>2, <1>4
<1>6. \A f \in Forms : kept[f] = IF Prunable(f, now) THEN empty ELSE db.receipts[f]
  OBVIOUS
<1> HIDE DEF kept
<1>7. /\ d \in Databases /\ d.post = db.post /\ d.comments = db.comments
      /\ d.queued = db.queued /\ d.keys = db.keys /\ d.receipts = kept
      /\ d.observed = now
  BY <1>2, <1>3, <1>5 DEF Databases
<1>8. db.post = [db.post EXCEPT !.author = db.post.author]
  BY <1>2 DEF Posts
<1> HIDE DEF d
<1>9. \A f \in Forms : /\ form[f].kind # "none"
                       /\ db.receipts[f].digest # Absent \/ Unverifiable(f)
                       => \/ d.receipts[f].digest # Absent
                          \/ form[f].keys < d.keys \/ form[f].issued + TTL <= d.observed
  <2> SUFFICES ASSUME NEW f \in Forms, form[f].kind # "none",
                      db.receipts[f].digest # Absent \/ Unverifiable(f)
               PROVE  \/ d.receipts[f].digest # Absent
                      \/ form[f].keys < d.keys \/ form[f].issued + TTL <= d.observed
    OBVIOUS
  <2>1. form[f].issued \in Nat
    BY DEF RequestsInv, Shaped, Tokens, None
  <2>2. CASE Unverifiable(f)
    BY <1>2, <1>3, <1>7, <2>1, <2>2 DEF Unverifiable
  <2>3. CASE ~Prunable(f, now) /\ db.receipts[f].digest # Absent
    BY <1>6, <1>7, <2>3
  <2>4. CASE Prunable(f, now)
    <3>1. db.receipts[f].digest # Absent /\ db.receipts[f].expires < now - RETENTION
      BY <2>4 DEF Prunable
    <3>2. db.receipts[f].expires = form[f].issued + TTL
      BY <3>1 DEF RequestsInv, ReceiptsTrue
    <3>3. form[f].issued + TTL <= now
      BY <1>2, <1>3, <2>1, <3>1, <3>2
    <3> QED
      BY <1>7, <3>3
  <2> QED
    BY <2>2, <2>3, <2>4
<1>10. \A f \in Forms : d.receipts[f] = db.receipts[f] \/ d.receipts[f].digest = Absent
  BY <1>4, <1>6, <1>7
<1> QED
  BY <1>1, <1>2, <1>7, <1>8, <1>9, <1>10, StaleKeeps

\* The wall clock shows anything.
LEMMA TimeKeeps ==
    ASSUME RequestsInv, Restart \/ Tick \/ SetBack
    PROVE  RequestsInv'
<1>1. wall \in 0 .. MaxTime /\ MaxTime \in Nat /\ db.keys \in Nat /\ db.gen \in Nat
      /\ server \in [keys : Nat, gen : Nat, memory : Nat] /\ server.keys <= db.keys
  BY RequestsAssumption DEF RequestsInv, Shaped, Databases, KeysFollow
<1>2. CASE Restart
  <2>1. server' = [keys |-> db.keys, gen |-> db.gen, memory |-> 0] /\ wall' = wall
        /\ UNCHANGED <<db, form, req, tx, effects>>
    BY <1>2 DEF Restart
  <2>2. server' \in [keys : Nat, gen : Nat, memory : Nat] /\ server'.keys <= db.keys
    BY <1>1, <2>1
  <2> QED
    BY <1>1, <2>1, <2>2, ClockKeeps
<1>3. CASE Tick \/ SetBack
  <2>1. wall' \in 0 .. MaxTime /\ UNCHANGED <<db, server, form, req, tx, effects>>
    BY <1>1, <1>3 DEF Tick, SetBack
  <2> QED
    BY <1>1, <2>1, ClockKeeps
<1> QED
  BY <1>2, <1>3

-----------------------------------------------------------------------------
(* The invariant and what follows from it *)

\* Initially nothing was shown or submitted.
LEMMA RequestsInit == Init => RequestsInv
<1> SUFFICES ASSUME Init PROVE RequestsInv
  OBVIOUS
<1>1. {MaxTime, MaxRevision} \subseteq Nat /\ MaxCount \in Nat \ {0}
      /\ DATABASE_CALLS \in Nat \ {0} /\ ATTEMPTS \in Nat \ {0} /\ 1 \in 1 .. MaxRevision
  <2>1. MaxRevision \in Nat \ {0}
    BY RequestsAssumption
  <2>2. 1 \in 1 .. MaxRevision
    BY <2>1
  <2> QED
    BY <2>2, RequestsAssumption
<1> DEFINE post == [live |-> TRUE, rev |-> 1, cap |-> 1, count |-> 0, author |-> TRUE]
           empty == [digest |-> Absent, expires |-> 0, cap |-> 0]
           receipts == [f \in Forms |-> empty]
<1>2. post \in Posts /\ post.live /\ post.count = 0
  BY <1>1 DEF Posts
<1>3. receipts \in [Forms -> Receipts] /\ \A f \in Forms : receipts[f].digest = Absent
  BY DEF Receipts
<1>4. db = [post |-> post, comments |-> {}, queued |-> {}, session |-> TRUE,
            receipts |-> receipts, observed |-> 0, keys |-> 1, gen |-> 1]
  BY DEF Init
<1> HIDE DEF post, receipts
<1>5. /\ db \in Databases /\ db.comments = {} /\ db.queued = {} /\ db.keys = 1
      /\ db.post.live /\ db.post.count = 0 /\ \A f \in Forms : db.receipts[f].digest = Absent
  BY <1>2, <1>3, <1>4 DEF Databases
<1>6. Idle \in Submissions
  BY <1>1 DEF Idle, Submissions, Places, Answers
<1>7. NoTx \in Transactions
  BY DEF NoTx, Transactions
<1>8. Shaped
  BY <1>1, <1>5, <1>6, <1>7 DEF Init, Shaped
<1>9. FormsNamed /\ TransactionsPlaced /\ KeysFollow /\ Judged
  <2>1. \A q \in Requests : req[q] = Idle /\ req[q].pc = "idle" /\ tx[q].state = "none"
    BY DEF Init, Idle, NoTx
  <2>2. server.keys = 1 /\ \A f \in Forms : form[f].kind = "none"
    BY DEF Init, None
  <2> QED
    BY <1>5, <2>1, <2>2 DEF FormsNamed, TransactionsPlaced, Placed, KeysFollow, Judged
<1>10. Spent /\ ReceiptsTrue /\ Told /\ AnswersLast
  BY <1>5 DEF Init, Spent, ReceiptsTrue, Told, AnswersLast, Idle
<1>11. CommentsQueued /\ Cardinality(db.comments) = 0
  BY <1>5, FS_EmptySet DEF CommentsQueued
<1>12. \A f \in Forms : Len(effects[f]) = 0
  BY DEF Init
<1>13. RowsAgree /\ OncePerForm
  BY <1>5, <1>11, <1>12 DEF RowsAgree, OncePerForm
<1> QED
  BY <1>8, <1>9, <1>10, <1>11, <1>13 DEF RequestsInv

\* Every step keeps the invariant.
LEMMA RequestsStep == RequestsInv /\ [Next]_vars => RequestsInv'
<1> SUFFICES ASSUME RequestsInv, [Next]_vars PROVE RequestsInv'
  OBVIOUS
<1>1. ASSUME NEW f \in Forms, Render(f) \/ RenderCapability(f) PROVE RequestsInv'
  <2>1. PICK kind \in Kinds \cup {"rotate"} : View(f, kind)
    BY <1>1 DEF Render, RenderCapability
  <2> QED
    BY <2>1, ViewKeeps
<1>2. ASSUME NEW q \in Requests, Serve(q) PROVE RequestsInv'
  BY <1>2, PrepareKeeps, PrepareStopsKeeps, PrepareRetriesKeeps, CommitAcknowledgedKeeps,
     NavigateKeeps, ReplayEndsKeeps, CommitRefusedKeeps, CommitUnsentKeeps, CommitLostKeeps,
     RecoverKeeps, RecoverFailsKeeps DEF Serve
<1>3. ASSUME NEW q \in Requests, Land(q) \/ Vanish(q) PROVE RequestsInv'
  BY <1>3, LandKeeps, VanishKeeps
<1>4. ASSUME NEW q \in Requests, NEW f \in Forms, NEW i \in Inputs \cup {"none"},
             NEW s \in 1 .. 2, Submit(q, f, i, s)
      PROVE  RequestsInv'
  BY <1>4, SubmitKeeps
<1>5. CASE Maintain \/ RecoverClock \/ Restart \/ Withdraw \/ Tick \/ SetBack
  BY <1>5, MaintainKeeps, RecoverClockKeeps, WithdrawKeeps, TimeKeeps
<1>6. CASE UNCHANGED vars
  BY <1>6, ClockKeeps DEF vars, RequestsInv, Shaped, KeysFollow
<1> QED
  BY <1>1, <1>2, <1>3, <1>4, <1>5, <1>6 DEF Next

\* The invariant holds in every reachable state.
LEMMA RequestsInvariant == Spec => []RequestsInv
BY RequestsInit, RequestsStep, PTL DEF Spec

\* However a form is submitted, twice at once, again after an unknown outcome,
\* after its receipt was pruned or the clock set back, its action takes effect at
\* most once, and its rows, counter, receipt and queued work together or not at
\* all (claim_action_receipt, execute_transaction, Database::maintain).
THEOREM FormsTakeEffectOnce == Spec => []SubmissionsSound
<1>1. RequestsInv => SubmissionsSound
  <2> SUFFICES ASSUME RequestsInv PROVE TypeOK
    BY DEF RequestsInv, SubmissionsSound
  <2>1. db \in Databases /\ db.post \in Posts /\ db.receipts \in [Forms -> Receipts]
        /\ wall \in 0 .. MaxTime /\ req \in [Requests -> Submissions]
    BY DEF RequestsInv, Shaped, Databases
  <2>2. \A f \in Forms : db.receipts[f].digest \in Inputs \cup {Absent, Secret[1], Secret[2]}
    BY <2>1 DEF Receipts, Digests
  <2>3. \A q \in Requests : req[q].calls \in 0 .. DATABASE_CALLS
                            /\ req[q].tries \in 0 .. ATTEMPTS - 1
    BY <2>1 DEF Submissions
  <2>4. db.post.count \in 0 .. MaxCount /\ db.post.rev \in 1 .. MaxRevision
        /\ db.comments \cup db.queued \subseteq Forms
    BY <2>1 DEF Posts, Databases
  <2> QED
    BY <2>1, <2>2, <2>3, <2>4 DEF TypeOK
<1> QED
  BY <1>1, RequestsInvariant, PTL

\* Success is told only of an action that committed with this very input, and a
\* plain refusal only when this submission did not and will not commit, whatever
\* became of its COMMIT (prepare_with_commit_evidence, recover_form).
THEOREM VisitorsAreToldTheTruth == Spec => []AnswersHonest
<1>1. RequestsInv => AnswersHonest
  <2> SUFFICES ASSUME RequestsInv, NEW q \in Requests
               PROVE  /\ req[q].answer \in {"ok", "redirected"} => Took(q)
                      /\ req[q].answer \in Refusals /\ tx[q].state \in {"sent", "applied"} =>
                             req[q].unknown
    BY DEF AnswersHonest, Took
  <2>1. req[q].answer \in {"ok", "redirected"} => Took(q)
    BY DEF RequestsInv, Told
  <2>2. ASSUME req[q].answer \in Refusals, tx[q].state \in {"sent", "applied"}
        PROVE  req[q].unknown
    <3>1. Placed(q)
      BY DEF RequestsInv, TransactionsPlaced
    <3>2. req[q].pc # "navigate"
      BY <2>2 DEF RequestsInv, AnswersLast, Refusals
    <3> QED
      BY <2>2, <3>1, <3>2 DEF Placed
  <2> QED
    BY <2>1, <2>2
<1> QED
  BY <1>1, RequestsInvariant, PTL

\* A commit is made over the revision its form was reviewed at, and with the
\* capability secret of the current version.
LEMMA CommitsCurrent ==
    ASSUME RequestsInv, NEW q \in Requests, Applicable(q), Commits(q)
    PROVE  LET f == req[q].form IN
           /\ \A g \in Forms : g # f => effects'[g] = effects[g]
           /\ Reviewed(form[f].kind) => form[f].rev = db.post.rev
           /\ tx'[q].state = "applied" /\ tx[q].state # "applied"
           /\ Anonymous(form[f].kind) => req[q].secret = db.post.cap
<1> DEFINE f == req[q].form
           kind == form[f].kind
<1>1. Current(q) /\ f \in Forms /\ kind # "none"
  BY ApplicableUnspent DEF Submitted
<1>2. effects \in [Forms -> Seq(Digests)] /\ tx[q] \in Transactions
  BY DEF RequestsInv, Shaped
<1>3. \A g \in Forms : g # f => effects'[g] = effects[g]
  BY <1>2 DEF Commits
<1>4. tx'[q].state = "applied" /\ tx[q].state # "applied"
  <2>1. tx'[q] = [tx[q] EXCEPT !.state = "applied"]
    BY DEF Commits
  <2> QED
    BY <1>2, <2>1 DEF Transactions, Applicable
<1>5. CASE kind = "rotate"
  <2>1. RotationVerdict(q) = "commit"
    BY <1>1, <1>5 DEF Current
  <2>2. req[q].secret = db.post.cap
    BY <2>1 DEF RotationVerdict
  <2> QED
    BY <1>3, <1>4, <1>5, <2>2 DEF Reviewed
<1>6. CASE kind # "rotate"
  <2>1. ActionVerdict(q) = "commit"
    BY <1>1, <1>6 DEF Current
  <2>2. ResolveTargets(q) \in {"none", "unavailable", "conflict"}
    BY DEF ResolveTargets
  <2>3. ResolveTargets(q) = "none"
    BY <2>1, <2>2 DEF ActionVerdict
  <2>4. CapabilityVerified(q) /\ (Reviewed(kind) => form[f].rev = db.post.rev)
    BY <2>3 DEF ResolveTargets
  <2>5. Anonymous(kind) => req[q].secret = db.post.cap
    BY <1>6, <2>4 DEF CapabilityVerified, Anonymous
  <2> QED
    BY <1>3, <1>4, <2>4, <2>5
<1> QED
  BY <1>5, <1>6

\* A reviewed action commits over the revision its form showed, and a capability
\* works at its current version only, although both are checked before the
\* transaction commits (resolve_action_targets, verify_edit_capability).
THEOREM ReviewsAndCapabilitiesCurrent == Spec => EditsCurrent
<1> DEFINE Applied(f) ==
        \E q \in Requests : /\ req[q].form = f
                            /\ tx'[q].state = "applied" /\ tx[q].state # "applied"
                            /\ Anonymous(form[f].kind) => req[q].secret = db.post.cap
           Fresh(f) ==
        Len(effects'[f]) > Len(effects[f]) =>
            /\ Reviewed(form[f].kind) => form[f].rev = db.post.rev
            /\ Applied(f)
<1>1. ASSUME RequestsInv, Next, NEW f \in Forms PROVE Fresh(f)
  <2>1. ASSUME effects' = effects PROVE Fresh(f)
    <3>1. effects'[f] = effects[f]
      BY <2>1
    <3>2. Len(effects[f]) \in Nat
      BY <1>1 DEF RequestsInv, Shaped
    <3> QED
      BY <3>1, <3>2
  <2>2. ASSUME NEW q \in Requests, Applicable(q), Commits(q) PROVE Fresh(f)
    <3>1. CASE req[q].form = f
      BY <1>1, <2>2, <3>1, CommitsCurrent
    <3>2. CASE req[q].form # f
      <4>1. effects'[f] = effects[f]
        BY <1>1, <2>2, <3>2, CommitsCurrent
      <4>2. Len(effects[f]) \in Nat
        BY <1>1 DEF RequestsInv, Shaped
      <4> QED
        BY <4>1, <4>2
    <3> QED
      BY <3>1, <3>2
  <2>3. \/ effects' = effects
        \/ \E q \in Requests : Applicable(q) /\ Commits(q)
    BY <1>1 DEF Next, Serve, Render, RenderCapability, View, Submit, Prepare, PrepareStops,
         PrepareRetries, CommitAcknowledged, Navigate, ReplayEnds, CommitRefused,
         CommitUnsent, CommitLost, Recover, RecoverFails, Land, Vanish, Maintain,
         RecoverClock, Restart, Withdraw, Tick, SetBack
  <2> QED
    BY <2>1, <2>2, <2>3
<1>2. RequestsInv /\ [Next]_vars => [\A f \in Forms : Fresh(f)]_vars
  BY <1>1
<1> HIDE DEF Fresh
<1>3. Spec => [][\A f \in Forms : Fresh(f)]_vars
  BY <1>2, RequestsInvariant, PTL DEF Spec
<1> QED
  BY <1>3 DEF EditsCurrent, Fresh
=============================================================================
