---------------------------- MODULE GatewayProofs ----------------------------
(***************************************************************************)
(* Proofs about the gateway: the accounts with their sessions, permits and *)
(* circuits, and the guest pool with the workers it lends.                 *)
(***************************************************************************)
EXTENDS Accounts, Guests, Integers, FiniteSetTheorems, SequenceTheorems, WellFoundedInduction, TLAPS

-----------------------------------------------------------------------------
\* A nonempty set of indices has a least one.
LEMMA LeastIndex ==
    ASSUME NEW S \in SUBSET Nat, S # {}
    PROVE  /\ \E j \in S : \A k \in S : j <= k
           /\ (CHOOSE j \in S : \A k \in S : j <= k) \in S
<1>1. PICK x \in S : \A y \in S : <<y, x>> \notin OpToRel(<, Nat)
  BY WFMin, NatLessThanWellFounded, Zenon
<1>2. \A y \in S : ~(y < x) BY <1>1, Zenon DEF OpToRel
<1>3. \E j \in S : \A k \in S : j <= k BY <1>2
<1> QED BY <1>3, Zenon

-----------------------------------------------------------------------------
(* Accounts.  Types.                                                       *)

OfferedIn(field) == {offered[field] : offered \in Traffic} \cup {Nobody}
LoginNames == Logins \cup {FirstLogin} \cup OfferedIn("name")
AccountRow == [login : LoginNames, tenant : {"", "team"}, state : {"unborn", "active", "disabled", "deleted"}, epoch : Nat]
SessionRow == [principal : Ids, epoch : Nat, expires : Nat]
Invitation == [expires : Nat, by : Ids \cup {Nobody}]
Cookie == [nonce : Nonces, subject : Ids, issued : Nat, expires : Nat, incarnation : Nat]
CallType ==
    [at : {"idle", "candidate", "waiting", "begun", "hashing", "hashed", "done"},
     kind : OfferedIn("kind"), peer : OfferedIn("peer"), cookie : Cookie \cup {Nobody},
     name : OfferedIn("name"), code : Codes \cup {Nobody}, right : OfferedIn("right") \cup {FALSE},
     who : Ids \cup {Nobody}, held : SUBSET Permits, read : (Ids \X Nat) \cup Nonces \cup {Nobody},
     answer : {"busy", "rejected", "served", "authentication", "ok", "unknown", Nobody}]
Bucket == [tokens : Nat, tick : Nat]
AccountsTypeOK ==
    /\ accounts \in [Ids -> AccountRow] /\ sessions \in [Nonces -> SessionRow \cup {Nobody}]
    /\ roles \in [Ids -> SUBSET Roles] /\ invites \in [Codes -> Invitation \cup {Nobody}]
    /\ wall \in Nat /\ keys \in [incarnation : Nat, serving : BOOLEAN] /\ cookies \in SUBSET Cookie
    /\ calls \in [Calls -> CallType] /\ worker \in [Calls -> (SUBSET Permits) \cup {Nobody}]
    /\ free \in [Permits -> Int] /\ attempts \in Nat /\ revoked \in SUBSET Nonces
    /\ recent \in Seq(OfferedIn("peer"))
    /\ circuits \in [entries : [Range(recent) -> Bucket], tick : Nat]

-----------------------------------------------------------------------------
(* Sessions.                                                               *)

\* A session that was ended is gone, or bound to an epoch the account has left.
Outdated(n) == sessions[n] # Nobody => sessions[n].epoch < accounts[sessions[n].principal].epoch
\* What a password was checked against was the account's state then or since.
ReadBefore(call) ==
    call.at \in {"hashing", "hashed"} /\ call.read # Nobody =>
       call.read \in Ids \X Nat /\ call.read[2] <= accounts[call.read[1]].epoch
SessionsInv ==
    /\ \A n \in revoked : Outdated(n)
    /\ \A k \in cookies : sessions[k.nonce] # Nobody => sessions[k.nonce].principal = k.subject
    /\ \A c \in Calls : ReadBefore(calls[c])
    /\ \A id \in Ids : accounts[id].state = "unborn" => accounts[id].epoch = 0

-----------------------------------------------------------------------------
(* Permits.                                                                *)

Hash == <<"argon2", "hash">>
\* The permits a call uses: its own, or those its password worker keeps.
Uses(call, its) == call.held \cup (IF its # Nobody THEN its ELSE {})
Works(call, its) ==
    /\ Hash \notin call.held
    /\ call.at \in {"idle", "done", "waiting"} => call.held = {}
    /\ call.at = "hashing" => its = call.held \cup {Hash}
    /\ call.at \notin {"idle", "done", "hashing"} => its = Nobody
PermitsInv == WorkCovered /\ \A c \in Calls : Works(calls[c], worker[c])

-----------------------------------------------------------------------------
(* Circuits.                                                               *)

CircuitsInv ==
    /\ CircuitsInOrder
    /\ Len(recent) <= TABLE_CAPACITY /\ circuits.tick <= LAST_TICK
    /\ \A c \in DOMAIN circuits.entries : circuits.entries[c].tick < circuits.tick

AccountsInv == AccountsTypeOK /\ SessionsInv /\ PermitsInv /\ RegistrationsInvited /\ CircuitsInv
-----------------------------------------------------------------------------
(* The constants, and what is chosen.                                      *)

LEMMA CapacityType == \A p \in Permits : PermitCapacity(p) \in Int
<1> SUFFICES ASSUME NEW p \in Permits PROVE PermitCapacity(p) \in Int OBVIOUS
<1>1. ARGON2 \in Int /\ REQUESTS \in Int /\ DATABASE \in Int /\ SESSION_SHARE \in Int /\ RESERVE \in Nat
  BY AccountsAssumption
<1>2. CASE p[1] = "argon2" BY <1>1, <1>2 DEF PermitCapacity
<1>3. CASE p[1] # "argon2"
  <2>1. p[1] \in Lanes BY <1>3 DEF Permits, Lanes, Resources
  <2> DEFINE total == PermitTotal(p[2])
             verified == (total * RESERVE + 50) \div 100
  <2>2. total \in Int BY <1>1 DEF PermitTotal
  <2>3. total * RESERVE \in Int BY <1>1, <2>2
  <2>4. verified \in Int BY <2>3
  <2>5. PermitCapacity(p) = Shares(total, SESSION_SHARE)[p[1]] BY <1>3 DEF PermitCapacity, Share
  <2> HIDE DEF total
  <2>6. Shares(total, SESSION_SHARE) = IF RESERVE = 0 THEN [anonymous |-> total, session |-> 0, verified |-> 0]
          ELSE [anonymous |-> total - SESSION_SHARE - verified, session |-> SESSION_SHARE, verified |-> verified]
    BY DEF Shares
  <2> HIDE DEF verified
  <2> QED BY <1>1, <2>1, <2>2, <2>4, <2>5, <2>6 DEF Lanes
<1> QED BY <1>2, <1>3

\* Which identity and which nonce is new.
LEMMA FreshIdIs ==
  ASSUME \E i \in Ids : accounts[i].state = "unborn"
  PROVE  FreshId \in Ids /\ accounts[FreshId].state = "unborn"
<1> DEFINE S == {i \in Ids : accounts[i].state = "unborn"}
<1>1. S \in SUBSET Nat /\ S # {} BY AccountsAssumption
<1>2. \E i \in S : \A j \in S : i <= j BY <1>1, LeastIndex, Zenon
<1> QED BY <1>2 DEF FreshId

LEMMA FreshNonceIs ==
  ASSUME AccountsTypeOK, UsedNonces # Nonces
  PROVE  /\ FreshNonce \in Nonces /\ FreshNonce \notin revoked
         /\ \A k \in cookies : k.nonce # FreshNonce
<1> DEFINE S == Nonces \ UsedNonces
<1>1. UsedNonces \subseteq Nonces BY DEF AccountsTypeOK, UsedNonces, Cookie
<1>2. S \in SUBSET Nat /\ S # {} BY <1>1, AccountsAssumption
<1>3. \E n \in S : \A m \in S : n <= m BY <1>2, LeastIndex, Zenon
<1>4. FreshNonce \in S BY <1>3 DEF FreshNonce
<1> QED BY <1>4 DEF UsedNonces

LEMMA RestingType == Resting \in CallType
  BY DEF Resting, CallType, OfferedIn

LEMMA DoneType ==
  ASSUME NEW answer \in {"busy", "rejected", "served", "authentication", "ok", "unknown"}
  PROVE  Done(answer) \in CallType /\ Done(answer) = [Resting EXCEPT !.at = "done", !.answer = answer]
<1>1. Done(answer) = [Resting EXCEPT !.at = "done", !.answer = answer] BY DEF Done
<1> QED BY <1>1, RestingType DEF CallType

LEMMA DoneIs ==
  ASSUME NEW answer
  PROVE  /\ Done(answer).at = "done" /\ Done(answer).held = {} /\ Done(answer).answer = answer
         /\ Done(answer).read = Nobody
  BY DEF Done, Resting

LEMMA Progressed ==
  ASSUME AccountsTypeOK, NEW c \in Calls, NEW next \in CallType, Progress(c, next)
  PROVE  /\ calls' \in [Calls -> CallType] /\ calls'[c] = next
         /\ \A d \in Calls \ {c} : calls'[d] = calls[d]
  BY DEF AccountsTypeOK, Progress

LEMMA ReturnedIs ==
  ASSUME AccountsTypeOK, NEW ps
  PROVE  /\ Returned(ps) \in [Permits -> Int]
         /\ \A p \in Permits : Returned(ps)[p] = IF p \in ps THEN free[p] + 1 ELSE free[p]
  BY DEF AccountsTypeOK, Returned

LEMMA AcquiredIs ==
  ASSUME AccountsTypeOK, NEW c, NEW ps, Acquired(c, ps)
  PROVE  /\ free' \in [Permits -> Int]
         /\ \A p \in Permits : free'[p] = IF p \in ps THEN free[p] - 1 ELSE free[p]
  BY DEF AccountsTypeOK, Acquired

LEMMA LanePermits ==
  ASSUME NEW call
  PROVE  /\ {<<SessionLane, "requests">>, <<SessionLane, "database">>} \in SUBSET (Lanes \X Resources)
         /\ {<<LaneOf(call, "requests"), "requests">>, <<LaneOf(call, "database"), "database">>}
               \in SUBSET (Lanes \X Resources)
<1>1. SessionLane \in Lanes BY DEF SessionLane, Lanes
<1>2. \A res : LaneOf(call, res) \in Lanes BY DEF LaneOf, Lanes
<1> QED BY <1>1, <1>2 DEF Resources

LEMMA HashApart == Hash \notin Lanes \X Resources /\ Hash \in Permits
  BY DEF Hash, Lanes, Resources, Permits

-----------------------------------------------------------------------------
(* What a step of one call leaves alone.                                   *)

Elsewhere(c) == \A d \in Calls \ {c} : calls'[d] = calls[d] /\ worker'[d] = worker[d]

LEMMA SessionsSame ==
  ASSUME SessionsInv, NEW c \in Calls, Elsewhere(c), UNCHANGED <<accounts, sessions, cookies, revoked>>,
         ReadBefore(calls[c])'
  PROVE  SessionsInv'
<1>1. \A d \in Calls : ReadBefore(calls[d])'
  <2> SUFFICES ASSUME NEW d \in Calls, d # c PROVE ReadBefore(calls[d])' OBVIOUS
  <2>1. ReadBefore(calls[d]) /\ calls'[d] = calls[d] BY DEF SessionsInv, Elsewhere
  <2> QED BY <2>1 DEF ReadBefore
<1>2. (\A n \in revoked : Outdated(n))' BY DEF SessionsInv, Outdated
<1> QED BY <1>1, <1>2 DEF SessionsInv

Using(p) == {d \in Calls : p \in Uses(calls[d], worker[d])}

LEMMA CoveredAre ==
  WorkCovered <=> \A p \in Permits : free[p] + Cardinality(Using(p)) = PermitCapacity(p)
<1>1. \A p : Using(p) = {d \in Calls : p \in calls[d].held \/ (worker[d] # Nobody /\ p \in worker[d])}
  BY DEF Using, Uses
<1> QED BY <1>1 DEF WorkCovered

LEMMA CoveredNow ==
  WorkCovered' <=> \A p \in Permits : free'[p] + Cardinality(Using(p)') = PermitCapacity(p)
<1>1. \A p : Using(p)' = {d \in Calls : p \in calls'[d].held \/ (worker'[d] # Nobody /\ p \in worker'[d])}
  BY DEF Using, Uses
<1> QED BY <1>1 DEF WorkCovered

\* The lanes give what a call uses after a step and did not before, and get back
\* what it no longer uses.
Balanced(A, B) ==
    \A p \in Permits : free'[p] = IF p \in A /\ p \notin B THEN free[p] + 1
                                 ELSE IF p \in B /\ p \notin A THEN free[p] - 1 ELSE free[p]

\* A step changes the permits one call uses by those it takes from the lanes or
\* returns to them.
LEMMA PermitsMove ==
  ASSUME PermitsInv, AccountsTypeOK, NEW c \in Calls, Elsewhere(c), Works(calls[c], worker[c])',
         NEW A, NEW B, A = Uses(calls[c], worker[c]), B = Uses(calls[c], worker[c])',
         Balanced(A, B)
  PROVE  PermitsInv'
<1>1. \A d \in Calls : Works(calls[d], worker[d])'
  <2> SUFFICES ASSUME NEW d \in Calls, d # c PROVE Works(calls[d], worker[d])' OBVIOUS
  <2>1. Works(calls[d], worker[d]) /\ calls'[d] = calls[d] /\ worker'[d] = worker[d] BY DEF PermitsInv, Elsewhere
  <2> QED BY <2>1 DEF Works
<1>2. ASSUME NEW p \in Permits PROVE free'[p] + Cardinality(Using(p)') = PermitCapacity(p)
  <2> DEFINE S == Using(p)
             T == Using(p)'
  <2>1. \A d \in Calls \ {c} : d \in S <=> d \in T BY DEF Using, Uses, Elsewhere
  <2>2. c \in S <=> p \in A BY DEF Using
  <2>3. c \in T <=> p \in B BY DEF Using
  <2>4. S \subseteq Calls /\ T \subseteq Calls BY DEF Using
  <2>5. IsFiniteSet(S) /\ IsFiniteSet(T) BY <2>4, FS_Subset, AccountsAssumption
  <2>6. free[p] + Cardinality(S) = PermitCapacity(p) BY CoveredAre DEF PermitsInv
  <2> HIDE DEF S, T
  <2>7. Cardinality(S) \in Nat /\ Cardinality(T) \in Nat BY <2>5, FS_CardinalityType
  <2>8. free[p] \in Int BY DEF AccountsTypeOK
  <2>9. CASE p \in A /\ p \notin B
    <3>1. T = S \ {c} BY <2>1, <2>2, <2>3, <2>4, <2>9
    <3>2. Cardinality(T) = Cardinality(S) - 1 BY <3>1, <2>2, <2>5, <2>9, FS_RemoveElement
    <3>3. free'[p] = free[p] + 1 BY <2>9 DEF Balanced
    <3> QED BY <3>2, <3>3, <2>6, <2>7, <2>8 DEF T
  <2>10. CASE p \in B /\ p \notin A
    <3>1. T = S \cup {c} BY <2>1, <2>2, <2>3, <2>4, <2>10
    <3>2. Cardinality(T) = Cardinality(S) + 1 BY <3>1, <2>2, <2>5, <2>10, FS_AddElement
    <3>3. free'[p] = free[p] - 1 BY <2>10 DEF Balanced
    <3> QED BY <3>2, <3>3, <2>6, <2>7, <2>8 DEF T
  <2>11. CASE (p \in A) <=> (p \in B)
    <3>1. T = S BY <2>1, <2>2, <2>3, <2>4, <2>11
    <3>2. free'[p] = free[p] BY <2>11 DEF Balanced
    <3> QED BY <3>1, <3>2, <2>6 DEF T
  <2> QED BY <2>9, <2>10, <2>11
<1> QED BY <1>1, <1>2, CoveredNow DEF PermitsInv

LEMMA PermitsSame == ASSUME PermitsInv, UNCHANGED <<calls, worker, free>> PROVE PermitsInv'
  BY DEF PermitsInv, WorkCovered, Works

LEMMA RegistrationsSame ==
  ASSUME RegistrationsInvited, UNCHANGED <<accounts, roles, invites>> PROVE RegistrationsInvited'
  BY DEF RegistrationsInvited

LEMMA CircuitsSame == ASSUME CircuitsInv, UNCHANGED <<circuits, recent>> PROVE CircuitsInv'
  BY DEF CircuitsInv, CircuitsInOrder

-----------------------------------------------------------------------------
(* The circuit table.                                                      *)

Peers == OfferedIn("peer")
Kept(c) ==
    IF ~Known(c) /\ Cardinality(DOMAIN circuits.entries) = TABLE_CAPACITY
    THEN Evicted(circuits.entries) ELSE circuits.entries

\* The table is as long as the list of its circuits in the order of their use.
LEMMA CircuitsAre ==
  ASSUME AccountsTypeOK, CircuitsInv
  PROVE  /\ recent \in Seq(Peers) /\ Len(recent) \in Nat /\ recent \in [1 .. Len(recent) -> Peers]
         /\ circuits.entries \in [Range(recent) -> Bucket] /\ circuits.tick \in Nat
         /\ circuits = [entries |-> circuits.entries, tick |-> circuits.tick]
         /\ \A i, j \in 1 .. Len(recent) : recent[i] = recent[j] => i = j
         /\ IsFiniteSet(Range(recent)) /\ Cardinality(Range(recent)) = Len(recent)
<1> DEFINE n == Len(recent)
<1>1. recent \in Seq(Peers) BY DEF AccountsTypeOK, Peers
<1>2. n \in Nat /\ recent \in [1 .. n -> Peers] BY <1>1
<1>3. circuits \in [entries : [Range(recent) -> Bucket], tick : Nat] BY DEF AccountsTypeOK
<1>4. \A c \in Range(recent) : circuits.entries[c].tick \in Nat BY <1>3 DEF Bucket
<1>5. \A i \in 1 .. n : recent[i] \in Range(recent) BY <1>2 DEF Range
<1>6. \A i, j \in 1 .. n : i < j => circuits.entries[recent[i]].tick < circuits.entries[recent[j]].tick
  BY <1>2 DEF CircuitsInv, CircuitsInOrder
<1>7. ASSUME NEW i \in 1 .. n, NEW j \in 1 .. n, recent[i] = recent[j] PROVE i = j
  <2>1. circuits.entries[recent[i]].tick \in Nat BY <1>4, <1>5
  <2>2. ~(i < j) BY <1>6, <1>7, <2>1
  <2>3. ~(j < i) BY <1>6, <1>7, <2>1
  <2> QED BY <1>2, <2>2, <2>3
<1>8. recent \in Bijection(1 .. n, Range(recent))
  <2>1. recent \in [1 .. n -> Range(recent)] BY <1>2, <1>5
  <2>2. \A y \in Range(recent) : \E x \in 1 .. n : recent[x] = y BY <1>2 DEF Range
  <2> QED BY <2>1, <2>2, <1>7 DEF Bijection, Injection, Surjection, IsInjective
<1>9. ExistsBijection(1 .. n, Range(recent)) BY <1>8 DEF ExistsBijection
<1>10. IsFiniteSet(1 .. n) BY <1>2, FS_Interval
<1>11. IsFiniteSet(Range(recent)) BY <1>9, <1>10, FS_Bijection
<1>12. Cardinality(Range(recent)) = n BY <1>2, <1>9, FS_CountingElements
<1> QED BY <1>1, <1>2, <1>3, <1>7, <1>11, <1>12

LEMMA RemoveAtIs ==
  ASSUME NEW P, NEW s \in Seq(P), NEW i \in 1 .. Len(s)
  PROVE  /\ RemoveAt(s, i) \in Seq(P) /\ Len(RemoveAt(s, i)) = Len(s) - 1
         /\ \A k \in 1 .. Len(s) - 1 : RemoveAt(s, i)[k] = s[IF k < i THEN k ELSE k + 1]
<1> DEFINE l == SubSeq(s, 1, i - 1)
           r == SubSeq(s, i + 1, Len(s))
<1>1. l \in Seq(P) /\ Len(l) = i - 1 /\ \A k \in 1 .. i - 1 : l[k] = s[k] OBVIOUS
<1>2. r \in Seq(P) /\ Len(r) = Len(s) - i /\ \A k \in 1 .. Len(s) - i : r[k] = s[i + k] OBVIOUS
<1>3. RemoveAt(s, i) = l \o r BY DEF RemoveAt
<1> HIDE DEF l, r
<1>4. Len(s) \in Nat OBVIOUS
<1>5. l \o r \in Seq(P) /\ Len(l \o r) = Len(s) - 1
  <2>1. l \o r \in Seq(P) /\ Len(l \o r) = Len(l) + Len(r) BY <1>1, <1>2, ConcatProperties
  <2> QED BY <1>1, <1>2, <1>4, <2>1
<1>6. ASSUME NEW k \in 1 .. Len(s) - 1 PROVE (l \o r)[k] = s[IF k < i THEN k ELSE k + 1]
  <2>1. CASE k < i BY <1>1, <1>2, <1>4, <2>1
  <2>2. CASE ~(k < i)
    <3>1. (l \o r)[k] = r[k - Len(l)] BY <1>1, <1>2, <1>4, <2>2
    <3>2. k - Len(l) \in 1 .. Len(s) - i BY <1>1, <1>4, <2>2
    <3>3. i + (k - Len(l)) = k + 1 BY <1>1, <1>4
    <3> QED BY <1>2, <2>2, <3>1, <3>2, <3>3
  <2> QED BY <2>1, <2>2
<1> QED BY <1>3, <1>5, <1>6

LEMMA EvictedIs ==
  ASSUME AccountsTypeOK, CircuitsInv, Len(recent) > 0
  PROVE  /\ Evicted(circuits.entries) \in [Range(recent) \ {recent[1]} -> Bucket]
         /\ \A d \in Range(recent) \ {recent[1]} : Evicted(circuits.entries)[d] = circuits.entries[d]
<1> DEFINE E == circuits.entries
           Oldest(c) == \A d \in DOMAIN E : E[c].tick <= E[d].tick
           oldest == CHOOSE c \in DOMAIN E : Oldest(c)
<1>1. E \in [Range(recent) -> Bucket] /\ recent \in [1 .. Len(recent) -> Peers] /\ Len(recent) \in Nat BY CircuitsAre
<1>2. recent[1] \in DOMAIN E BY <1>1 DEF Range
<1>3. ASSUME NEW d \in DOMAIN E, d # recent[1] PROVE E[recent[1]].tick < E[d].tick
  <2>1. PICK j \in 1 .. Len(recent) : recent[j] = d BY <1>1 DEF Range
  <2>2. 1 < j /\ 1 \in 1 .. Len(recent) BY <1>1, <1>3, <2>1
  <2> QED BY <1>1, <2>1, <2>2 DEF CircuitsInv, CircuitsInOrder
<1>4. \A d \in DOMAIN E : E[d].tick \in Nat BY <1>1 DEF Bucket
<1>5. Oldest(recent[1]) BY <1>2, <1>3, <1>4
<1>6. oldest \in DOMAIN E /\ Oldest(oldest) BY <1>2, <1>5
<1>7. oldest = recent[1]
  <2>1. SUFFICES ASSUME oldest # recent[1] PROVE FALSE OBVIOUS
  <2>2. E[recent[1]].tick < E[oldest].tick BY <1>3, <1>6, <2>1
  <2>3. E[oldest].tick <= E[recent[1]].tick BY <1>2, <1>6
  <2>4. E[oldest].tick \in Nat /\ E[recent[1]].tick \in Nat BY <1>2, <1>4, <1>6
  <2> HIDE DEF E, oldest
  <2> QED BY <2>2, <2>3, <2>4
<1>8. Evicted(E) = [c \in DOMAIN E \ {oldest} |-> E[c]] BY DEF Evicted
<1> QED BY <1>1, <1>7, <1>8

\* What is remembered after a use of c: circuits used before, in their order,
\* then c.  They are the circuits whose entries are kept.
Keeps(c, m, f) ==
    /\ m \in 0 .. TABLE_CAPACITY - 1 /\ f \in [1 .. m -> 1 .. Len(recent)]
    /\ \A k, l \in 1 .. m : k < l => f[k] < f[l]
    /\ Remembered(c) \in Seq(Peers) /\ Len(Remembered(c)) = m + 1 /\ Remembered(c)[m + 1] = c
    /\ \A k \in 1 .. m : Remembered(c)[k] = recent[f[k]] /\ recent[f[k]] # c /\ recent[f[k]] \in DOMAIN Kept(c)
    /\ \A d \in DOMAIN Kept(c) \ {c} : \E k \in 1 .. m : recent[f[k]] = d

LEMMA RememberedIs ==
  ASSUME AccountsTypeOK, CircuitsInv, NEW c \in Peers
  PROVE  /\ \E m, f : Keeps(c, m, f)
         /\ Kept(c) \in [DOMAIN Kept(c) -> Bucket] /\ DOMAIN Kept(c) \subseteq Range(recent)
         /\ Known(c) => Kept(c) = circuits.entries
         /\ \A d \in DOMAIN Kept(c) : Kept(c)[d] = circuits.entries[d]
<1> DEFINE n == Len(recent)
           uses == {i \in DOMAIN recent : recent[i] = c}
           others == IF uses = {} THEN recent ELSE RemoveAt(recent, CHOOSE i \in uses : TRUE)
           seq == Append(others, c)
<1>1. /\ recent \in Seq(Peers) /\ n \in Nat /\ recent \in [1 .. n -> Peers] /\ DOMAIN recent = 1 .. n
      /\ circuits.entries \in [Range(recent) -> Bucket] /\ DOMAIN circuits.entries = Range(recent)
      /\ Cardinality(Range(recent)) = n
  BY CircuitsAre
<1>2. \A i, j \in 1 .. n : recent[i] = recent[j] => i = j BY CircuitsAre
<1>3. n <= TABLE_CAPACITY /\ TABLE_CAPACITY \in Nat /\ TABLE_CAPACITY > 0 BY AccountsAssumption DEF CircuitsInv
<1>0. n \in Nat BY <1>1
<1>4. Remembered(c) = IF Len(seq) > TABLE_CAPACITY THEN Tail(seq) ELSE seq BY DEF Remembered
<1>5. Range(recent) = {recent[i] : i \in 1 .. n} BY <1>1 DEF Range
<1>6. Known(c) <=> \E i \in 1 .. n : recent[i] = c BY <1>1, <1>5 DEF Known
<1>7. CASE Known(c)
  <2>1. Kept(c) = circuits.entries BY <1>7 DEF Kept
  <2>2. PICK i \in 1 .. n : i = (CHOOSE j \in uses : TRUE) /\ recent[i] = c
    <3>1. uses # {} BY <1>1, <1>6, <1>7
    <3> QED BY <1>1, <3>1
  <2>3. others = RemoveAt(recent, i) BY <2>2, <1>1
  <2>4. /\ others \in Seq(Peers) /\ Len(others) = n - 1
        /\ \A k \in 1 .. n - 1 : others[k] = recent[IF k < i THEN k ELSE k + 1]
    <3> DEFINE r == RemoveAt(recent, i)
    <3>1. recent \in Seq(Peers) /\ i \in 1 .. Len(recent) BY <1>1
    <3>2. /\ r \in Seq(Peers) /\ Len(r) = Len(recent) - 1
          /\ \A k \in 1 .. Len(recent) - 1 : r[k] = recent[IF k < i THEN k ELSE k + 1]
      BY <3>1, RemoveAtIs
    <3> HIDE DEF r
    <3>3. others = r BY <2>3 DEF r
    <3> QED BY <3>2, <3>3
  <2> HIDE DEF others
  <2>5. seq \in Seq(Peers) /\ Len(seq) = n /\ seq[n] = c /\ \A k \in 1 .. n - 1 : seq[k] = others[k]
    <3>1. /\ Append(others, c) \in Seq(Peers) /\ Len(Append(others, c)) = Len(others) + 1
          /\ Append(others, c)[Len(others) + 1] = c
          /\ \A k \in 1 .. Len(others) : Append(others, c)[k] = others[k]
      BY <2>4, AppendProperties
    <3>2. Len(others) + 1 = n /\ n - 1 = Len(others) BY <1>0, <2>4
    <3> QED BY <3>1, <3>2
  <2> HIDE DEF seq
  <2>6. Remembered(c) = seq BY <1>1, <1>3, <1>4, <2>5
  <2> DEFINE m == n - 1
             f == [k \in 1 .. m |-> IF k < i THEN k ELSE k + 1]
  <2>7. m \in 0 .. TABLE_CAPACITY - 1 /\ m + 1 = n BY <1>1, <1>3, <2>2
  <2>8. f \in [1 .. m -> 1 .. n] /\ \A k \in 1 .. m : f[k] = IF k < i THEN k ELSE k + 1 BY <1>1, <2>2
  <2> HIDE DEF f, m
  <2>9. \A k, l \in 1 .. m : k < l => f[k] < f[l]
    <3>1. i \in Int /\ m \in Int BY <1>0, <2>2, <2>7
    <3> QED BY <2>8, <3>1
  <2>10. ASSUME NEW k \in 1 .. m PROVE seq[k] = recent[f[k]] /\ recent[f[k]] # c /\ recent[f[k]] \in DOMAIN Kept(c)
    <3>1. k \in 1 .. n - 1 /\ k \in Int BY <1>1, <2>7
    <3>2. f[k] = (IF k < i THEN k ELSE k + 1) /\ f[k] \in 1 .. n BY <2>8
    <3>3. seq[k] = recent[f[k]] BY <2>4, <2>5, <3>1, <3>2
    <3>4. f[k] # i
      <4>1. i \in Int BY <1>0, <2>2
      <4> HIDE DEF uses
      <4> QED BY <3>1, <3>2, <4>1
    <3>5. recent[f[k]] # c BY <1>2, <2>2, <3>2, <3>4
    <3> QED BY <1>1, <1>5, <2>1, <3>2, <3>3, <3>5
  <2>11. ASSUME NEW d \in DOMAIN Kept(c) \ {c} PROVE \E k \in 1 .. m : recent[f[k]] = d
    <3>1. PICK j \in 1 .. n : recent[j] = d BY <1>1, <1>5, <2>1
    <3>2. j # i BY <2>2, <3>1
    <3>3. CASE j < i
      <4>1. j \in 1 .. m /\ f[j] = j BY <1>1, <2>2, <2>7, <2>8, <3>3
      <4> QED BY <3>1, <4>1
    <3>4. CASE i < j
      <4>1. i \in 1 .. n /\ j \in Int /\ i \in Int BY <1>0, <2>2, <3>1
      <4>2. j - 1 \in 1 .. m /\ ~(j - 1 < i) BY <1>0, <2>7, <3>4, <4>1
      <4>3. f[j - 1] = (j - 1) + 1 BY <2>8, <4>2
      <4>4. f[j - 1] = j BY <4>1, <4>3
      <4> QED BY <3>1, <4>2, <4>4
    <3> QED BY <1>1, <2>2, <3>2, <3>3, <3>4
  <2>12. Keeps(c, m, f) BY <2>5, <2>6, <2>7, <2>8, <2>9, <2>10, <2>11 DEF Keeps
  <2> QED BY <1>1, <2>1, <2>12
<1>8. CASE ~Known(c)
  <2>1. others = recent BY <1>1, <1>6, <1>8
  <2> HIDE DEF others
  <2>2. seq \in Seq(Peers) /\ Len(seq) = n + 1 /\ seq[n + 1] = c /\ \A k \in 1 .. n : seq[k] = recent[k]
    BY <1>1, <2>1
  <2> HIDE DEF seq
  <2>3. \A d \in Range(recent) : d # c BY <1>1, <1>8 DEF Known
  <2>4. \A k \in 1 .. n : recent[k] \in Range(recent) BY <1>5
  <2>5. CASE n = TABLE_CAPACITY
    <3>1. Kept(c) = Evicted(circuits.entries) BY <1>1, <1>8, <2>5 DEF Kept
    <3>2. /\ Kept(c) \in [Range(recent) \ {recent[1]} -> Bucket]
          /\ DOMAIN Kept(c) = Range(recent) \ {recent[1]}
          /\ \A d \in Range(recent) \ {recent[1]} : Kept(c)[d] = circuits.entries[d]
      BY <1>1, <1>3, <2>5, <3>1, EvictedIs
    <3>3. Remembered(c) = Tail(seq) BY <1>1, <1>3, <1>4, <2>2, <2>5
    <3>4. Tail(seq) \in Seq(Peers) /\ Len(Tail(seq)) = n /\ \A k \in 1 .. n : Tail(seq)[k] = seq[k + 1]
      BY <1>1, <1>3, <2>2, <2>5, HeadTailProperties
    <3> DEFINE m == n - 1
               f == [k \in 1 .. m |-> k + 1]
    <3>5. m \in 0 .. TABLE_CAPACITY - 1 /\ m + 1 = n BY <1>1, <1>3, <2>5
    <3>6. f \in [1 .. m -> 1 .. n] /\ \A k \in 1 .. m : f[k] = k + 1 BY <1>1
    <3> HIDE DEF f, m
    <3>7. \A k, l \in 1 .. m : k < l => f[k] < f[l] BY <1>1, <3>5, <3>6
    <3>8. ASSUME NEW k \in 1 .. m
          PROVE  Tail(seq)[k] = recent[f[k]] /\ recent[f[k]] # c /\ recent[f[k]] \in DOMAIN Kept(c)
      <4>1. k \in 1 .. n /\ k + 1 \in 1 .. n /\ f[k] = k + 1 /\ k + 1 # 1 /\ 1 \in 1 .. n BY <1>1, <3>5, <3>6
      <4>2. Tail(seq)[k] = recent[k + 1] BY <2>2, <3>4, <4>1
      <4>3. recent[k + 1] # recent[1] BY <1>2, <4>1
      <4> QED BY <2>3, <2>4, <3>2, <4>1, <4>2, <4>3
    <3>9. ASSUME NEW d \in DOMAIN Kept(c) \ {c} PROVE \E k \in 1 .. m : recent[f[k]] = d
      <4>1. PICK j \in 1 .. n : recent[j] = d BY <1>5, <3>2
      <4>2. j # 1 BY <3>2, <4>1
      <4>3. j - 1 \in 1 .. m /\ f[j - 1] = j BY <1>1, <3>5, <3>6, <4>2
      <4> QED BY <4>1, <4>3
    <3>10. Tail(seq)[m + 1] = c
      <4>1. n \in 1 .. n BY <1>1, <1>3, <2>5
      <4> QED BY <2>2, <3>4, <3>5, <4>1
    <3>11. Keeps(c, m, f) BY <3>3, <3>4, <3>5, <3>6, <3>7, <3>8, <3>9, <3>10 DEF Keeps
    <3> QED BY <1>8, <3>2, <3>11
  <2>6. CASE n # TABLE_CAPACITY
    <3>1. Kept(c) = circuits.entries BY <1>1, <1>8, <2>6 DEF Kept
    <3>2. Remembered(c) = seq 
      <4>1. n + 1 <= TABLE_CAPACITY BY <1>0, <1>3, <2>6
      <4>2. ~(Len(seq) > TABLE_CAPACITY) BY <1>0, <1>3, <2>2, <4>1
      <4> QED BY <1>4, <4>2
    <3> DEFINE f == [k \in 1 .. n |-> k]
    <3>3. n \in 0 .. TABLE_CAPACITY - 1 BY <1>0, <1>3, <2>6
    <3>4. f \in [1 .. n -> 1 .. n] /\ \A k \in 1 .. n : f[k] = k OBVIOUS
    <3> HIDE DEF f
    <3>5. \A k, l \in 1 .. n : k < l => f[k] < f[l] BY <3>4
    <3>6. \A k \in 1 .. n : seq[k] = recent[f[k]] /\ recent[f[k]] # c /\ recent[f[k]] \in DOMAIN Kept(c)
      BY <1>1, <2>2, <2>3, <2>4, <3>1, <3>4
    <3>7. \A d \in DOMAIN Kept(c) \ {c} : \E k \in 1 .. n : recent[f[k]] = d BY <1>1, <1>5, <3>1, <3>4
    <3>8. Keeps(c, n, f) BY <2>2, <3>2, <3>3, <3>4, <3>5, <3>6, <3>7 DEF Keeps
    <3> QED BY <1>1, <3>1, <3>8
  <2> QED BY <2>5, <2>6
<1> QED BY <1>7, <1>8

\* Renumbering keeps the order of the ticks and leaves room for the next one.
LEMMA RenumberedIs ==
  ASSUME NEW K, NEW kept \in [K -> Bucket], NEW tick \in Nat, IsFiniteSet(K),
         Cardinality(K) < LAST_TICK, tick <= LAST_TICK, \A d \in K : kept[d].tick < tick
  PROVE  LET table == Renumbered([entries |-> kept, tick |-> tick]) IN
         /\ table.entries \in [K -> Bucket] /\ table.tick \in Nat /\ table.tick < LAST_TICK
         /\ \A d \in K : table.entries[d].tokens = kept[d].tokens /\ table.entries[d].tick < table.tick
         /\ \A d, e \in K : kept[d].tick < kept[e].tick => table.entries[d].tick < table.entries[e].tick
<1> DEFINE old == [entries |-> kept, tick |-> tick]
           table == Renumbered(old)
           Before(d) == {e \in K : kept[e].tick < kept[d].tick}
<1>0. LAST_TICK \in Nat BY AccountsAssumption
<1>1. old.entries = kept /\ old.tick = tick /\ DOMAIN kept = K OBVIOUS
<1>2. CASE tick # LAST_TICK
  <2>1. table = old BY <1>1, <1>2 DEF Renumbered
  <2> QED BY <1>0, <1>1, <1>2, <2>1 DEF Bucket
<1>3. CASE tick = LAST_TICK
  <2> DEFINE entries == [d \in K |-> [kept[d] EXCEPT !.tick = Cardinality(Before(d))]]
  <2>0. table = [entries |-> entries, tick |-> Cardinality(K)] BY <1>1, <1>3 DEF Renumbered
  <2> HIDE DEF table
  <2>1. table.entries = entries /\ table.tick = Cardinality(K)
    <3> HIDE DEF entries
    <3> QED BY <2>0
  <2>2. \A d \in K : kept[d] \in [tokens : Nat, tick : Nat] BY DEF Bucket
  <2>3. Cardinality(K) \in Nat BY FS_CardinalityType
  <2>4. ASSUME NEW d \in K
        PROVE  IsFiniteSet(Before(d)) /\ Cardinality(Before(d)) \in Nat /\ Cardinality(Before(d)) < Cardinality(K)
    <3>1. Before(d) \in SUBSET K /\ d \notin Before(d) BY <2>2
    <3>2. IsFiniteSet(Before(d)) /\ Cardinality(Before(d)) <= Cardinality(K)
          /\ (Cardinality(K) = Cardinality(Before(d)) => K = Before(d)) BY <3>1, FS_Subset
    <3>3. Cardinality(Before(d)) \in Nat BY <3>2, FS_CardinalityType
    <3> QED BY <2>3, <3>1, <3>2, <3>3
  <2>5. ASSUME NEW d \in K
        PROVE  /\ table.entries[d] \in Bucket
               /\ table.entries[d].tokens = kept[d].tokens
               /\ table.entries[d].tick = Cardinality(Before(d))
    <3> DEFINE n == Cardinality(Before(d))
               b == kept[d]
    <3>1. entries[d] = [b EXCEPT !.tick = n] OBVIOUS
    <3>2. n \in Nat /\ b \in [tokens : Nat, tick : Nat] BY <2>2, <2>4
    <3> HIDE DEF n, b, entries
    <3>3. /\ [b EXCEPT !.tick = n] \in [tokens : Nat, tick : Nat]
          /\ [b EXCEPT !.tick = n].tokens = b.tokens /\ [b EXCEPT !.tick = n].tick = n
      BY <3>2
    <3> QED BY <2>1, <3>1, <3>3 DEF n, b, Bucket
  <2>6. table.entries \in [K -> Bucket]
    <3>1. \A d \in K : entries[d] \in Bucket BY <2>1, <2>5
    <3>2. entries = [d \in K |-> entries[d]] OBVIOUS
    <3> HIDE DEF entries
    <3> QED BY <2>1, <3>1, <3>2
  <2>7. ASSUME NEW d \in K, NEW e \in K, kept[d].tick < kept[e].tick
        PROVE  table.entries[d].tick < table.entries[e].tick
    <3>1. d \in Before(e) /\ d \notin Before(d) BY <2>2, <2>7
    <3>2. Before(d) \in SUBSET Before(e) BY <2>2, <2>7
    <3>3. IsFiniteSet(Before(e)) BY <2>4
    <3>4. Cardinality(Before(d)) <= Cardinality(Before(e))
          /\ (Cardinality(Before(e)) = Cardinality(Before(d)) => Before(e) = Before(d)) BY <3>2, <3>3, FS_Subset
    <3>5. Cardinality(Before(d)) \in Nat /\ Cardinality(Before(e)) \in Nat BY <2>4
    <3>6. Cardinality(Before(d)) < Cardinality(Before(e)) BY <3>1, <3>4, <3>5
    <3> QED BY <2>5, <3>6
  <2> HIDE DEF entries
  <2>8. \A d \in K : table.entries[d].tokens = kept[d].tokens /\ table.entries[d].tick < table.tick BY <2>1, <2>4, <2>5
  <2>9. table.tick \in Nat /\ table.tick < LAST_TICK BY <2>1, <2>3
  <2> QED BY <2>6, <2>7, <2>8, <2>9 DEF table
<1> QED BY <1>2, <1>3

\* Charging a circuit, whether it was known or not, keeps the table in order.
LEMMA ChargedKeeps ==
  ASSUME AccountsTypeOK, CircuitsInv, NEW c \in Peers, NEW cost \in Nat, NEW drain,
         circuits' = ChargedTable(c, cost, drain), recent' = Remembered(c)
  PROVE  /\ CircuitsInv' /\ recent' \in Seq(OfferedIn("peer"))
         /\ circuits' \in [entries : [Range(recent') -> Bucket], tick : Nat]
<1> DEFINE K == DOMAIN Kept(c)
           kept == Kept(c)
           table == Renumbered([entries |-> kept, tick |-> circuits.tick])
           tokens == IF Known(c) THEN table.entries[c].tokens ELSE CIRCUIT_START
           left == IF tokens >= cost THEN tokens - cost ELSE IF drain THEN 0 ELSE tokens
           final == [d \in DOMAIN table.entries \cup {c} |->
                       IF d = c THEN [tokens |-> left, tick |-> table.tick] ELSE table.entries[d]]
<1>1. circuits' = [entries |-> final, tick |-> table.tick + 1] BY DEF ChargedTable, Kept
<1>2. PICK m, f : Keeps(c, m, f) BY RememberedIs
<1>3. /\ kept \in [K -> Bucket] /\ K \subseteq Range(recent)
      /\ Known(c) => kept = circuits.entries
      /\ \A d \in K : kept[d] = circuits.entries[d]
  BY RememberedIs
<1>4. /\ circuits.tick \in Nat /\ circuits.entries \in [Range(recent) -> Bucket] /\ IsFiniteSet(Range(recent))
      /\ Cardinality(Range(recent)) = Len(recent) /\ Len(recent) \in Nat /\ recent \in [1 .. Len(recent) -> Peers]
  BY CircuitsAre
<1>5. LAST_TICK \in Nat /\ LAST_TICK > TABLE_CAPACITY /\ TABLE_CAPACITY \in Nat /\ CIRCUIT_START \in Nat
      /\ CIRCUIT_START <= CIRCUIT_CAPACITY /\ CIRCUIT_CAPACITY \in Nat
  BY AccountsAssumption
<1>6. /\ Len(recent) <= TABLE_CAPACITY /\ circuits.tick <= LAST_TICK
      /\ \A d \in DOMAIN circuits.entries : circuits.entries[d].tick < circuits.tick
      /\ \A d \in DOMAIN circuits.entries : circuits.entries[d].tokens <= CIRCUIT_CAPACITY
      /\ \A i, j \in DOMAIN recent : i < j => circuits.entries[recent[i]].tick < circuits.entries[recent[j]].tick
  BY DEF CircuitsInv, CircuitsInOrder
<1>7. IsFiniteSet(K) /\ Cardinality(K) \in Nat /\ Cardinality(K) < LAST_TICK
  <2>1. K \in SUBSET Range(recent) BY <1>3
  <2>2. IsFiniteSet(K) /\ Cardinality(K) <= Cardinality(Range(recent)) BY <1>4, <2>1, FS_Subset
  <2>3. Cardinality(K) \in Nat BY <2>2, FS_CardinalityType
  <2> HIDE DEF K
  <2> QED BY <1>4, <1>5, <1>6, <2>2, <2>3
<1>8. \A d \in K : kept[d].tick < circuits.tick BY <1>3, <1>4, <1>6
<1> HIDE DEF K, kept
<1>9. /\ table.entries \in [K -> Bucket] /\ table.tick \in Nat /\ table.tick < LAST_TICK
      /\ \A d \in K : table.entries[d].tokens = kept[d].tokens /\ table.entries[d].tick < table.tick
      /\ \A d, e \in K : kept[d].tick < kept[e].tick => table.entries[d].tick < table.entries[e].tick
  <2>1. circuits.tick \in Nat /\ circuits.tick <= LAST_TICK BY <1>4, <1>6
  <2> QED BY <1>3, <1>7, <1>8, <2>1, RenumberedIs
<1> HIDE DEF table
<1>10. tokens \in Nat /\ tokens <= CIRCUIT_CAPACITY
  <2>1. CASE Known(c)
    <3>1. c \in K BY <1>3, <2>1 DEF Known, K, kept
    <3>2. kept[c] \in Bucket /\ kept[c].tokens <= CIRCUIT_CAPACITY BY <1>3, <1>4, <1>6, <3>1
    <3>3. kept[c].tokens \in Nat BY <3>2 DEF Bucket
    <3> QED BY <1>9, <2>1, <3>1, <3>2, <3>3
  <2>2. CASE ~Known(c) BY <1>5, <2>2
  <2> QED BY <2>1, <2>2
<1> HIDE DEF tokens
<1>11. left \in Nat /\ left <= CIRCUIT_CAPACITY BY <1>5, <1>10
<1> HIDE DEF left
<1>12. /\ DOMAIN final = K \cup {c} /\ final[c] = [tokens |-> left, tick |-> table.tick]
       /\ \A d \in K : d # c => final[d] = table.entries[d]
  BY <1>9
<1>13. final \in [K \cup {c} -> Bucket] /\ \A d \in K \cup {c} : final[d].tokens <= CIRCUIT_CAPACITY
                                                               /\ final[d].tick < table.tick + 1
  <2>1. final[c] \in Bucket /\ final[c].tokens <= CIRCUIT_CAPACITY /\ final[c].tick < table.tick + 1
    BY <1>9, <1>11, <1>12 DEF Bucket
  <2>2. ASSUME NEW d \in K, d # c
        PROVE  final[d] \in Bucket /\ final[d].tokens <= CIRCUIT_CAPACITY /\ final[d].tick < table.tick + 1
    <3>1. final[d] \in Bucket /\ final[d] = table.entries[d] BY <1>9, <1>12, <2>2
    <3>2. kept[d].tokens <= CIRCUIT_CAPACITY BY <1>3, <1>4, <1>6
    <3>3. table.entries[d].tick < table.tick /\ final[d].tick \in Nat BY <1>9, <3>1 DEF Bucket
    <3> QED BY <1>9, <3>1, <3>2, <3>3
  <2> QED BY <1>12, <2>1, <2>2
<1> HIDE DEF final
<1>14. /\ m \in 0 .. TABLE_CAPACITY - 1 /\ f \in [1 .. m -> 1 .. Len(recent)]
       /\ \A k, l \in 1 .. m : k < l => f[k] < f[l]
       /\ recent' \in Seq(Peers) /\ Len(recent') = m + 1 /\ recent'[m + 1] = c
       /\ \A k \in 1 .. m : recent'[k] = recent[f[k]] /\ recent[f[k]] # c /\ recent[f[k]] \in K
       /\ \A d \in K \ {c} : \E k \in 1 .. m : recent[f[k]] = d
  BY <1>2 DEF Keeps, K
<1>15. m \in Nat /\ DOMAIN recent' = 1 .. m + 1 BY <1>5, <1>14
<1>16. Range(recent') = K \cup {c}
  <2>1. Range(recent') = {recent'[k] : k \in 1 .. m + 1} BY <1>15 DEF Range
  <2>2. \A k \in 1 .. m + 1 : k \in 1 .. m \/ k = m + 1 BY <1>15
  <2>3. ASSUME NEW d \in K \cup {c} PROVE \E k \in 1 .. m + 1 : recent'[k] = d
    <3>1. CASE d = c BY <1>14, <1>15, <3>1
    <3>2. CASE d # c
      <4>1. PICK k \in 1 .. m : recent[f[k]] = d BY <1>14, <3>2
      <4>2. k \in 1 .. m + 1 BY <1>15
      <4> QED BY <1>14, <4>1, <4>2
    <3> QED BY <3>1, <3>2
  <2>4. \A k \in 1 .. m + 1 : recent'[k] \in K \cup {c} BY <1>14, <2>2
  <2> QED BY <2>1, <2>3, <2>4
<1>17. ASSUME NEW i \in 1 .. m + 1, NEW j \in 1 .. m + 1, i < j
       PROVE  final[recent'[i]].tick < final[recent'[j]].tick
  <2>1. i \in 1 .. m BY <1>15, <1>17
  <2>2. recent'[i] = recent[f[i]] /\ recent[f[i]] # c /\ recent[f[i]] \in K /\ f[i] \in DOMAIN recent
    BY <1>4, <1>14, <2>1
  <2>3. final[recent'[i]].tick = table.entries[recent[f[i]]].tick BY <1>12, <2>2
  <2>4. CASE j = m + 1 BY <1>9, <1>12, <1>14, <2>2, <2>3, <2>4
  <2>5. CASE j # m + 1
    <3>1. j \in 1 .. m BY <1>15, <2>5
    <3>2. recent'[j] = recent[f[j]] /\ recent[f[j]] # c /\ recent[f[j]] \in K /\ f[j] \in DOMAIN recent
      BY <1>4, <1>14, <3>1
    <3>3. final[recent'[j]].tick = table.entries[recent[f[j]]].tick BY <1>12, <3>2
    <3>4. f[i] < f[j] BY <1>14, <1>17, <2>1, <3>1
    <3>5. circuits.entries[recent[f[i]]].tick < circuits.entries[recent[f[j]]].tick
      BY <1>6, <2>2, <3>2, <3>4, Zenon
    <3>6. kept[recent[f[i]]].tick < kept[recent[f[j]]].tick BY <1>3, <2>2, <3>2, <3>5
    <3> QED BY <1>9, <2>2, <2>3, <3>2, <3>3, <3>6
  <2> QED BY <2>4, <2>5
<1>18. circuits'.entries = final /\ circuits'.tick = table.tick + 1 /\ DOMAIN circuits'.entries = K \cup {c}
  BY <1>1, <1>12
<1>19. CircuitsInOrder' BY <1>13, <1>15, <1>16, <1>17, <1>18 DEF CircuitsInOrder
<1>20. Len(recent') <= TABLE_CAPACITY /\ circuits'.tick <= LAST_TICK /\ circuits'.tick \in Nat
  BY <1>5, <1>9, <1>14, <1>18
<1>21. CircuitsInv' BY <1>13, <1>18, <1>19, <1>20 DEF CircuitsInv
<1>22. circuits' \in [entries : [Range(recent') -> Bucket], tick : Nat] BY <1>1, <1>13, <1>16, <1>18, <1>20
<1> QED BY <1>14, <1>21, <1>22 DEF Peers

LEMMA Costs == \A kind : COST[ClassOf(kind)] \in Nat /\ COST["PasswordHash"] \in Nat
  BY AccountsAssumption DEF ClassOf

LEMMA ChargeCircuitKeeps ==
  ASSUME AccountsTypeOK, CircuitsInv, NEW c \in Peers, NEW cost \in Nat, ChargeCircuit(c, cost) \/ FailedSession(c)
  PROVE  /\ CircuitsInv' /\ recent' \in Seq(OfferedIn("peer"))
         /\ circuits' \in [entries : [Range(recent') -> Bucket], tick : Nat]
<1>1. CASE UNCHANGED <<circuits, recent>> BY <1>1, CircuitsSame DEF AccountsTypeOK
<1>2. CASE circuits' = ChargedTable(c, cost, FALSE) /\ recent' = Remembered(c) BY <1>2, ChargedKeeps, Zenon
<1>3. CASE circuits' = ChargedTable(c, COST["PasswordHash"], TRUE) /\ recent' = Remembered(c)
  BY <1>3, Costs, ChargedKeeps, Zenon
<1> QED BY <1>1, <1>2, <1>3 DEF ChargeCircuit, FailedSession

-----------------------------------------------------------------------------
(* Steps of one call.                                                      *)

LEMMA CallMoves ==
  ASSUME AccountsTypeOK, PermitsInv, NEW c \in Calls, NEW next \in CallType, NEW its \in (SUBSET Permits) \cup {Nobody},
         Progress(c, next), worker' = [worker EXCEPT ![c] = its], Works(next, its),
         NEW A, NEW B, A = Uses(calls[c], worker[c]), B = Uses(next, its),
         Balanced(A, B)
  PROVE  /\ calls' \in [Calls -> CallType] /\ worker' \in [Calls -> (SUBSET Permits) \cup {Nobody}]
         /\ calls'[c] = next /\ worker'[c] = its /\ Elsewhere(c) /\ PermitsInv'
<1>1. calls' \in [Calls -> CallType] /\ calls'[c] = next /\ \A d \in Calls \ {c} : calls'[d] = calls[d]
  BY Progressed
<1>2. /\ worker' \in [Calls -> (SUBSET Permits) \cup {Nobody}] /\ worker'[c] = its
      /\ \A d \in Calls \ {c} : worker'[d] = worker[d]
  BY DEF AccountsTypeOK
<1>3. Elsewhere(c) BY <1>1, <1>2 DEF Elsewhere
<1>4. Works(calls[c], worker[c])' BY <1>1, <1>2 DEF Works
<1>5. B = Uses(calls[c], worker[c])' BY <1>1, <1>2 DEF Uses
<1>6. PermitsInv' BY <1>3, <1>4, <1>5, PermitsMove
<1> QED BY <1>1, <1>2, <1>3, <1>6

\* A call without a worker gives its permits back.
LEMMA CallLeaves ==
  ASSUME AccountsTypeOK, PermitsInv, NEW c \in Calls, calls[c].at \in {"candidate", "begun", "hashed"},
         NEW next \in CallType, Progress(c, next), next.held = {}, next.at \in {"done", "waiting"},
         free' = Returned(calls[c].held), UNCHANGED worker
  PROVE  /\ calls' \in [Calls -> CallType] /\ worker' \in [Calls -> (SUBSET Permits) \cup {Nobody}]
         /\ free' \in [Permits -> Int]
         /\ calls'[c] = next /\ Elsewhere(c) /\ PermitsInv'
<1>1. Works(calls[c], worker[c]) BY DEF PermitsInv
<1>2. worker[c] = Nobody /\ worker \in [Calls -> (SUBSET Permits) \cup {Nobody}] BY <1>1 DEF Works, AccountsTypeOK
<1>3. Uses(calls[c], worker[c]) = calls[c].held BY <1>2 DEF Uses
<1>4. Uses(next, Nobody) = {} BY DEF Uses
<1>5. Works(next, Nobody) BY DEF Works
<1>6. worker' = [worker EXCEPT ![c] = Nobody] BY <1>2
<1>7. Nobody \in (SUBSET Permits) \cup {Nobody} OBVIOUS
<1>8. free' \in [Permits -> Int] /\ \A p \in Permits : free'[p] = IF p \in calls[c].held THEN free[p] + 1 ELSE free[p]
  BY ReturnedIs
<1> DEFINE A == Uses(calls[c], worker[c])
           B == Uses(next, Nobody)
<1>9. Balanced(A, B)
  BY <1>3, <1>4, <1>8 DEF Balanced
<1> HIDE DEF A, B
<1>10. A = Uses(calls[c], worker[c]) /\ B = Uses(next, Nobody) BY DEF A, B
<1> DEFINE its == Nobody
<1>11. its \in (SUBSET Permits) \cup {Nobody} /\ worker' = [worker EXCEPT ![c] = its] /\ B = Uses(next, its) /\ Works(next, its)
  BY <1>5, <1>6, <1>7, <1>10
<1> HIDE DEF its
<1>12. /\ calls' \in [Calls -> CallType] /\ worker' \in [Calls -> (SUBSET Permits) \cup {Nobody}]
       /\ calls'[c] = next /\ worker'[c] = its /\ Elsewhere(c) /\ PermitsInv'
  BY <1>9, <1>10, <1>11, CallMoves
<1> QED BY <1>8, <1>12

LEMMA QuietStep ==
  ASSUME AccountsInv, NEW c \in Calls, UNCHANGED <<stored, wall, keys, cookies, circuits, recent, revoked>>,
         attempts' \in Nat, free' \in [Permits -> Int], calls' \in [Calls -> CallType],
         worker' \in [Calls -> (SUBSET Permits) \cup {Nobody}], Elsewhere(c), ReadBefore(calls[c])', PermitsInv'
  PROVE  AccountsInv'
<1>1. AccountsTypeOK' BY DEF AccountsInv, AccountsTypeOK, stored
<1>2. SessionsInv' BY SessionsSame DEF AccountsInv, stored
<1>3. RegistrationsInvited' BY RegistrationsSame DEF AccountsInv, stored
<1>4. CircuitsInv' BY CircuitsSame DEF AccountsInv
<1> QED BY <1>1, <1>2, <1>3, <1>4 DEF AccountsInv

LEMMA Idle == ASSUME NEW call, call.at \notin {"hashing", "hashed"} PROVE ReadBefore(call)
  BY DEF ReadBefore

LEMMA IdleNow == ASSUME NEW c, calls'[c].at \notin {"hashing", "hashed"} PROVE ReadBefore(calls[c])'
  BY DEF ReadBefore

\* A call enters its lane.
LEMMA AcquiredKeeps ==
  ASSUME AccountsInv, NEW c \in Calls, calls[c].at \in {"candidate", "waiting"}, calls[c].held = {},
         NEW ps \in SUBSET (Lanes \X Resources), Acquired(c, ps),
         NEW at \in {"candidate", "begun"}, Progress(c, [calls[c] EXCEPT !.at = at, !.held = ps]),
         UNCHANGED <<stored, wall, keys, cookies, worker, attempts, circuits, recent, events, revoked>>
  PROVE  AccountsInv'
<1> DEFINE call == calls[c]
           next == [call EXCEPT !.at = at, !.held = ps]
<1>1. AccountsTypeOK /\ PermitsInv BY DEF AccountsInv
<1>2. call \in CallType BY <1>1 DEF AccountsTypeOK
<1>3. ps \in SUBSET Permits /\ Hash \notin ps BY HashApart DEF Permits
<1>4. next \in CallType /\ next.at = at /\ next.held = ps
  <2> HIDE DEF call
  <2> QED BY <1>2, <1>3 DEF CallType
<1>5. Works(call, worker[c]) BY <1>1 DEF PermitsInv
<1>6. worker[c] = Nobody BY <1>5 DEF Works
<1>7. Uses(call, worker[c]) = {} BY <1>6 DEF Uses
<1> HIDE DEF next
<1>8. Uses(next, Nobody) = ps /\ Works(next, Nobody) BY <1>3, <1>4 DEF Uses, Works
<1>9. free' \in [Permits -> Int] /\ \A p \in Permits : free'[p] = IF p \in ps THEN free[p] - 1 ELSE free[p]
  BY <1>1, AcquiredIs
<1>10. worker' = [worker EXCEPT ![c] = Nobody] BY <1>1, <1>6 DEF AccountsTypeOK
<1>11. Nobody \in (SUBSET Permits) \cup {Nobody} OBVIOUS
<1> DEFINE A == Uses(call, worker[c])
           B == Uses(next, Nobody)
<1>12. Balanced(A, B)
  BY <1>7, <1>8, <1>9 DEF Balanced
<1> HIDE DEF A, B
<1>13. A = Uses(call, worker[c]) /\ B = Uses(next, Nobody) BY DEF A, B
<1>14. Progress(c, next) BY DEF next
<1> DEFINE its == Nobody
<1>18. /\ its \in (SUBSET Permits) \cup {Nobody} /\ worker' = [worker EXCEPT ![c] = its] /\ Works(next, its)
       /\ A = Uses(calls[c], worker[c]) /\ B = Uses(next, its)
  BY <1>8, <1>10, <1>11, <1>13
<1> HIDE DEF its
<1>15. /\ calls' \in [Calls -> CallType] /\ worker' \in [Calls -> (SUBSET Permits) \cup {Nobody}]
       /\ calls'[c] = next /\ worker'[c] = its /\ Elsewhere(c) /\ PermitsInv'
  BY <1>1, <1>4, <1>12, <1>14, <1>18, CallMoves
<1>16. ReadBefore(calls[c])' BY <1>4, <1>15, IdleNow
<1>17. attempts' \in Nat BY <1>1 DEF AccountsTypeOK
<1> QED BY <1>9, <1>15, <1>16, <1>17, QuietStep

LEMMA CheckCandidateKeeps == ASSUME AccountsInv, NEW c \in Calls, CheckCandidate(c) PROVE AccountsInv'
<1> DEFINE ps == {<<SessionLane, "requests">>, <<SessionLane, "database">>}
           at == "candidate"
<1>1. ps \in SUBSET (Lanes \X Resources) BY LanePermits
<1>2. calls[c].at \in {"candidate", "waiting"} /\ calls[c].held = {} /\ Acquired(c, ps) BY DEF CheckCandidate
<1>3. UNCHANGED <<stored, wall, keys, cookies, worker, attempts, circuits, recent, events, revoked>>
  BY DEF CheckCandidate
<1>4. Progress(c, [calls[c] EXCEPT !.held = ps]) /\ calls[c].at = at BY DEF CheckCandidate
<1>5. calls[c] \in CallType BY DEF AccountsInv, AccountsTypeOK
<1>6. [calls[c] EXCEPT !.held = ps] = [calls[c] EXCEPT !.at = at, !.held = ps] BY <1>4, <1>5 DEF CallType
<1>7. Progress(c, [calls[c] EXCEPT !.at = at, !.held = ps]) BY <1>4, <1>6
<1>8. at \in {"candidate", "begun"} OBVIOUS
<1> HIDE DEF ps, at
<1> QED BY <1>1, <1>2, <1>3, <1>7, <1>8, AcquiredKeeps

LEMMA EnterLaneKeeps == ASSUME AccountsInv, NEW c \in Calls, EnterLane(c) PROVE AccountsInv'
<1> DEFINE ps == {<<LaneOf(calls[c], "requests"), "requests">>, <<LaneOf(calls[c], "database"), "database">>}
           at == "begun"
<1>1. ps \in SUBSET (Lanes \X Resources) BY LanePermits
<1>2. calls[c].at \in {"candidate", "waiting"} /\ calls[c].at = "waiting" /\ Acquired(c, ps) BY DEF EnterLane
<1>3. UNCHANGED <<stored, wall, keys, cookies, worker, attempts, circuits, recent, events, revoked>>
  BY DEF EnterLane
<1>4. Progress(c, [calls[c] EXCEPT !.at = at, !.held = ps]) BY DEF EnterLane
<1>5. Works(calls[c], worker[c]) BY DEF AccountsInv, PermitsInv
<1>6. calls[c].held = {} BY <1>2, <1>5 DEF Works
<1>7. at \in {"candidate", "begun"} OBVIOUS
<1> HIDE DEF ps, at
<1> QED BY <1>1, <1>2, <1>3, <1>4, <1>6, <1>7, AcquiredKeeps

\* A call that ends without having written anything.
LEMMA LeavingKeeps ==
  ASSUME AccountsInv, NEW c \in Calls, calls[c].at \in {"candidate", "begun", "hashed"},
         NEW next \in CallType, Progress(c, next), next.held = {}, next.at \in {"done", "waiting"},
         free' = Returned(calls[c].held),
         UNCHANGED <<stored, wall, keys, cookies, worker, attempts, circuits, recent, events, revoked>>
  PROVE  AccountsInv'
<1>1. AccountsTypeOK /\ PermitsInv BY DEF AccountsInv
<1>2. UNCHANGED worker OBVIOUS
<1>3. /\ calls' \in [Calls -> CallType] /\ worker' \in [Calls -> (SUBSET Permits) \cup {Nobody}]
      /\ free' \in [Permits -> Int]
      /\ calls'[c] = next /\ Elsewhere(c) /\ PermitsInv'
  BY <1>1, <1>2, CallLeaves
<1>4. ReadBefore(calls[c])' BY <1>3, IdleNow
<1>5. attempts' \in Nat BY <1>1 DEF AccountsTypeOK
<1> QED BY <1>3, <1>4, <1>5, QuietStep

LEMMA DoneKeeps ==
  ASSUME AccountsInv, NEW c \in Calls, calls[c].at \in {"candidate", "begun", "hashed"},
         NEW answer \in {"busy", "rejected", "served", "authentication", "ok", "unknown"}, Leave(c, answer),
         UNCHANGED <<stored, wall, keys, cookies, worker, attempts, circuits, recent, events, revoked>>
  PROVE  AccountsInv'
<1> DEFINE next == Done(answer)
<1>1. next \in CallType /\ next.held = {} /\ next.at \in {"done", "waiting"} BY DoneType, DoneIs
<1>2. Progress(c, next) /\ free' = Returned(calls[c].held) BY DEF Leave
<1> HIDE DEF next
<1> QED BY <1>1, <1>2, LeavingKeeps

LEMMA MalformedKeeps == ASSUME AccountsInv, NEW c \in Calls, Malformed(c) PROVE AccountsInv'
<1> DEFINE answer == "rejected"
<1>1. /\ calls[c].at \in {"candidate", "begun", "hashed"} /\ Leave(c, answer)
      /\ answer \in {"busy", "rejected", "served", "authentication", "ok", "unknown"}
      /\ UNCHANGED <<stored, wall, keys, cookies, worker, attempts, circuits, recent, events, revoked>>
  BY DEF Malformed
<1> HIDE DEF answer
<1> QED BY <1>1, DoneKeeps

LEMMA RefuseHashKeeps == ASSUME AccountsInv, NEW c \in Calls, RefuseHash(c) PROVE AccountsInv'
<1> DEFINE answer == "busy"
<1>1. /\ calls[c].at \in {"candidate", "begun", "hashed"} /\ Leave(c, answer)
      /\ answer \in {"busy", "rejected", "served", "authentication", "ok", "unknown"}
      /\ UNCHANGED <<stored, wall, keys, cookies, worker, attempts, circuits, recent, events, revoked>>
  BY DEF RefuseHash
<1> HIDE DEF answer
<1> QED BY <1>1, DoneKeeps

\* What a page is read with.
LEMMA ServePageIs ==
  ASSUME AccountsTypeOK, NEW c \in Calls, ServePage(c)
  PROVE  /\ calls'[c] \in CallType /\ calls'[c].at = "done" /\ calls'[c].held = {}
         /\ Progress(c, calls'[c])
         /\ calls'[c].read = IF RouteUser(calls[c]) THEN calls[c].cookie.nonce ELSE Nobody
<1> DEFINE user == RouteUser(calls[c])
           answer == IF user \/ Anyone(calls[c].kind) THEN "served" ELSE "authentication"
           read == IF user THEN calls[c].cookie.nonce ELSE Nobody
           d == Done(answer)
           next == [d EXCEPT !.read = read]
<1>1. Progress(c, next) BY DEF ServePage
<1>2. calls[c].cookie \in Cookie \cup {Nobody} BY DEF AccountsTypeOK, CallType
<1>3. user => calls[c].cookie # Nobody BY DEF RouteUser, Authenticated, Verified
<1>4. read \in Nonces \cup {Nobody} BY <1>2, <1>3 DEF Cookie
<1>5. answer \in {"busy", "rejected", "served", "authentication", "ok", "unknown"} OBVIOUS
<1> HIDE DEF answer
<1>6. d \in CallType /\ d.at = "done" /\ d.held = {} BY <1>5, DoneType, DoneIs
<1> HIDE DEF read, d
<1>7. next \in CallType /\ next.at = "done" /\ next.held = {} /\ next.read = read BY <1>4, <1>6 DEF CallType
<1> HIDE DEF next
<1>8. calls'[c] = next BY <1>1 DEF Progress, AccountsTypeOK
<1> QED BY <1>1, <1>7, <1>8 DEF read

LEMMA ServePageKeeps == ASSUME AccountsInv, NEW c \in Calls, ServePage(c) PROVE AccountsInv'
<1> DEFINE next == calls'[c]
<1>1. next \in CallType /\ next.at \in {"done", "waiting"} /\ next.held = {} /\ Progress(c, next)
  BY ServePageIs DEF AccountsInv
<1>2. /\ calls[c].at \in {"candidate", "begun", "hashed"} /\ free' = Returned(calls[c].held)
      /\ UNCHANGED <<stored, wall, keys, cookies, worker, attempts, circuits, recent, events, revoked>>
  BY DEF ServePage
<1> HIDE DEF next
<1> QED BY <1>1, <1>2, LeavingKeeps

LEMMA CandidateCheckedKeeps == ASSUME AccountsInv, NEW c \in Calls, CandidateChecked(c) PROVE AccountsInv'
<1> DEFINE call == calls[c]
           passed == [call EXCEPT !.at = "waiting", !.held = {}, !.who = call.cookie.subject]
           failed == [call EXCEPT !.at = "waiting", !.held = {}]
           refused == Done("busy")
<1>1. AccountsTypeOK /\ PermitsInv BY DEF AccountsInv
<1>2. call \in CallType BY <1>1 DEF AccountsTypeOK
<1>3. UNCHANGED <<stored, wall, keys, cookies, worker, attempts, events, revoked>> /\ free' = Returned(call.held)
      /\ call.at \in {"candidate", "begun", "hashed"}
  BY DEF CandidateChecked
<1>4. failed \in CallType /\ failed.at = "waiting" /\ failed.held = {}
  <2> HIDE DEF call
  <2> QED BY <1>2 DEF CallType
<1>5. refused \in CallType /\ refused.at = "done" /\ refused.held = {} BY DoneType, DoneIs
<1>6. CASE Authenticated(call.cookie)
  <2>1. call.cookie.subject \in Ids BY <1>2, <1>6 DEF CallType, Authenticated, Verified, Cookie
  <2>2. passed \in CallType /\ passed.at = "waiting" /\ passed.held = {}
    <3> SUFFICES ASSUME NEW who \in Ids, NEW other \in CallType
                 PROVE  LET next == [other EXCEPT !.at = "waiting", !.held = {}, !.who = who] IN
                        next \in CallType /\ next.at = "waiting" /\ next.held = {}
      BY <1>2, <2>1
    <3> QED BY DEF CallType
  <2>3. (Progress(c, passed) \/ Progress(c, refused)) /\ UNCHANGED <<circuits, recent>> BY <1>6 DEF CandidateChecked
  <2>4. UNCHANGED <<stored, wall, keys, cookies, worker, attempts, circuits, recent, events, revoked>> BY <1>3, <2>3
  <2> HIDE DEF passed, refused
  <2>5. CASE Progress(c, passed) BY <1>3, <2>2, <2>4, <2>5, LeavingKeeps
  <2>6. CASE Progress(c, refused) BY <1>3, <1>5, <2>4, <2>6, LeavingKeeps
  <2> QED BY <2>3, <2>5, <2>6
<1>7. CASE ~Authenticated(call.cookie)
  <2>1. Progress(c, failed) /\ FailedSession(call.peer) BY <1>7 DEF CandidateChecked
  <2> HIDE DEF failed
  <2>2. UNCHANGED worker BY <1>3
  <2>3. failed.at \in {"done", "waiting"} BY <1>4
  <2>4. /\ calls' \in [Calls -> CallType] /\ worker' \in [Calls -> (SUBSET Permits) \cup {Nobody}]
        /\ free' \in [Permits -> Int]
        /\ calls'[c] = failed /\ Elsewhere(c) /\ PermitsInv'
    BY <1>1, <1>3, <1>4, <2>1, <2>2, <2>3, CallLeaves
  <2>5. call.peer \in Peers BY <1>2 DEF CallType, Peers
  <2>6. CircuitsInv BY DEF AccountsInv
  <2>7. 0 \in Nat OBVIOUS
  <2>8. /\ CircuitsInv' /\ recent' \in Seq(OfferedIn("peer"))
        /\ circuits' \in [entries : [Range(recent') -> Bucket], tick : Nat]
    BY <1>1, <2>1, <2>5, <2>6, <2>7, ChargeCircuitKeeps
  <2>9. AccountsTypeOK' BY <1>1, <1>3, <2>4, <2>8 DEF AccountsTypeOK, stored
  <2>10. ReadBefore(calls[c])' BY <1>4, <2>4, IdleNow
  <2>11. SessionsInv' BY <1>3, <2>4, <2>10, SessionsSame DEF AccountsInv, stored
  <2>12. RegistrationsInvited' BY <1>3, RegistrationsSame DEF AccountsInv, stored
  <2> QED BY <2>4, <2>8, <2>9, <2>11, <2>12 DEF AccountsInv
<1> QED BY <1>6, <1>7

\* The password work begins: its worker keeps what the call holds.
LEMMA SpawnHashKeeps == ASSUME AccountsInv, NEW c \in Calls, SpawnHash(c) PROVE AccountsInv'
<1> DEFINE call == calls[c]
           found == Credentials(call.name)
           chosen == CHOOSE i \in found : TRUE
           read == IF found = {} THEN Nobody ELSE <<chosen, accounts[chosen].epoch>>
           next == [call EXCEPT !.at = "hashing", !.read = read]
           its == call.held \cup {Hash}
<1>1. AccountsTypeOK /\ PermitsInv BY DEF AccountsInv
<1>2. call \in CallType /\ call.held \in SUBSET Permits BY <1>1 DEF AccountsTypeOK, CallType
<1>3. Progress(c, next) /\ call.at = "begun" BY DEF SpawnHash
<1>4. /\ UNCHANGED <<stored, wall, keys, cookies, circuits, recent, events, revoked>>
      /\ attempts' = attempts - 1 /\ attempts > 0
      /\ free' = [free EXCEPT ![Hash] = free[Hash] - 1] /\ worker' = [worker EXCEPT ![c] = its]
  BY DEF SpawnHash, Hash
<1>5. found # {} => chosen \in Ids /\ accounts[chosen].epoch \in Nat
  <2>1. found \subseteq Ids BY DEF Credentials
  <2>2. found # {} => chosen \in found OBVIOUS
  <2> QED BY <1>1, <2>1, <2>2 DEF AccountsTypeOK, AccountRow
<1>6. /\ read \in (Ids \X Nat) \cup {Nobody}
      /\ read # Nobody => read \in Ids \X Nat /\ read[2] <= accounts[read[1]].epoch
  <2>1. CASE found = {} BY <2>1
  <2>2. CASE found # {}
    <3> DEFINE epoch == accounts[chosen].epoch
    <3>1. chosen \in Ids /\ epoch \in Nat BY <1>5, <2>2
    <3>2. read = <<chosen, epoch>> BY <2>2
    <3>3. epoch <= accounts[chosen].epoch BY <3>1
    <3> HIDE DEF chosen, epoch, read, found
    <3>4. read \in Ids \X Nat /\ read[1] = chosen /\ read[2] = epoch BY <3>1, <3>2
    <3> QED BY <3>3, <3>4
  <2> QED BY <2>1, <2>2
<1> HIDE DEF read
<1>7. next \in CallType /\ next.at = "hashing" /\ next.held = call.held /\ next.read = read
  <2> HIDE DEF call
  <2> QED BY <1>2, <1>6 DEF CallType
<1>8. Works(call, worker[c]) BY <1>1 DEF PermitsInv
<1>9. worker[c] = Nobody /\ Hash \notin call.held BY <1>3, <1>8 DEF Works
<1>10. its \in (SUBSET Permits) \cup {Nobody} /\ its # Nobody BY <1>2, HashApart, PermitsAssumption
<1> DEFINE A == Uses(call, worker[c])
           B == Uses(next, its)
<1>11. A = call.held /\ B = call.held \cup {Hash} BY <1>7, <1>9, <1>10 DEF Uses
<1>12. Works(next, its) BY <1>7, <1>9 DEF Works
<1>13. free' \in [Permits -> Int] /\ \A p \in Permits : free'[p] = IF p = Hash THEN free[p] - 1 ELSE free[p]
  BY <1>1, <1>4, HashApart DEF AccountsTypeOK
<1>14. Balanced(A, B) BY <1>9, <1>11, <1>13 DEF Balanced
<1>15. A = Uses(calls[c], worker[c]) /\ B = Uses(next, its) OBVIOUS
<1>16. worker' = [worker EXCEPT ![c] = its] BY <1>4
<1> HIDE DEF A, B, next, its
<1>17. /\ calls' \in [Calls -> CallType] /\ worker' \in [Calls -> (SUBSET Permits) \cup {Nobody}]
       /\ calls'[c] = next /\ worker'[c] = its /\ Elsewhere(c) /\ PermitsInv'
  BY <1>1, <1>3, <1>7, <1>10, <1>12, <1>14, <1>15, <1>16, CallMoves
<1>18. ReadBefore(calls[c])'
  <2>1. accounts' = accounts BY <1>4 DEF stored
  <2> QED BY <1>6, <1>7, <1>17, <2>1 DEF ReadBefore
<1>19. attempts' \in Nat BY <1>1, <1>4 DEF AccountsTypeOK
<1> QED BY <1>4, <1>13, <1>17, <1>18, <1>19, QuietStep

\* It ends, and returns what nobody else uses.
LEMMA HashEndsKeeps == ASSUME AccountsInv, NEW c \in Calls, HashEnds(c) PROVE AccountsInv'
<1> DEFINE call == calls[c]
           gone == IF call.at = "hashing" THEN {Hash} ELSE worker[c]
           next == IF call.at = "hashing" THEN [call EXCEPT !.at = "hashed"] ELSE call
           its == Nobody
<1>1. AccountsTypeOK /\ PermitsInv /\ SessionsInv BY DEF AccountsInv
<1>2. call \in CallType /\ call.held \in SUBSET Permits /\ worker[c] \in (SUBSET Permits) \cup {Nobody}
  BY <1>1 DEF AccountsTypeOK, CallType
<1>3. /\ UNCHANGED <<stored, wall, keys, cookies, attempts, circuits, recent, events, revoked>>
      /\ worker[c] # Nobody /\ worker' = [worker EXCEPT ![c] = its] /\ free' = Returned(gone)
  BY DEF HashEnds, Hash
<1>4. Progress(c, next)
  <2>1. CASE call.at = "hashing" BY <2>1 DEF HashEnds
  <2>2. CASE call.at # "hashing"
    <3>1. calls' = calls BY <2>2 DEF HashEnds
    <3> QED BY <1>1, <2>2, <3>1 DEF Progress, AccountsTypeOK
  <2> QED BY <2>1, <2>2
<1>5. /\ next \in CallType /\ next.held = call.held /\ next.read = call.read
      /\ next.at = IF call.at = "hashing" THEN "hashed" ELSE call.at
  <2> HIDE DEF call
  <2>1. CASE call.at = "hashing" BY <1>2, <2>1 DEF CallType
  <2>2. CASE call.at # "hashing" BY <1>2, <2>2
  <2> QED BY <2>1, <2>2
<1> HIDE DEF next
<1>6. Works(call, worker[c]) BY <1>1 DEF PermitsInv
<1>7. call.at \in {"idle", "done", "hashing"} BY <1>3, <1>6 DEF Works
<1>8. Works(next, its) BY <1>5, <1>6, <1>7 DEF Works
<1> DEFINE A == Uses(call, worker[c])
           B == Uses(next, its)
<1>9. A = (call.held \cup gone) /\ B = call.held /\ gone \cap call.held = {}
  <2>1. A = call.held \cup worker[c] /\ B = call.held BY <1>3, <1>5 DEF Uses
  <2>2. CASE call.at = "hashing" BY <1>6, <2>1, <2>2 DEF Works
  <2>3. CASE call.at # "hashing" BY <1>6, <1>7, <2>1, <2>3 DEF Works
  <2> QED BY <2>2, <2>3
<1> HIDE DEF gone
<1>10. free' \in [Permits -> Int] /\ \A p \in Permits : free'[p] = IF p \in gone THEN free[p] + 1 ELSE free[p]
  BY <1>1, <1>3, ReturnedIs
<1>11. Balanced(A, B) BY <1>9, <1>10 DEF Balanced
<1>12. A = Uses(calls[c], worker[c]) /\ B = Uses(next, its) OBVIOUS
<1>13. its \in (SUBSET Permits) \cup {Nobody} /\ worker' = [worker EXCEPT ![c] = its] BY <1>3
<1> HIDE DEF A, B, its
<1>14. /\ calls' \in [Calls -> CallType] /\ worker' \in [Calls -> (SUBSET Permits) \cup {Nobody}]
       /\ calls'[c] = next /\ worker'[c] = its /\ Elsewhere(c) /\ PermitsInv'
  BY <1>1, <1>4, <1>5, <1>8, <1>11, <1>12, <1>13, CallMoves
<1>15. ReadBefore(calls[c])'
  <2>1. accounts' = accounts BY <1>3 DEF stored
  <2>2. ReadBefore(call) BY <1>1 DEF SessionsInv
  <2> QED BY <1>5, <1>7, <1>14, <2>1, <2>2 DEF ReadBefore
<1>16. attempts' \in Nat BY <1>1, <1>3 DEF AccountsTypeOK
<1> QED BY <1>3, <1>10, <1>14, <1>15, <1>16, QuietStep

\* The deadline takes from a call what its worker does not keep.
LEMMA DeadlineKeeps == ASSUME AccountsInv, NEW c \in Calls, Deadline(c) PROVE AccountsInv'
<1> DEFINE call == calls[c]
           next == Done("busy")
           its == worker[c]
           gone == ReleasedAtDeadline(c)
<1>1. AccountsTypeOK /\ PermitsInv BY DEF AccountsInv
<1>2. call \in CallType /\ call.held \in SUBSET Permits /\ its \in (SUBSET Permits) \cup {Nobody}
  BY <1>1 DEF AccountsTypeOK, CallType
<1>3. /\ UNCHANGED <<stored, wall, keys, cookies, worker, attempts, circuits, recent, events, revoked>>
      /\ call.at \notin {"idle", "done"} /\ Progress(c, next) /\ free' = Returned(gone)
  BY DEF Deadline
<1>4. next \in CallType /\ next.at = "done" /\ next.held = {} BY DoneType, DoneIs
<1> HIDE DEF next
<1>5. Works(call, its) BY <1>1 DEF PermitsInv
<1>6. Works(next, its) BY <1>4 DEF Works
<1>7. worker' = [worker EXCEPT ![c] = its] BY <1>1, <1>3 DEF AccountsTypeOK
<1> DEFINE A == Uses(call, its)
           B == Uses(next, its)
<1>8. A = B \cup gone /\ B \cap gone = {}
  <2>1. CASE its = Nobody BY <1>4, <2>1 DEF Uses, ReleasedAtDeadline
  <2>2. CASE its # Nobody
    <3>1. call.at = "hashing" /\ its = call.held \cup {Hash} BY <1>3, <1>5, <2>2 DEF Works
    <3>2. gone = {} /\ B = its /\ A = call.held \cup its BY <1>4, <2>2 DEF Uses, ReleasedAtDeadline
    <3> QED BY <3>1, <3>2
  <2> QED BY <2>1, <2>2
<1> HIDE DEF gone
<1>9. free' \in [Permits -> Int] /\ \A p \in Permits : free'[p] = IF p \in gone THEN free[p] + 1 ELSE free[p]
  BY <1>1, <1>3, ReturnedIs
<1>10. Balanced(A, B) BY <1>8, <1>9 DEF Balanced
<1>11. A = Uses(calls[c], worker[c]) /\ B = Uses(next, its) OBVIOUS
<1> HIDE DEF A, B, its
<1>12. /\ calls' \in [Calls -> CallType] /\ worker' \in [Calls -> (SUBSET Permits) \cup {Nobody}]
       /\ calls'[c] = next /\ worker'[c] = its /\ Elsewhere(c) /\ PermitsInv'
  BY <1>1, <1>2, <1>3, <1>4, <1>6, <1>7, <1>10, <1>11, CallMoves
<1>13. ReadBefore(calls[c])' BY <1>4, <1>12, IdleNow
<1>14. attempts' \in Nat BY <1>1, <1>3 DEF AccountsTypeOK
<1> QED BY <1>3, <1>9, <1>12, <1>13, <1>14, QuietStep

-----------------------------------------------------------------------------
(* Steps that write.                                                       *)

\* Epochs only grow.
LEMMA EpochType == ASSUME AccountsTypeOK PROVE \A id \in Ids : accounts[id].epoch \in Nat
  BY DEF AccountsTypeOK, AccountRow

LEMMA RowType ==
  ASSUME AccountsTypeOK, NEW n \in Nonces, sessions[n] # Nobody
  PROVE  sessions[n] \in SessionRow /\ sessions[n].principal \in Ids /\ sessions[n].epoch \in Nat
<1>1. sessions[n] \in SessionRow BY DEF AccountsTypeOK
<1> QED BY <1>1 DEF SessionRow

Grow == \A id \in Ids : accounts'[id].epoch \in Nat /\ accounts[id].epoch <= accounts'[id].epoch

LEMMA ReadStays ==
  ASSUME AccountsTypeOK, SessionsInv, Grow, NEW c \in Calls,
         calls'[c] = calls[c] \/ calls'[c].at \notin {"hashing", "hashed"}
  PROVE  ReadBefore(calls[c])'
<1>1. CASE calls'[c].at \notin {"hashing", "hashed"} BY <1>1, IdleNow
<1>2. CASE calls'[c] = calls[c] /\ calls[c].at \in {"hashing", "hashed"} /\ calls[c].read # Nobody
  <2>1. calls[c].read \in Ids \X Nat /\ calls[c].read[2] <= accounts[calls[c].read[1]].epoch
    BY <1>2 DEF SessionsInv, ReadBefore
  <2> DEFINE id == calls[c].read[1]
             e == calls[c].read[2]
  <2>2. id \in Ids /\ e \in Nat /\ e <= accounts[id].epoch BY <2>1
  <2>3. accounts[id].epoch \in Nat /\ accounts'[id].epoch \in Nat /\ accounts[id].epoch <= accounts'[id].epoch
    BY <2>2, EpochType DEF Grow
  <2>4. e <= accounts'[id].epoch
    <3> HIDE DEF id, e
    <3> QED BY <2>2, <2>3
  <2> QED BY <1>2, <2>1, <2>4 DEF ReadBefore
<1> QED BY <1>1, <1>2 DEF ReadBefore

LEMMA OutdatedStays ==
  ASSUME AccountsTypeOK, Grow, NEW n \in Nonces, Outdated(n), sessions'[n] = sessions[n] \/ sessions'[n] = Nobody
  PROVE  Outdated(n)'
<1>1. SUFFICES ASSUME sessions'[n] = sessions[n], sessions[n] # Nobody PROVE Outdated(n)' BY DEF Outdated
<1> DEFINE id == sessions[n].principal
           e == sessions[n].epoch
<1>2. id \in Ids /\ e \in Nat /\ e < accounts[id].epoch BY <1>1, RowType DEF Outdated
<1>3. accounts[id].epoch \in Nat /\ accounts'[id].epoch \in Nat /\ accounts[id].epoch <= accounts'[id].epoch
  BY <1>2, EpochType DEF Grow
<1>4. e < accounts'[id].epoch
  <2> HIDE DEF id, e
  <2> QED BY <1>2, <1>3
<1> QED BY <1>1, <1>4 DEF Outdated

LEMMA GrowSelf == ASSUME AccountsTypeOK, accounts' = accounts PROVE Grow
  BY EpochType DEF Grow

\* A session ends with its cookie.
LEMMA LogoutKeeps == ASSUME AccountsInv, NEW c \in Calls, Logout(c) PROVE AccountsInv'
<1> DEFINE call == calls[c]
           nonce == call.cookie.nonce
<1>1. AccountsTypeOK /\ PermitsInv /\ SessionsInv BY DEF AccountsInv
<1>2. CASE ~SignedIn(call)
  <2> DEFINE answer == "authentication"
  <2>1. /\ calls[c].at \in {"candidate", "begun", "hashed"} /\ Leave(c, answer)
        /\ answer \in {"busy", "rejected", "served", "authentication", "ok", "unknown"}
        /\ UNCHANGED <<stored, wall, keys, cookies, worker, attempts, circuits, recent, events, revoked>>
    BY <1>2 DEF Logout, stored
  <2> HIDE DEF answer
  <2> QED BY <2>1, DoneKeeps
<1>3. CASE SignedIn(call)
  <2>1. /\ calls[c].at \in {"candidate", "begun", "hashed"} /\ Leave(c, "ok")
        /\ sessions' = [sessions EXCEPT ![nonce] = Nobody] /\ revoked' = revoked \cup {nonce}
        /\ UNCHANGED <<accounts, roles, invites, wall, keys, cookies, worker, attempts, circuits, recent, events>>
    BY <1>3 DEF Logout
  <2> DEFINE next == Done("ok")
  <2>2. next \in CallType /\ next.held = {} /\ next.at = "done" /\ next.at \in {"done", "waiting"} BY DoneType, DoneIs
  <2>3. Progress(c, next) /\ free' = Returned(calls[c].held) /\ UNCHANGED worker BY <2>1 DEF Leave
  <2> HIDE DEF next
  <2>4. /\ calls' \in [Calls -> CallType] /\ worker' \in [Calls -> (SUBSET Permits) \cup {Nobody}]
        /\ free' \in [Permits -> Int]
        /\ calls'[c] = next /\ Elsewhere(c) /\ PermitsInv'
    BY <1>1, <2>1, <2>2, <2>3, CallLeaves
  <2>5. nonce \in Nonces
    <3>1. call.cookie \in Cookie \cup {Nobody} BY <1>1 DEF AccountsTypeOK, CallType
    <3> QED BY <1>3, <3>1 DEF SignedIn, Cookie
  <2> HIDE DEF nonce
  <2>6. /\ sessions' \in [Nonces -> SessionRow \cup {Nobody}] /\ sessions'[nonce] = Nobody
        /\ \A n \in Nonces : sessions'[n] = sessions[n] \/ sessions'[n] = Nobody
    BY <1>1, <2>1, <2>5 DEF AccountsTypeOK
  <2>7. AccountsTypeOK' BY <1>1, <2>1, <2>4, <2>5, <2>6 DEF AccountsTypeOK
  <2>8. SessionsInv'
    <3>1. Grow BY <1>1, <2>1, GrowSelf
    <3>2. ASSUME NEW n \in revoked' PROVE Outdated(n)'
      <4>1. CASE n = nonce BY <2>6, <4>1 DEF Outdated
      <4>2. CASE n \in revoked
        <5>1. n \in Nonces /\ Outdated(n) BY <1>1, <4>2 DEF AccountsTypeOK, SessionsInv
        <5> QED BY <1>1, <2>6, <3>1, <5>1, OutdatedStays
      <4> QED BY <2>1, <4>1, <4>2
    <3>3. ASSUME NEW k \in cookies, sessions'[k.nonce] # Nobody PROVE sessions'[k.nonce].principal = k.subject
      <4>1. k.nonce \in Nonces BY <1>1 DEF AccountsTypeOK, Cookie
      <4>2. sessions'[k.nonce] = sessions[k.nonce] BY <2>6, <3>3, <4>1
      <4> QED BY <1>1, <3>3, <4>2 DEF SessionsInv
    <3>4. \A d \in Calls : ReadBefore(calls[d])'
      <4>1. \A d \in Calls : calls'[d] = calls[d] \/ calls'[d].at \notin {"hashing", "hashed"}
        BY <2>2, <2>4 DEF Elsewhere
      <4> QED BY <1>1, <3>1, <4>1, ReadStays
    <3> QED BY <1>1, <2>1, <3>2, <3>3, <3>4 DEF SessionsInv
  <2>9. RegistrationsInvited' BY <2>1, RegistrationsSame DEF AccountsInv
  <2>10. CircuitsInv' BY <2>1, CircuitsSame DEF AccountsInv
  <2> QED BY <2>4, <2>7, <2>8, <2>9, <2>10 DEF AccountsInv
<1> QED BY <1>2, <1>3

\* A login writes a session bound to what its password was checked against.
LEMMA LoginEndsKeeps == ASSUME AccountsInv, NEW c \in Calls, LoginEnds(c) PROVE AccountsInv'
<1> DEFINE call == calls[c]
           read == call.read
           nonce == FreshNonce
           row == Session(read)
           sealed == Sealed(nonce, read[1])
<1>1. AccountsTypeOK /\ PermitsInv /\ SessionsInv BY DEF AccountsInv
<1>2. CASE ~(call.right /\ read # Nobody)
  <2> DEFINE answer == "authentication"
  <2>1. /\ calls[c].at \in {"candidate", "begun", "hashed"} /\ Leave(c, answer)
        /\ answer \in {"busy", "rejected", "served", "authentication", "ok", "unknown"}
        /\ UNCHANGED <<stored, wall, keys, cookies, worker, attempts, circuits, recent, events, revoked>>
    BY <1>2 DEF LoginEnds, stored
  <2> HIDE DEF answer
  <2> QED BY <2>1, DoneKeeps
<1>3. CASE call.right /\ read # Nobody
  <2>1. /\ calls[c].at = "hashed" /\ UsedNonces # Nonces
        /\ sessions' = [sessions EXCEPT ![nonce] = row]
        /\ revoked' = IF accounts[read[1]].epoch # read[2] THEN revoked \cup {nonce} ELSE revoked
        /\ UNCHANGED <<accounts, roles, invites, wall, keys, worker, attempts, circuits, recent, events>>
    BY <1>3 DEF LoginEnds
  <2>2. \/ cookies' = cookies \cup {sealed} /\ Leave(c, "ok")
        \/ cookies' = cookies /\ Leave(c, "unknown")
    BY <1>3 DEF LoginEnds
  <2>3. PICK answer \in {"ok", "unknown"} : Leave(c, answer) BY <2>2
  <2> DEFINE next == Done(answer)
  <2>4. next \in CallType /\ next.held = {} /\ next.at = "done" /\ next.at \in {"done", "waiting"} BY DoneType, DoneIs
  <2>5. Progress(c, next) /\ free' = Returned(calls[c].held) /\ UNCHANGED worker BY <2>1, <2>3 DEF Leave
  <2> HIDE DEF next
  <2>6. /\ calls' \in [Calls -> CallType] /\ worker' \in [Calls -> (SUBSET Permits) \cup {Nobody}]
        /\ free' \in [Permits -> Int]
        /\ calls'[c] = next /\ Elsewhere(c) /\ PermitsInv'
    BY <1>1, <2>1, <2>4, <2>5, CallLeaves
  <2>7. read \in Ids \X Nat /\ read[2] <= accounts[read[1]].epoch /\ read[1] \in Ids /\ read[2] \in Nat
    BY <1>1, <1>3, <2>1 DEF SessionsInv, ReadBefore
  <2>8. /\ nonce \in Nonces /\ nonce \notin revoked
        /\ \A k \in cookies : k.nonce # nonce
    BY <1>1, <2>1, FreshNonceIs
  <2> HIDE DEF nonce, read
  <2>9. wall + SESSION_TTL \in Nat /\ wall \in Nat
    <3>1. wall \in Nat BY <1>1 DEF AccountsTypeOK
    <3>2. SESSION_TTL \in Nat BY AccountsAssumption
    <3> QED BY <3>1, <3>2
  <2>10. row \in SessionRow /\ row.principal = read[1] /\ row.epoch = read[2]
    BY <2>7, <2>9 DEF Session, BoundEpoch, SessionRow
  <2>11. sealed \in Cookie /\ sealed.nonce = nonce /\ sealed.subject = read[1]
    <3>1. keys.incarnation \in Nat BY <1>1 DEF AccountsTypeOK
    <3> QED BY <2>7, <2>8, <2>9, <3>1 DEF Sealed, Cookie
  <2> HIDE DEF row, sealed
  <2>12. /\ sessions' \in [Nonces -> SessionRow \cup {Nobody}] /\ sessions'[nonce] = row
         /\ \A n \in Nonces : n # nonce => sessions'[n] = sessions[n]
    BY <1>1, <2>1, <2>8, <2>10 DEF AccountsTypeOK
  <2>13. AccountsTypeOK'
    <3>1. cookies' \in SUBSET Cookie BY <1>1, <2>2, <2>11 DEF AccountsTypeOK
    <3>2. revoked' \in SUBSET Nonces BY <1>1, <2>1, <2>8 DEF AccountsTypeOK
    <3> QED BY <1>1, <2>1, <2>6, <2>12, <3>1, <3>2 DEF AccountsTypeOK
  <2>14. SessionsInv'
    <3>1. Grow BY <1>1, <2>1, GrowSelf
    <3>2. ASSUME NEW n \in revoked' PROVE Outdated(n)'
      <4>1. CASE n = nonce
        <5>1. accounts[read[1]].epoch # read[2] BY <2>1, <2>8, <4>1
        <5>2. accounts[read[1]].epoch \in Nat BY <1>1, <2>7, EpochType
        <5>3. read[2] < accounts[read[1]].epoch BY <2>7, <5>1, <5>2
        <5> QED BY <2>1, <2>10, <2>12, <4>1, <5>3 DEF Outdated
      <4>2. CASE n # nonce
        <5>1. n \in revoked /\ n \in Nonces BY <1>1, <2>1, <4>2 DEF AccountsTypeOK
        <5>2. Outdated(n) /\ sessions'[n] = sessions[n] BY <1>1, <2>12, <4>2, <5>1 DEF SessionsInv
        <5> QED BY <1>1, <3>1, <5>1, <5>2, OutdatedStays
      <4> QED BY <4>1, <4>2
    <3>3. ASSUME NEW k \in cookies', sessions'[k.nonce] # Nobody PROVE sessions'[k.nonce].principal = k.subject
      <4>1. CASE k = sealed BY <2>10, <2>11, <2>12, <4>1
      <4>2. CASE k \in cookies
        <5>1. k.nonce \in Nonces /\ k.nonce # nonce BY <1>1, <2>8, <4>2 DEF AccountsTypeOK, Cookie
        <5>2. sessions'[k.nonce] = sessions[k.nonce] BY <2>12, <5>1
        <5> QED BY <1>1, <3>3, <4>2, <5>2 DEF SessionsInv
      <4> QED BY <2>2, <4>1, <4>2
    <3>4. \A d \in Calls : ReadBefore(calls[d])'
      <4>1. \A d \in Calls : calls'[d] = calls[d] \/ calls'[d].at \notin {"hashing", "hashed"}
        BY <2>4, <2>6 DEF Elsewhere
      <4> QED BY <1>1, <3>1, <4>1, ReadStays
    <3> QED BY <1>1, <2>1, <3>2, <3>3, <3>4 DEF SessionsInv
  <2>15. RegistrationsInvited' BY <2>1, RegistrationsSame DEF AccountsInv
  <2>16. CircuitsInv' BY <2>1, CircuitsSame DEF AccountsInv
  <2> QED BY <2>6, <2>13, <2>14, <2>15, <2>16 DEF AccountsInv
<1> QED BY <1>2, <1>3

LEMMA GrowsAt ==
  ASSUME AccountsTypeOK, NEW id \in Ids, accounts[id].epoch = 0, accounts'[id].epoch = 1,
         \A i \in Ids : i # id => accounts'[i] = accounts[i]
  PROVE  Grow
<1> SUFFICES ASSUME NEW i \in Ids PROVE accounts'[i].epoch \in Nat /\ accounts[i].epoch <= accounts'[i].epoch
  BY DEF Grow
<1>1. accounts[i].epoch \in Nat BY EpochType
<1>2. CASE i = id BY <1>2
<1>3. CASE i # id BY <1>1, <1>3
<1> QED BY <1>2, <1>3

\* A new account, whoever creates it: no session was bound to it, and no epoch falls.
LEMMA CreatedIs ==
  ASSUME AccountsTypeOK, SessionsInv, \E i \in Ids : accounts[i].state = "unborn",
         NEW name \in LoginNames, NEW tenant \in {"", "team"},
         accounts' = [accounts EXCEPT ![FreshId] = FreshAccount(name, tenant)]
  PROVE  /\ accounts' \in [Ids -> AccountRow] /\ Grow /\ FreshId \in Ids /\ accounts[FreshId].state = "unborn"
         /\ accounts'[FreshId].state = "active" /\ accounts'[FreshId].tenant = tenant
         /\ \A id \in Ids : id # FreshId => accounts'[id] = accounts[id]
         /\ \A id \in Ids : accounts'[id].state = "unborn" => accounts'[id].epoch = 0
<1> DEFINE id == FreshId
           row == FreshAccount(name, tenant)
<1>1. id \in Ids /\ accounts[id].state = "unborn" BY FreshIdIs
<1>2. accounts[id].epoch = 0 BY <1>1 DEF SessionsInv
<1>3. row \in AccountRow /\ row.state = "active" /\ row.tenant = tenant /\ row.epoch = 1 BY DEF FreshAccount, AccountRow
<1> HIDE DEF id, row
<1>4. accounts' = [accounts EXCEPT ![id] = row] BY DEF id, row
<1>5. /\ accounts' \in [Ids -> AccountRow] /\ accounts'[id] = row
      /\ \A i \in Ids : i # id => accounts'[i] = accounts[i]
  <2>1. accounts \in [Ids -> AccountRow] BY DEF AccountsTypeOK
  <2> QED BY <1>1, <1>3, <1>4, <2>1
<1>6. Grow
  <2>1. accounts'[id].epoch = 1 BY <1>3, <1>5
  <2>2. id \in Ids /\ accounts[id].epoch = 0 BY <1>1, <1>2 DEF id
  <2> QED BY <1>5, <2>1, <2>2, GrowsAt
<1>7. \A i \in Ids : accounts'[i].state = "unborn" => accounts'[i].epoch = 0 BY <1>3, <1>5 DEF SessionsInv
<1> QED BY <1>1, <1>3, <1>5, <1>6, <1>7 DEF id

\* What else an account that grows leaves of the sessions.
LEMMA SessionsGrow ==
  ASSUME AccountsTypeOK, SessionsInv, Grow, UNCHANGED <<sessions, cookies, revoked>>,
         \A d \in Calls : calls'[d] = calls[d] \/ calls'[d].at \notin {"hashing", "hashed"},
         \A id \in Ids : accounts'[id].state = "unborn" => accounts'[id].epoch = 0
  PROVE  SessionsInv'
<1>1. \A n \in revoked : Outdated(n)'
  <2> SUFFICES ASSUME NEW n \in revoked PROVE Outdated(n)' OBVIOUS
  <2>1. n \in Nonces /\ Outdated(n) /\ sessions'[n] = sessions[n] BY DEF AccountsTypeOK, SessionsInv
  <2> QED BY <2>1, OutdatedStays
<1>2. \A d \in Calls : ReadBefore(calls[d])' BY ReadStays
<1> QED BY <1>1, <1>2 DEF SessionsInv

LEMMA CreateAccountKeeps == ASSUME AccountsInv, NEW name \in Logins, CreateAccount(name) PROVE AccountsInv'
<1> DEFINE tenant == "team"
<1>1. AccountsTypeOK /\ SessionsInv /\ RegistrationsInvited BY DEF AccountsInv
<1>2. /\ \E i \in Ids : accounts[i].state = "unborn"
      /\ accounts' = [accounts EXCEPT ![FreshId] = FreshAccount(name, tenant)]
      /\ UNCHANGED <<sessions, roles, invites, wall, keys, cookies, calls, gateway, revoked>>
  BY DEF CreateAccount
<1>3. name \in LoginNames /\ tenant \in {"", "team"} BY DEF LoginNames
<1>4. tenant # "" OBVIOUS
<1> HIDE DEF tenant
<1>5. /\ accounts' \in [Ids -> AccountRow] /\ Grow /\ FreshId \in Ids /\ accounts[FreshId].state = "unborn"
      /\ accounts'[FreshId].state = "active" /\ accounts'[FreshId].tenant = tenant
      /\ \A id \in Ids : id # FreshId => accounts'[id] = accounts[id]
      /\ \A id \in Ids : accounts'[id].state = "unborn" => accounts'[id].epoch = 0
  BY <1>1, <1>2, <1>3, CreatedIs
<1>6. AccountsTypeOK' BY <1>1, <1>2, <1>5 DEF AccountsTypeOK, gateway
<1>7. SessionsInv'
  <2>1. \A d \in Calls : calls'[d] = calls[d] \/ calls'[d].at \notin {"hashing", "hashed"} BY <1>2
  <2> QED BY <1>1, <1>2, <1>5, <2>1, SessionsGrow
<1>8. RegistrationsInvited'
  <2> HIDE DEF FreshId
  <2> QED BY <1>1, <1>2, <1>4, <1>5 DEF RegistrationsInvited
<1>9. PermitsInv' BY <1>2, PermitsSame DEF AccountsInv, gateway
<1>10. CircuitsInv' BY <1>2, CircuitsSame DEF AccountsInv, gateway
<1> QED BY <1>6, <1>7, <1>8, <1>9, <1>10 DEF AccountsInv

LEMMA RegisterEndsKeeps == ASSUME AccountsInv, NEW c \in Calls, RegisterEnds(c) PROVE AccountsInv'
<1> DEFINE call == calls[c]
           id == FreshId
<1>1. AccountsTypeOK /\ PermitsInv /\ SessionsInv /\ RegistrationsInvited BY DEF AccountsInv
<1>2. CASE ~Registers(call)
  <2> DEFINE answer == "rejected"
  <2>1. /\ calls[c].at \in {"candidate", "begun", "hashed"} /\ Leave(c, answer)
        /\ answer \in {"busy", "rejected", "served", "authentication", "ok", "unknown"}
        /\ UNCHANGED <<stored, wall, keys, cookies, worker, attempts, circuits, recent, events, revoked>>
    BY <1>2 DEF RegisterEnds, stored
  <2> HIDE DEF answer
  <2> QED BY <2>1, DoneKeeps
<1>3. CASE Registers(call)
  <2> DEFINE name == call.name
             tenant == ""
             code == call.code
  <2>1. /\ calls[c].at = "hashed" /\ \E i \in Ids : accounts[i].state = "unborn"
        /\ accounts' = [accounts EXCEPT ![FreshId] = FreshAccount(name, tenant)]
        /\ invites' = IF REGISTRATION = "Invite" THEN [invites EXCEPT ![code].by = id] ELSE invites
        /\ UNCHANGED <<sessions, roles, wall, keys, cookies, worker, attempts, circuits, recent, events, revoked>>
    BY <1>3 DEF RegisterEnds
  <2>2. PICK answer \in {"ok", "unknown"} : Leave(c, answer) BY <1>3 DEF RegisterEnds
  <2> DEFINE next == Done(answer)
  <2>3. next \in CallType /\ next.held = {} /\ next.at = "done" /\ next.at \in {"done", "waiting"} BY DoneType, DoneIs
  <2>4. Progress(c, next) /\ free' = Returned(calls[c].held) /\ UNCHANGED worker BY <2>1, <2>2 DEF Leave
  <2> HIDE DEF next
  <2>5. /\ calls' \in [Calls -> CallType] /\ worker' \in [Calls -> (SUBSET Permits) \cup {Nobody}]
        /\ free' \in [Permits -> Int]
        /\ calls'[c] = next /\ Elsewhere(c) /\ PermitsInv'
    BY <1>1, <2>1, <2>3, <2>4, CallLeaves
  <2>6. name \in LoginNames /\ tenant \in {"", "team"} /\ code \in Codes \cup {Nobody}
    BY <1>1 DEF AccountsTypeOK, CallType, LoginNames, OfferedIn
  <2>7. REGISTRATION = "Invite" => /\ code \in Codes /\ invites[code] \in Invitation /\ invites[code].by = Nobody
    BY <1>1, <1>3, <2>6 DEF Registers, Redeemable, AccountsTypeOK
  <2> HIDE DEF name, tenant, code
  <2>8. /\ accounts' \in [Ids -> AccountRow] /\ Grow /\ FreshId \in Ids /\ accounts[FreshId].state = "unborn"
        /\ accounts'[FreshId].state = "active" /\ accounts'[FreshId].tenant = tenant
        /\ \A i \in Ids : i # FreshId => accounts'[i] = accounts[i]
        /\ \A i \in Ids : accounts'[i].state = "unborn" => accounts'[i].epoch = 0
    BY <1>1, <2>1, <2>6, CreatedIs
  <2> HIDE DEF id
  <2>9. id \in Ids /\ id = FreshId BY <2>8 DEF id
  <2>10. /\ invites' \in [Codes -> Invitation \cup {Nobody}]
         /\ REGISTRATION = "Invite" => /\ invites'[code] # Nobody /\ invites'[code].by = id
                                       /\ \A k \in Codes : k # code => invites'[k] = invites[k]
    <3>1. CASE REGISTRATION = "Invite"
      <4> DEFINE old == invites[code]
                 new == [old EXCEPT !.by = id]
      <4>1. old \in Invitation /\ code \in Codes BY <2>7, <3>1
      <4>2. invites' = [invites EXCEPT ![code] = new] BY <2>1, <3>1
      <4> HIDE DEF old
      <4>3. new \in Invitation /\ new.by = id BY <2>9, <4>1 DEF Invitation
      <4> HIDE DEF new
      <4>4. new # Nobody BY <4>3, AccountsAssumption DEF Invitation
      <4> QED BY <1>1, <4>1, <4>2, <4>3, <4>4 DEF AccountsTypeOK
    <3>2. CASE REGISTRATION # "Invite" BY <1>1, <2>1, <3>2 DEF AccountsTypeOK
    <3> QED BY <3>1, <3>2
  <2>11. AccountsTypeOK' BY <1>1, <2>1, <2>5, <2>8, <2>10 DEF AccountsTypeOK
  <2>12. SessionsInv'
    <3>1. \A d \in Calls : calls'[d] = calls[d] \/ calls'[d].at \notin {"hashing", "hashed"}
      BY <2>3, <2>5 DEF Elsewhere
    <3> QED BY <1>1, <2>1, <2>8, <3>1, SessionsGrow
  <2>13. RegistrationsInvited'
    <3>1. ASSUME REGISTRATION = "Invite", NEW i \in Ids, accounts'[i].state # "unborn", accounts'[i].tenant = "",
                 accounts'[i].state # "deleted"
          PROVE  \E k \in Codes : invites'[k] # Nobody /\ invites'[k].by = i
      <4>1. CASE i = id BY <2>7, <2>10, <3>1, <4>1
      <4>2. CASE i # id
        <5>1. accounts'[i] = accounts[i] BY <2>8, <2>9, <4>2
        <5>2. PICK k \in Codes : invites[k] # Nobody /\ invites[k].by = i BY <1>1, <3>1, <5>1 DEF RegistrationsInvited
        <5>3. k # code BY <2>7, <3>1, <5>2, AccountsAssumption
        <5> QED BY <2>10, <3>1, <5>2, <5>3
      <4> QED BY <4>1, <4>2
    <3>2. ASSUME NEW i \in Ids, accounts'[i].state = "deleted" PROVE roles'[i] = {} /\ accounts'[i].login = Nobody
      <4>1. accounts'[i] = accounts[i] BY <2>8, <3>2
      <4> QED BY <1>1, <2>1, <3>2, <4>1 DEF RegistrationsInvited
    <3>3. \A i \in Ids : Cardinality(roles'[i]) <= MAX_ROLES BY <1>1, <2>1 DEF RegistrationsInvited
    <3> QED BY <3>1, <3>2, <3>3 DEF RegistrationsInvited
  <2>14. CircuitsInv' BY <2>1, CircuitsSame DEF AccountsInv
  <2> QED BY <2>5, <2>11, <2>12, <2>13, <2>14 DEF AccountsInv
<1> QED BY <1>2, <1>3

-----------------------------------------------------------------------------
(* Operators, time and restarts.                                           *)

\* A change of an account's state moves its epoch and leaves nothing of a deleted one.
States == {"active", "disabled", "deleted"}
Changed(rows, id, state) ==
    [rows EXCEPT ![id].state = state, ![id].epoch = @ + 1,
                 ![id].login = IF state = "deleted" THEN Nobody ELSE @,
                 ![id].tenant = IF state = "deleted" THEN "" ELSE @]

\* The row after the change.
Moved(old, row, state) ==
    /\ row.state = state /\ row.epoch = old.epoch + 1
    /\ row.login = IF state = "deleted" THEN Nobody ELSE old.login
    /\ row.tenant = IF state = "deleted" THEN "" ELSE old.tenant

LEMMA StateChanged ==
  ASSUME NEW rows \in [Ids -> AccountRow], NEW id \in Ids, NEW state \in States,
         NEW next, next = Changed(rows, id, state)
  PROVE  /\ next \in [Ids -> AccountRow] /\ \A i \in Ids : i # id => next[i] = rows[i]
         /\ Moved(rows[id], next[id], state)
<1> DEFINE old == rows[id]
           login == IF state = "deleted" THEN Nobody ELSE old.login
           tenant == IF state = "deleted" THEN "" ELSE old.tenant
           epoch == old.epoch + 1
           row == [old EXCEPT !.state = state, !.epoch = epoch, !.login = login, !.tenant = tenant]
<1>1. old \in AccountRow OBVIOUS
<1>2. login \in LoginNames /\ tenant \in {"", "team"} /\ epoch \in Nat
  <2>1. old.login \in LoginNames /\ old.tenant \in {"", "team"} /\ old.epoch \in Nat BY <1>1 DEF AccountRow
  <2>2. Nobody \in LoginNames BY DEF LoginNames, OfferedIn
  <2> HIDE DEF old
  <2>3. login \in LoginNames BY <2>1, <2>2
  <2>4. tenant \in {"", "team"} BY <2>1
  <2>5. epoch \in Nat
    <3>1. old.epoch \in Nat BY <1>1 DEF AccountRow
    <3> QED BY <3>1
  <2> QED BY <2>3, <2>4, <2>5
<1>3. next = [rows EXCEPT ![id] = row] BY DEF Changed
<1>4. row \in AccountRow /\ row.state = state /\ row.epoch = epoch /\ row.login = login /\ row.tenant = tenant
  <2>1. state \in {"unborn", "active", "disabled", "deleted"} BY DEF States
  <2> HIDE DEF old, login, tenant, epoch
  <2> QED BY <1>1, <1>2, <2>1 DEF AccountRow
<1> HIDE DEF row
<1>5. next \in [Ids -> AccountRow] /\ next[id] = row /\ \A i \in Ids : i # id => next[i] = rows[i] BY <1>3, <1>4
<1>6. Moved(rows[id], row, state) BY <1>4 DEF Moved
<1> QED BY <1>5, <1>6

LEMMA GrowsOne ==
  ASSUME AccountsTypeOK, NEW id \in Ids, accounts'[id].epoch = accounts[id].epoch + 1,
         \A i \in Ids : i # id => accounts'[i] = accounts[i]
  PROVE  Grow
<1> SUFFICES ASSUME NEW i \in Ids PROVE accounts'[i].epoch \in Nat /\ accounts[i].epoch <= accounts'[i].epoch
  BY DEF Grow
<1>1. accounts[i].epoch \in Nat BY EpochType
<1>2. CASE i = id BY <1>1, <1>2
<1>3. CASE i # id BY <1>1, <1>3
<1> QED BY <1>2, <1>3

LEMMA AccountStateKeeps ==
  ASSUME AccountsInv, NEW id \in Ids, NEW state \in States, AccountState(id, state)
  PROVE  AccountsInv'
<1> DEFINE gone == {k.nonce : k \in {j \in cookies : j.subject = id}}
<1>1. AccountsTypeOK /\ SessionsInv /\ RegistrationsInvited BY DEF AccountsInv
<1>2. /\ accounts[id].state \notin {"unborn", "deleted"}
      /\ accounts' = Changed(accounts, id, state)
      /\ sessions' = [n \in Nonces |-> IF sessions[n] # Nobody /\ sessions[n].principal = id
                                       THEN Nobody ELSE sessions[n]]
      /\ roles' = IF state = "deleted" THEN [roles EXCEPT ![id] = {}] ELSE roles
      /\ revoked' = revoked \cup gone
      /\ UNCHANGED <<invites, wall, keys, cookies, calls, gateway>>
  BY DEF AccountState, Changed
<1>3. accounts \in [Ids -> AccountRow] BY <1>1 DEF AccountsTypeOK
<1>4. /\ accounts' \in [Ids -> AccountRow] /\ \A i \in Ids : i # id => accounts'[i] = accounts[i]
      /\ accounts'[id].state = state /\ accounts'[id].epoch = accounts[id].epoch + 1
      /\ accounts'[id].login = IF state = "deleted" THEN Nobody ELSE accounts[id].login
      /\ accounts'[id].tenant = IF state = "deleted" THEN "" ELSE accounts[id].tenant
  <2>1. accounts' = Changed(accounts, id, state) BY <1>2
  <2> DEFINE rows == accounts
             next == accounts'
  <2>2. rows \in [Ids -> AccountRow] /\ next = Changed(rows, id, state) BY <1>3, <2>1
  <2> HIDE DEF rows, next
  <2>3. /\ next \in [Ids -> AccountRow] /\ \A i \in Ids : i # id => next[i] = rows[i]
        /\ Moved(rows[id], next[id], state)
    BY <2>2, StateChanged
  <2> QED BY <2>3 DEF rows, next, Moved
<1>5. Grow BY <1>1, <1>4, GrowsOne
<1>6. /\ sessions' \in [Nonces -> SessionRow \cup {Nobody}]
      /\ \A n \in Nonces : sessions'[n] = sessions[n] \/ sessions'[n] = Nobody
      /\ \A n \in Nonces : sessions[n] # Nobody /\ sessions[n].principal = id => sessions'[n] = Nobody
  BY <1>1, <1>2 DEF AccountsTypeOK
<1>7. roles' \in [Ids -> SUBSET Roles] /\ \A i \in Ids : roles'[i] = roles[i] \/ roles'[i] = {}
  BY <1>1, <1>2 DEF AccountsTypeOK
<1>8. gone \in SUBSET Nonces BY <1>1 DEF AccountsTypeOK, Cookie
<1>9. AccountsTypeOK' BY <1>1, <1>2, <1>4, <1>6, <1>7, <1>8 DEF AccountsTypeOK, gateway
<1>10. SessionsInv'
  <2>1. ASSUME NEW n \in revoked' PROVE Outdated(n)'
    <3>1. CASE n \in revoked
      <4>1. n \in Nonces /\ Outdated(n) BY <1>1, <3>1 DEF AccountsTypeOK, SessionsInv
      <4> QED BY <1>1, <1>5, <1>6, <4>1, OutdatedStays
    <3>2. CASE n \in gone
      <4>1. PICK k \in cookies : k.nonce = n /\ k.subject = id BY <3>2
      <4>2. sessions[n] # Nobody => sessions[n].principal = id BY <1>1, <4>1 DEF SessionsInv
      <4>3. n \in Nonces BY <1>8, <3>2
      <4>4. sessions'[n] = Nobody BY <1>6, <4>2, <4>3
      <4> QED BY <4>4 DEF Outdated
    <3> QED BY <1>2, <3>1, <3>2
  <2>2. ASSUME NEW k \in cookies, sessions'[k.nonce] # Nobody PROVE sessions'[k.nonce].principal = k.subject
    <3>1. k.nonce \in Nonces BY <1>1 DEF AccountsTypeOK, Cookie
    <3>2. sessions'[k.nonce] = sessions[k.nonce] BY <1>6, <2>2, <3>1
    <3> QED BY <1>1, <2>2, <3>2 DEF SessionsInv
  <2>3. \A d \in Calls : ReadBefore(calls[d])' BY <1>1, <1>2, <1>5, ReadStays
  <2>4. \A i \in Ids : accounts'[i].state = "unborn" => accounts'[i].epoch = 0
    <3> SUFFICES ASSUME NEW i \in Ids, accounts'[i].state = "unborn" PROVE accounts'[i].epoch = 0 OBVIOUS
    <3>1. i # id BY <1>4 DEF States
    <3> QED BY <1>1, <1>4, <3>1 DEF SessionsInv
  <2> QED BY <1>1, <1>2, <2>1, <2>2, <2>3, <2>4 DEF SessionsInv
<1>11. RegistrationsInvited'
  <2>1. ASSUME REGISTRATION = "Invite", NEW i \in Ids, accounts'[i].state # "unborn", accounts'[i].tenant = "",
               accounts'[i].state # "deleted"
        PROVE  \E k \in Codes : invites'[k] # Nobody /\ invites'[k].by = i
    <3>1. accounts[i].state \notin {"unborn", "deleted"} /\ accounts[i].tenant = ""
      <4>1. CASE i = id BY <1>2, <1>4, <2>1, <4>1
      <4>2. CASE i # id
        <5>1. accounts'[i] = accounts[i] BY <1>4, <4>2
        <5> QED BY <2>1, <5>1
      <4> QED BY <4>1, <4>2
    <3> QED BY <1>1, <1>2, <2>1, <3>1 DEF RegistrationsInvited
  <2>2. ASSUME NEW i \in Ids, accounts'[i].state = "deleted" PROVE roles'[i] = {} /\ accounts'[i].login = Nobody
    <3>1. CASE i = id
      <4>1. state = "deleted" BY <1>4, <2>2, <3>1
      <4>2. roles' = [roles EXCEPT ![id] = {}] BY <1>2, <4>1
      <4>3. roles'[id] = {} BY <1>1, <4>2 DEF AccountsTypeOK
      <4> QED BY <1>4, <3>1, <4>1, <4>3
    <3>2. CASE i # id
      <4>1. accounts'[i] = accounts[i] BY <1>4, <3>2
      <4> QED BY <1>1, <1>7, <2>2, <4>1 DEF RegistrationsInvited
    <3> QED BY <3>1, <3>2
  <2>3. ASSUME NEW i \in Ids PROVE Cardinality(roles'[i]) <= MAX_ROLES
    <3>1. Cardinality({}) = 0 BY FS_EmptySet
    <3>2. 0 <= MAX_ROLES BY AccountsAssumption
    <3>3. CASE roles'[i] = {} BY <3>1, <3>2, <3>3
    <3>4. CASE roles'[i] = roles[i] BY <1>1, <3>4 DEF RegistrationsInvited
    <3> QED BY <1>7, <3>3, <3>4
  <2> QED BY <2>1, <2>2, <2>3 DEF RegistrationsInvited
<1>12. PermitsInv' BY <1>2, PermitsSame DEF AccountsInv, gateway
<1>13. CircuitsInv' BY <1>2, CircuitsSame DEF AccountsInv, gateway
<1> QED BY <1>9, <1>10, <1>11, <1>12, <1>13 DEF AccountsInv

LEMMA RolesFinite == ASSUME NEW given \in SUBSET Roles PROVE IsFiniteSet(given) /\ Cardinality(given) \in Nat
<1>1. IsFiniteSet({<<"editor", "">>}) BY FS_Singleton
<1>2. IsFiniteSet({<<"editor", "">>} \cup {<<"editor", "team">>}) BY <1>1, FS_AddElement
<1>3. Roles = {<<"editor", "">>} \cup {<<"editor", "team">>} BY DEF Roles
<1>4. IsFiniteSet(given) BY <1>2, <1>3, FS_Subset
<1> QED BY <1>4, FS_CardinalityType

\* What leaves the accounts and all the gateway alone.
LEMMA OperatorStep ==
  ASSUME AccountsInv, UNCHANGED <<accounts, sessions, wall, keys, cookies, calls, gateway, revoked>>,
         roles' \in [Ids -> SUBSET Roles], invites' \in [Codes -> Invitation \cup {Nobody}], RegistrationsInvited'
  PROVE  AccountsInv'
<1>1. AccountsTypeOK /\ SessionsInv BY DEF AccountsInv
<1>2. AccountsTypeOK' BY <1>1 DEF AccountsTypeOK, gateway
<1>3. SessionsInv' BY <1>1 DEF SessionsInv, Outdated, ReadBefore
<1>4. PermitsInv' BY PermitsSame DEF AccountsInv, gateway
<1>5. CircuitsInv' BY CircuitsSame DEF AccountsInv, gateway
<1> QED BY <1>2, <1>3, <1>4, <1>5 DEF AccountsInv

LEMMA GrantRoleKeeps ==
  ASSUME AccountsInv, NEW id \in Ids, NEW role \in Roles, GrantRole(id, role) PROVE AccountsInv'
<1>1. AccountsTypeOK /\ RegistrationsInvited BY DEF AccountsInv
<1>2. /\ accounts[id].state \notin {"unborn", "deleted"} /\ Cardinality(roles[id]) < MAX_ROLES
      /\ roles' = [roles EXCEPT ![id] = roles[id] \cup {role}]
      /\ UNCHANGED <<accounts, sessions, invites, wall, keys, cookies, calls, gateway, revoked>>
  BY DEF GrantRole, Grantable
<1>3. /\ roles' \in [Ids -> SUBSET Roles] /\ roles'[id] = roles[id] \cup {role} /\ roles[id] \in SUBSET Roles
      /\ \A i \in Ids : i # id => roles'[i] = roles[i]
  BY <1>1, <1>2 DEF AccountsTypeOK
<1>4. Cardinality(roles'[id]) <= MAX_ROLES
  <2>1. IsFiniteSet(roles[id]) /\ Cardinality(roles[id]) \in Nat BY <1>3, RolesFinite
  <2>2. Cardinality(roles[id] \cup {role}) = IF role \in roles[id] THEN Cardinality(roles[id]) ELSE Cardinality(roles[id]) + 1
    BY <2>1, FS_AddElement
  <2>3. MAX_ROLES \in Nat BY AccountsAssumption
  <2> QED BY <1>2, <1>3, <2>1, <2>2, <2>3
<1>5. RegistrationsInvited'
  <2>1. \A i \in Ids : Cardinality(roles'[i]) <= MAX_ROLES BY <1>1, <1>3, <1>4 DEF RegistrationsInvited
  <2>2. \A i \in Ids : accounts'[i].state = "deleted" => roles'[i] = {} /\ accounts'[i].login = Nobody
    BY <1>1, <1>2, <1>3 DEF RegistrationsInvited
  <2> QED BY <1>1, <1>2, <2>1, <2>2 DEF RegistrationsInvited
<1>6. invites' \in [Codes -> Invitation \cup {Nobody}] BY <1>1, <1>2 DEF AccountsTypeOK
<1> QED BY <1>2, <1>3, <1>5, <1>6, OperatorStep

LEMMA RevokeRoleKeeps ==
  ASSUME AccountsInv, NEW id \in Ids, NEW role \in Roles, RevokeRole(id, role) PROVE AccountsInv'
<1>1. AccountsTypeOK /\ RegistrationsInvited BY DEF AccountsInv
<1>2. /\ roles' = [roles EXCEPT ![id] = roles[id] \ {role}]
      /\ UNCHANGED <<accounts, sessions, invites, wall, keys, cookies, calls, gateway, revoked>>
  BY DEF RevokeRole
<1>3. /\ roles' \in [Ids -> SUBSET Roles] /\ roles'[id] = roles[id] \ {role} /\ roles[id] \in SUBSET Roles
      /\ \A i \in Ids : i # id => roles'[i] = roles[i]
  BY <1>1, <1>2 DEF AccountsTypeOK
<1>4. Cardinality(roles'[id]) <= MAX_ROLES
  <2>1. IsFiniteSet(roles[id]) /\ Cardinality(roles[id]) \in Nat BY <1>3, RolesFinite
  <2>2. Cardinality(roles[id] \ {role}) = IF role \in roles[id] THEN Cardinality(roles[id]) - 1 ELSE Cardinality(roles[id])
    BY <2>1, FS_RemoveElement
  <2>3. MAX_ROLES \in Nat /\ Cardinality(roles[id]) <= MAX_ROLES BY <1>1, AccountsAssumption DEF RegistrationsInvited
  <2> QED BY <1>3, <2>1, <2>2, <2>3
<1>5. RegistrationsInvited'
  <2>1. \A i \in Ids : Cardinality(roles'[i]) <= MAX_ROLES BY <1>1, <1>3, <1>4 DEF RegistrationsInvited
  <2>2. \A i \in Ids : accounts'[i].state = "deleted" => roles'[i] = {} /\ accounts'[i].login = Nobody
    BY <1>1, <1>2, <1>3 DEF RegistrationsInvited
  <2> QED BY <1>1, <1>2, <2>1, <2>2 DEF RegistrationsInvited
<1>6. invites' \in [Codes -> Invitation \cup {Nobody}] BY <1>1, <1>2 DEF AccountsTypeOK
<1> QED BY <1>2, <1>3, <1>5, <1>6, OperatorStep

LEMMA MintInviteKeeps == ASSUME AccountsInv, NEW code \in Codes, MintInvite(code) PROVE AccountsInv'
<1> DEFINE invitation == [expires |-> wall + INVITE_TTL, by |-> Nobody]
<1>1. AccountsTypeOK /\ RegistrationsInvited BY DEF AccountsInv
<1>2. /\ invites[code] = Nobody /\ invites' = [invites EXCEPT ![code] = invitation]
      /\ UNCHANGED <<accounts, sessions, roles, wall, keys, cookies, calls, gateway, revoked>>
  BY DEF MintInvite
<1>3. invitation \in Invitation
  <2>1. wall \in Nat BY <1>1 DEF AccountsTypeOK
  <2>2. INVITE_TTL \in Nat BY AccountsAssumption
  <2> QED BY <2>1, <2>2 DEF Invitation
<1> HIDE DEF invitation
<1>4. invites' \in [Codes -> Invitation \cup {Nobody}] /\ \A k \in Codes : k # code => invites'[k] = invites[k]
  BY <1>1, <1>2, <1>3 DEF AccountsTypeOK
<1>5. RegistrationsInvited'
  <2>1. ASSUME REGISTRATION = "Invite", NEW i \in Ids, accounts'[i].state # "unborn", accounts'[i].tenant = "",
               accounts'[i].state # "deleted"
        PROVE  \E k \in Codes : invites'[k] # Nobody /\ invites'[k].by = i
    <3>1. PICK k \in Codes : invites[k] # Nobody /\ invites[k].by = i BY <1>1, <1>2, <2>1 DEF RegistrationsInvited
    <3>2. k # code BY <1>2, <3>1
    <3> QED BY <1>4, <3>1, <3>2
  <2> QED BY <1>1, <1>2, <2>1 DEF RegistrationsInvited
<1>6. roles' \in [Ids -> SUBSET Roles] BY <1>1, <1>2 DEF AccountsTypeOK
<1> QED BY <1>2, <1>4, <1>5, <1>6, OperatorStep

LEMMA KeysLostKeeps == ASSUME AccountsInv, KeysLost PROVE AccountsInv'
<1>1. AccountsTypeOK /\ SessionsInv BY DEF AccountsInv
<1>2. keys' = [keys EXCEPT !.serving = FALSE] /\ UNCHANGED <<stored, wall, cookies, calls, gateway, revoked>>
  BY DEF KeysLost
<1>3. keys' \in [incarnation : Nat, serving : BOOLEAN]
  <2>1. keys \in [incarnation : Nat, serving : BOOLEAN] BY <1>1 DEF AccountsTypeOK
  <2> QED BY <1>2, <2>1
<1>4. AccountsTypeOK' BY <1>1, <1>2, <1>3 DEF AccountsTypeOK, gateway, stored
<1>5. SessionsInv' BY <1>1, <1>2 DEF SessionsInv, Outdated, ReadBefore, stored
<1>6. PermitsInv' BY <1>2, PermitsSame DEF AccountsInv, gateway
<1>7. CircuitsInv' BY <1>2, CircuitsSame DEF AccountsInv, gateway
<1>8. RegistrationsInvited' BY <1>2, RegistrationsSame DEF AccountsInv, stored
<1> QED BY <1>4, <1>5, <1>6, <1>7, <1>8 DEF AccountsInv

\* No call, no permit and no circuit outlives the process.
LEMMA NoCircuits ==
  ASSUME circuits = [entries |-> << >>, tick |-> 0], recent = << >>
  PROVE  CircuitsInv /\ recent \in Seq(OfferedIn("peer")) /\ circuits \in [entries : [Range(recent) -> Bucket], tick : Nat]
<1>1. Range(recent) = {} /\ recent \in Seq(OfferedIn("peer")) /\ Len(recent) = 0 /\ DOMAIN recent = {} BY DEF Range
<1>2. circuits.entries = << >> /\ circuits.tick = 0 OBVIOUS
<1>3. DOMAIN circuits.entries = {} BY <1>2
<1>4. circuits.entries \in [Range(recent) -> Bucket] BY <1>1, <1>2
<1>5. 0 <= TABLE_CAPACITY /\ 0 <= LAST_TICK BY AccountsAssumption
<1>6. CircuitsInOrder BY <1>1, <1>3 DEF CircuitsInOrder
<1>7. CircuitsInv BY <1>1, <1>2, <1>3, <1>5, <1>6 DEF CircuitsInv
<1> QED BY <1>1, <1>4, <1>7

LEMMA NoPermits ==
  ASSUME calls = [c \in Calls |-> Resting], worker = [c \in Calls |-> Nobody],
         free = [p \in Permits |-> PermitCapacity(p)]
  PROVE  PermitsInv /\ calls \in [Calls -> CallType] /\ free \in [Permits -> Int]
<1>1. \A c \in Calls : Works(calls[c], worker[c]) BY DEF Works, Resting
<1>2. ASSUME NEW p \in Permits PROVE free[p] + Cardinality(Using(p)) = PermitCapacity(p)
  <2>1. Using(p) = {} BY DEF Using, Uses, Resting
  <2>2. Cardinality(Using(p)) = 0 BY <2>1, FS_EmptySet
  <2>3. free[p] = PermitCapacity(p) /\ PermitCapacity(p) \in Int BY CapacityType
  <2> HIDE DEF Using
  <2> QED BY <2>2, <2>3
<1>3. WorkCovered BY <1>2, CoveredAre
<1>4. free \in [Permits -> Int] BY CapacityType
<1> QED BY <1>1, <1>3, <1>4, RestingType DEF PermitsInv

LEMMA RestartKeeps == ASSUME AccountsInv, NEW fresh \in BOOLEAN, Restart(fresh) PROVE AccountsInv'
<1>1. AccountsTypeOK /\ SessionsInv BY DEF AccountsInv
<1>2. /\ keys' = [incarnation |-> IF fresh THEN keys.incarnation + 1 ELSE keys.incarnation, serving |-> TRUE]
      /\ calls' = [c \in Calls |-> Resting] /\ worker' = [c \in Calls |-> Nobody]
      /\ free' = [p \in Permits |-> PermitCapacity(p)] /\ attempts' = ARGON2_PER_MINUTE
      /\ circuits' = [entries |-> << >>, tick |-> 0] /\ recent' = << >>
      /\ UNCHANGED <<stored, wall, cookies, revoked>>
  BY DEF Restart
<1>3. keys' \in [incarnation : Nat, serving : BOOLEAN]
  <2> DEFINE n == IF fresh THEN keys.incarnation + 1 ELSE keys.incarnation
  <2>1. keys.incarnation \in Nat BY <1>1 DEF AccountsTypeOK
  <2>2. n \in Nat BY <2>1
  <2>3. keys' = [incarnation |-> n, serving |-> TRUE] BY <1>2
  <2> HIDE DEF n
  <2> QED BY <2>2, <2>3
<1>4. PermitsInv' /\ calls' \in [Calls -> CallType] /\ free' \in [Permits -> Int]
  <2>1. (calls = [c \in Calls |-> Resting] /\ worker = [c \in Calls |-> Nobody]
           /\ free = [p \in Permits |-> PermitCapacity(p)]
         => PermitsInv /\ calls \in [Calls -> CallType] /\ free \in [Permits -> Int])'
    BY NoPermits, PTL
  <2> QED BY <1>2, <2>1
<1>5. /\ CircuitsInv' /\ recent' \in Seq(OfferedIn("peer"))
      /\ circuits' \in [entries : [Range(recent') -> Bucket], tick : Nat]
  <2>1. (circuits = [entries |-> << >>, tick |-> 0] /\ recent = << >>
         => CircuitsInv /\ recent \in Seq(OfferedIn("peer")) /\ circuits \in [entries : [Range(recent) -> Bucket], tick : Nat])'
    BY NoCircuits, PTL
  <2> QED BY <1>2, <2>1
<1>6. attempts' \in Nat /\ worker' \in [Calls -> (SUBSET Permits) \cup {Nobody}] BY <1>2, AccountsAssumption
<1>7. AccountsTypeOK' BY <1>1, <1>2, <1>3, <1>4, <1>5, <1>6 DEF AccountsTypeOK, stored
<1>8. SessionsInv'
  <2>1. \A d \in Calls : ReadBefore(calls[d])' BY <1>2 DEF ReadBefore, Resting
  <2> QED BY <1>1, <1>2, <2>1 DEF SessionsInv, Outdated, stored
<1>9. RegistrationsInvited' BY <1>2, RegistrationsSame DEF AccountsInv, stored
<1> QED BY <1>4, <1>5, <1>7, <1>8, <1>9 DEF AccountsInv

\* The refill gives each bucket tokens up to its capacity, and changes no tick.
LEMMA PassKeeps == ASSUME AccountsInv, Pass PROVE AccountsInv'
<1> DEFINE E == circuits.entries
           Filled(c) == [E[c] EXCEPT !.tokens = Min({@ + CIRCUIT_REFILL, CIRCUIT_CAPACITY})]
           entries == [c \in DOMAIN E |-> Filled(c)]
<1>1. AccountsTypeOK /\ SessionsInv /\ CircuitsInv BY DEF AccountsInv
<1>2. /\ wall' = wall + 1 /\ attempts' = ARGON2_PER_MINUTE /\ circuits' = [circuits EXCEPT !.entries = entries]
      /\ UNCHANGED <<stored, keys, cookies, calls, worker, free, revoked, recent>>
  BY DEF Pass
<1>3. /\ E \in [Range(recent) -> Bucket] /\ circuits = [entries |-> E, tick |-> circuits.tick]
      /\ circuits.tick \in Nat /\ DOMAIN E = Range(recent)
  BY <1>1, CircuitsAre
<1>4. ASSUME NEW c \in Range(recent)
      PROVE  Filled(c) \in Bucket /\ Filled(c).tick = E[c].tick /\ Filled(c).tokens <= CIRCUIT_CAPACITY
  <2> DEFINE b == E[c]
             some == {b.tokens + CIRCUIT_REFILL, CIRCUIT_CAPACITY}
             m == Min(some)
  <2>1. b \in Bucket /\ b.tokens \in Nat BY <1>3 DEF Bucket
  <2>2. CIRCUIT_REFILL \in Nat /\ CIRCUIT_CAPACITY \in Nat BY AccountsAssumption
  <2>3. Filled(c) = [b EXCEPT !.tokens = m] OBVIOUS
  <2>4. m \in Nat /\ m <= CIRCUIT_CAPACITY
    <3> DEFINE s == b.tokens + CIRCUIT_REFILL
    <3>1. s \in Nat BY <2>1, <2>2
    <3> HIDE DEF s
    <3>2. \E x \in {s, CIRCUIT_CAPACITY} : \A y \in {s, CIRCUIT_CAPACITY} : x <= y
      <4>1. CASE s <= CIRCUIT_CAPACITY BY <2>2, <3>1, <4>1
      <4>2. CASE CIRCUIT_CAPACITY <= s BY <2>2, <3>1, <4>2
      <4> QED BY <2>2, <3>1, <4>1, <4>2
    <3>3. Min({s, CIRCUIT_CAPACITY}) \in {s, CIRCUIT_CAPACITY} /\ Min({s, CIRCUIT_CAPACITY}) <= CIRCUIT_CAPACITY
      BY <3>2 DEF Min
    <3>4. Min({s, CIRCUIT_CAPACITY}) \in Nat BY <2>2, <3>1, <3>3
    <3> QED BY <3>3, <3>4 DEF s
  <2> HIDE DEF b, m
  <2>5. [b EXCEPT !.tokens = m] \in Bucket /\ [b EXCEPT !.tokens = m].tick = b.tick /\ [b EXCEPT !.tokens = m].tokens = m
    BY <2>1, <2>4 DEF Bucket
  <2> QED BY <2>3, <2>4, <2>5 DEF b
<1> DEFINE now == circuits'.entries
<1>5. now = entries /\ circuits'.tick = circuits.tick /\ circuits' = [entries |-> entries, tick |-> circuits.tick]
  <2> HIDE DEF entries
  <2> QED BY <1>2, <1>3
<1>6. /\ now \in [Range(recent) -> Bucket] /\ DOMAIN now = Range(recent)
      /\ \A c \in Range(recent) : now[c].tick = E[c].tick /\ now[c].tokens <= CIRCUIT_CAPACITY
  <2> HIDE DEF Filled
  <2> QED BY <1>3, <1>4, <1>5
<1> HIDE DEF entries
<1>7. CircuitsInv'
  <2>1. \A i \in DOMAIN recent : recent[i] \in Range(recent) BY DEF Range
  <2>2. CircuitsInOrder' BY <1>1, <1>2, <1>3, <1>6, <2>1 DEF CircuitsInv, CircuitsInOrder
  <2> QED BY <1>1, <1>2, <1>3, <1>5, <1>6, <2>2 DEF CircuitsInv
<1>8. circuits' \in [entries : [Range(recent') -> Bucket], tick : Nat] BY <1>2, <1>3, <1>5, <1>6
<1>9. AccountsTypeOK'
  <2>1. wall' \in Nat BY <1>1, <1>2 DEF AccountsTypeOK
  <2>2. attempts' \in Nat BY <1>2, AccountsAssumption
  <2> QED BY <1>1, <1>2, <1>8, <2>1, <2>2 DEF AccountsTypeOK, stored
<1>10. SessionsInv' BY <1>1, <1>2 DEF SessionsInv, Outdated, ReadBefore, stored
<1>11. PermitsInv' BY <1>2, PermitsSame DEF AccountsInv
<1>12. RegistrationsInvited' BY <1>2, RegistrationsSame DEF AccountsInv, stored
<1> QED BY <1>7, <1>9, <1>10, <1>11, <1>12 DEF AccountsInv


\* A request arrives: its circuit pays, and it holds nothing yet.
LEMMA ArriveKeeps ==
  ASSUME AccountsInv, NEW c \in Calls, NEW offered \in Traffic, NEW cookie \in cookies \cup {Nobody},
         Arrive(c, offered, cookie)
  PROVE  AccountsInv'
<1> DEFINE class == ClassOf(offered.kind)
           cost == COST[class]
           peer == offered.peer
           affords == peer = Nobody \/ Affords(peer, cost)
           answer == IF affords THEN Nobody ELSE "busy"
           at == CASE ~affords -> "done"
                   [] affords /\ class # "PasswordHash" /\ Verified(cookie) -> "candidate"
                   [] OTHER -> "waiting"
           next == [Resting EXCEPT !.kind = offered.kind, !.peer = offered.peer, !.cookie = cookie,
                                   !.name = offered.name, !.code = offered.code, !.right = offered.right,
                                   !.answer = answer, !.at = at]
           its == Nobody
<1>1. AccountsTypeOK /\ PermitsInv /\ CircuitsInv BY DEF AccountsInv
<1>2. /\ calls[c].at \in {"idle", "done"} /\ worker[c] = Nobody
      /\ ChargeCircuit(peer, cost) /\ Progress(c, next)
      /\ UNCHANGED <<stored, wall, keys, cookies, worker, free, attempts, revoked>>
  BY DEF Arrive
<1>3. answer \in {"busy", Nobody} /\ at \in {"done", "candidate", "waiting"} OBVIOUS
<1>4. cookie \in Cookie \cup {Nobody} BY <1>1 DEF AccountsTypeOK
<1>5. /\ offered.kind \in OfferedIn("kind") /\ offered.peer \in OfferedIn("peer")
      /\ offered.name \in OfferedIn("name") /\ offered.right \in OfferedIn("right")
      /\ offered.code \in Codes \cup {Nobody}
  BY AccountsAssumption DEF OfferedIn
<1>6. cost \in Nat BY Costs
<1> HIDE DEF answer, at, cost
<1>7. next \in CallType /\ next.at = at /\ next.held = {}
  <2>1. Resting.held = {} BY DEF Resting
  <2> DEFINE base == Resting
  <2>2. base \in CallType /\ base.held = {} BY RestingType, <2>1
  <2>3. next = [base EXCEPT !.kind = offered.kind, !.peer = offered.peer, !.cookie = cookie,
                            !.name = offered.name, !.code = offered.code, !.right = offered.right,
                            !.answer = answer, !.at = at]
    OBVIOUS
  <2> HIDE DEF base, next
  <2> QED BY <1>3, <1>4, <1>5, <2>2, <2>3 DEF CallType
<1> HIDE DEF next
<1>8. Works(calls[c], worker[c]) /\ calls[c].held = {} BY <1>1, <1>2 DEF PermitsInv, Works
<1>9. Works(next, its) BY <1>3, <1>7 DEF Works
<1> DEFINE A == Uses(calls[c], worker[c])
           B == Uses(next, its)
<1>10. A = {} /\ B = {} BY <1>2, <1>7, <1>8 DEF Uses
<1>11. Balanced(A, B)
  <2>1. free' = free BY <1>2
  <2> QED BY <1>10, <2>1 DEF Balanced
<1>12. A = Uses(calls[c], worker[c]) /\ B = Uses(next, its) OBVIOUS
<1>13. its \in (SUBSET Permits) \cup {Nobody} /\ worker' = [worker EXCEPT ![c] = its]
  BY <1>1, <1>2 DEF AccountsTypeOK
<1> HIDE DEF A, B, its
<1>14. /\ calls' \in [Calls -> CallType] /\ worker' \in [Calls -> (SUBSET Permits) \cup {Nobody}]
       /\ calls'[c] = next /\ worker'[c] = its /\ Elsewhere(c) /\ PermitsInv'
  BY <1>1, <1>2, <1>7, <1>9, <1>11, <1>12, <1>13, CallMoves
<1>15. peer \in Peers BY <1>5 DEF Peers
<1> HIDE DEF peer
<1>16. /\ CircuitsInv' /\ recent' \in Seq(OfferedIn("peer"))
       /\ circuits' \in [entries : [Range(recent') -> Bucket], tick : Nat]
  BY <1>1, <1>2, <1>6, <1>15, ChargeCircuitKeeps
<1>17. AccountsTypeOK' BY <1>1, <1>2, <1>14, <1>16 DEF AccountsTypeOK, stored
<1>18. ReadBefore(calls[c])' BY <1>3, <1>7, <1>14, IdleNow
<1>19. SessionsInv' BY <1>2, <1>14, <1>18, SessionsSame DEF AccountsInv, stored
<1>20. RegistrationsInvited' BY <1>2, RegistrationsSame DEF AccountsInv, stored
<1> QED BY <1>14, <1>16, <1>17, <1>19, <1>20 DEF AccountsInv

-----------------------------------------------------------------------------
(* The specification.                                                      *)

LEMMA AccountsStarts == ASSUME AccountsInit PROVE AccountsInv
<1>1. /\ accounts = [i \in Ids |-> IF i = 1 THEN FreshAccount(FirstLogin, "team")
                                  ELSE [login |-> Nobody, tenant |-> "", state |-> "unborn", epoch |-> 0]]
      /\ sessions = [n \in Nonces |-> Nobody] /\ roles = [i \in Ids |-> {}] /\ invites = [c \in Codes |-> Nobody]
      /\ wall = 0 /\ keys = [incarnation |-> 1, serving |-> TRUE] /\ cookies = {}
      /\ calls = [c \in Calls |-> Resting] /\ worker = [c \in Calls |-> Nobody]
      /\ free = [p \in Permits |-> PermitCapacity(p)] /\ attempts = ARGON2_PER_MINUTE
      /\ circuits = [entries |-> << >>, tick |-> 0] /\ revoked = {} /\ recent = << >>
  BY DEF AccountsInit
<1>2. PermitsInv /\ calls \in [Calls -> CallType] /\ free \in [Permits -> Int] BY <1>1, NoPermits
<1>3. CircuitsInv /\ recent \in Seq(OfferedIn("peer")) /\ circuits \in [entries : [Range(recent) -> Bucket], tick : Nat]
  BY <1>1, NoCircuits
<1> DEFINE first == FreshAccount(FirstLogin, "team")
           blank == [login |-> Nobody, tenant |-> "", state |-> "unborn", epoch |-> 0]
<1>4. first \in AccountRow /\ first.state = "active" /\ first.tenant = "team"
  <2>1. 1 \in Nat /\ FirstLogin \in LoginNames BY DEF LoginNames
  <2> QED BY <2>1 DEF FreshAccount, AccountRow
<1>5. blank \in AccountRow /\ blank.state = "unborn" /\ blank.epoch = 0
  <2>1. 0 \in Nat /\ Nobody \in LoginNames BY DEF LoginNames, OfferedIn
  <2> QED BY <2>1 DEF AccountRow
<1>6. accounts = [i \in Ids |-> IF i = 1 THEN first ELSE blank] BY <1>1
<1> HIDE DEF first, blank
<1>7. /\ accounts \in [Ids -> AccountRow]
      /\ \A i \in Ids : accounts[i] = first \/ accounts[i] = blank
  BY <1>4, <1>5, <1>6
<1>8. keys \in [incarnation : Nat, serving : BOOLEAN] BY <1>1
<1>9. attempts \in Nat /\ wall \in Nat BY <1>1, AccountsAssumption
<1>10. AccountsTypeOK BY <1>1, <1>2, <1>3, <1>7, <1>8, <1>9 DEF AccountsTypeOK
<1>11. SessionsInv
  <2>1. \A d \in Calls : ReadBefore(calls[d]) BY <1>1 DEF ReadBefore, Resting
  <2>2. \A i \in Ids : accounts[i].state = "unborn" => accounts[i].epoch = 0 BY <1>4, <1>5, <1>7
  <2> QED BY <1>1, <2>1, <2>2 DEF SessionsInv
<1>12. RegistrationsInvited
  <2>1. \A i \in Ids : accounts[i].state \in {"active", "unborn"} /\ (accounts[i].state # "unborn" => accounts[i].tenant = "team")
    BY <1>4, <1>5, <1>7
  <2>2. \A i \in Ids : Cardinality(roles[i]) <= MAX_ROLES
    <3>1. Cardinality({}) = 0 BY FS_EmptySet
    <3>2. 0 <= MAX_ROLES BY AccountsAssumption
    <3> QED BY <1>1, <3>1, <3>2
  <2> QED BY <2>1, <2>2 DEF RegistrationsInvited
<1> QED BY <1>2, <1>3, <1>10, <1>11, <1>12 DEF AccountsInv

LEMMA AccountsStep == ASSUME AccountsInv, [AccountsNext]_accountsVars PROVE AccountsInv'
<1>1. CASE UNCHANGED accountsVars
  <2>1. AccountsTypeOK' BY <1>1 DEF AccountsInv, AccountsTypeOK, accountsVars
  <2>2. SessionsInv' BY <1>1 DEF AccountsInv, SessionsInv, Outdated, ReadBefore, accountsVars
  <2>3. PermitsInv' BY <1>1, PermitsSame DEF AccountsInv, accountsVars
  <2>4. RegistrationsInvited' BY <1>1, RegistrationsSame DEF AccountsInv, accountsVars
  <2>5. CircuitsInv' BY <1>1, CircuitsSame DEF AccountsInv, accountsVars
  <2> QED BY <2>1, <2>2, <2>3, <2>4, <2>5 DEF AccountsInv
<1>2. ASSUME NEW c \in Calls, Arrivals(c) PROVE AccountsInv'
  BY <1>2, ArriveKeeps DEF Arrivals
<1>3. ASSUME NEW c \in Calls, CallStep(c) PROVE AccountsInv'
  BY <1>3, CheckCandidateKeeps, CandidateCheckedKeeps, EnterLaneKeeps, MalformedKeeps, ServePageKeeps, LogoutKeeps,
     RefuseHashKeeps, SpawnHashKeeps, HashEndsKeeps, LoginEndsKeeps, RegisterEndsKeeps, DeadlineKeeps
  DEF CallStep
<1>4. ASSUME NEW id \in Ids, NEW state \in {"active", "disabled", "deleted"}, AccountState(id, state) PROVE AccountsInv'
  BY <1>4, AccountStateKeeps DEF States
<1> QED BY <1>1, <1>2, <1>3, <1>4, CreateAccountKeeps, GrantRoleKeeps, RevokeRoleKeeps, MintInviteKeeps,
           KeysLostKeeps, PassKeeps, RestartKeeps
        DEF AccountsNext

-----------------------------------------------------------------------------
(* Sessions of an account that is disabled or gone.                        *)

\* A password was checked for an account: its login may still write a session.
Hashes(call) == call.at \in {"hashing", "hashed"} /\ call.read # Nobody
ReadLeft(call) == Hashes(call) /\ Barred(call.read[1]) => call.read[2] < accounts[call.read[1]].epoch
RowLeft(row) == row # Nobody /\ Barred(row.principal) => row.epoch < accounts[row.principal].epoch
BarredInv == (\A n \in Nonces : RowLeft(sessions[n])) /\ (\A c \in Calls : ReadLeft(calls[c]))

\* What a step that bars nobody may do.
ReadsNothing(c) == Hashes(calls[c])' => Hashes(calls[c]) /\ calls'[c].read = calls[c].read
NoneBarred == \A id \in Ids : accounts'[id] = accounts[id] \/ accounts'[id].state = "active"
RowsStay == \A n \in Nonces : sessions'[n] = sessions[n] \/ sessions'[n] = Nobody

LEMMA HashedIs ==
  ASSUME SessionsInv, NEW c \in Calls, Hashes(calls[c])
  PROVE  /\ calls[c].read[1] \in Ids /\ calls[c].read[2] \in Nat
         /\ calls[c].read[2] <= accounts[calls[c].read[1]].epoch
  BY DEF SessionsInv, ReadBefore, Hashes

LEMMA RowsLeft ==
  ASSUME AccountsTypeOK, BarredInv, NoneBarred, NEW n \in Nonces, sessions'[n] = sessions[n] \/ sessions'[n] = Nobody
  PROVE  RowLeft(sessions[n])'
<1> SUFFICES ASSUME sessions'[n] = sessions[n], sessions[n] # Nobody PROVE RowLeft(sessions[n])'
  BY DEF RowLeft
<1> DEFINE id == sessions[n].principal
<1>1. id \in Ids BY RowType
<1>2. RowLeft(sessions[n]) BY DEF BarredInv
<1>3. CASE accounts'[id] = accounts[id] BY <1>2, <1>3 DEF RowLeft, Barred
<1>4. CASE accounts'[id].state = "active" BY <1>4 DEF RowLeft, Barred
<1> QED BY <1>1, <1>3, <1>4 DEF NoneBarred

LEMMA ReadsLeft ==
  ASSUME SessionsInv, BarredInv, NoneBarred, NEW c \in Calls, ReadsNothing(c)
  PROVE  ReadLeft(calls[c])'
<1> SUFFICES ASSUME Hashes(calls[c])' PROVE ReadLeft(calls[c])'
  BY DEF ReadLeft
<1> DEFINE id == calls[c].read[1]
<1>1. Hashes(calls[c]) /\ calls'[c].read = calls[c].read BY DEF ReadsNothing
<1>2. id \in Ids BY <1>1, HashedIs
<1>3. ReadLeft(calls[c]) BY DEF BarredInv
<1>4. CASE accounts'[id] = accounts[id] BY <1>1, <1>3, <1>4 DEF ReadLeft, Barred
<1>5. CASE accounts'[id].state = "active" BY <1>1, <1>5 DEF ReadLeft, Barred
<1> QED BY <1>2, <1>4, <1>5 DEF NoneBarred

LEMMA BarredStays ==
  ASSUME AccountsTypeOK, SessionsInv, BarredInv, NoneBarred, RowsStay, \A c \in Calls : ReadsNothing(c)
  PROVE  BarredInv'
<1>1. \A n \in Nonces : RowLeft(sessions[n])' BY RowsLeft DEF RowsStay
<1>2. \A c \in Calls : ReadLeft(calls[c])' BY ReadsLeft
<1> QED BY <1>1, <1>2 DEF BarredInv

LEMMA SameReads == ASSUME NEW c, calls'[c] = calls[c] PROVE ReadsNothing(c)
  BY DEF ReadsNothing, Hashes

LEMMA OthersRead ==
  ASSUME AccountsTypeOK, NEW d \in Calls, NEW next, Progress(d, next), NEW c \in Calls
  PROVE  IF c = d THEN calls'[c] = next ELSE ReadsNothing(c)
<1>1. c # d => calls'[c] = calls[c] BY DEF Progress, AccountsTypeOK
<1>2. c = d => calls'[c] = next BY DEF Progress, AccountsTypeOK
<1> QED BY <1>1, <1>2, SameReads

LEMMA QuietReads ==
  ASSUME AccountsTypeOK, NEW d \in Calls, NEW next, Progress(d, next), next.at \notin {"hashing", "hashed"},
         NEW c \in Calls
  PROVE  ReadsNothing(c)
<1>1. CASE c = d
  <2>1. calls'[c] = next BY <1>1, OthersRead
  <2> QED BY <2>1 DEF ReadsNothing, Hashes
<1> QED BY <1>1, OthersRead

LEMMA DoneReads ==
  ASSUME AccountsTypeOK, NEW d \in Calls, NEW answer, Progress(d, Done(answer)), NEW c \in Calls
  PROVE  ReadsNothing(c)
<1> DEFINE next == Done(answer)
<1>1. next.at = "done" BY DoneIs
<1>2. Progress(d, next) OBVIOUS
<1> HIDE DEF next
<1> QED BY <1>1, <1>2, QuietReads

\* A step of a call that writes neither accounts nor sessions.
LEMMA ReadingBars ==
  ASSUME AccountsInv, BarredInv, UNCHANGED stored, \A c \in Calls : ReadsNothing(c) PROVE BarredInv'
<1>1. AccountsTypeOK /\ SessionsInv BY DEF AccountsInv
<1>2. NoneBarred /\ RowsStay BY DEF NoneBarred, RowsStay, stored
<1> QED BY <1>1, <1>2, BarredStays

\* A password is checked for an account that is active.
LEMMA SpawnHashBars == ASSUME AccountsInv, BarredInv, NEW d \in Calls, SpawnHash(d) PROVE BarredInv'
<1> DEFINE found == Credentials(calls[d].name)
           chosen == CHOOSE i \in found : TRUE
           read == IF found = {} THEN Nobody ELSE <<chosen, accounts[chosen].epoch>>
           next == [calls[d] EXCEPT !.at = "hashing", !.read = read]
<1>1. AccountsTypeOK /\ SessionsInv BY DEF AccountsInv
<1>2. Progress(d, next) /\ UNCHANGED stored BY DEF SpawnHash
<1>3. next.read = read BY <1>1 DEF AccountsTypeOK, CallType
<1>4. read # Nobody => accounts[read[1]].state = "active"
  <2> SUFFICES ASSUME found # {} PROVE accounts[chosen].state = "active" OBVIOUS
  <2>1. chosen \in found OBVIOUS
  <2> QED BY <2>1 DEF Credentials
<1> HIDE DEF read, next
<1>5. NoneBarred /\ RowsStay BY <1>2 DEF NoneBarred, RowsStay, stored
<1>6. \A n \in Nonces : RowLeft(sessions[n])' BY <1>1, <1>5, RowsLeft DEF RowsStay
<1>7. ASSUME NEW c \in Calls PROVE ReadLeft(calls[c])'
  <2>1. CASE c # d
    <3>1. ReadsNothing(c) BY <1>1, <1>2, <2>1, OthersRead
    <3> QED BY <1>1, <1>5, <3>1, ReadsLeft
  <2>2. CASE c = d
    <3>1. calls'[c] = next BY <1>1, <1>2, <2>2, OthersRead
    <3>2. accounts' = accounts BY <1>2 DEF stored
    <3> QED BY <1>3, <1>4, <3>1, <3>2 DEF ReadLeft, Hashes, Barred
  <2> QED BY <2>1, <2>2
<1> QED BY <1>6, <1>7 DEF BarredInv

\* A login writes what its password was checked against.
LEMMA LoginEndsBars == ASSUME AccountsInv, BarredInv, NEW d \in Calls, LoginEnds(d) PROVE BarredInv'
<1> DEFINE read == calls[d].read
           nonce == FreshNonce
           row == Session(read)
<1>1. AccountsTypeOK /\ SessionsInv BY DEF AccountsInv
<1>2. \E answer \in {"ok", "unknown", "authentication"} : Progress(d, Done(answer)) BY DEF LoginEnds, Leave
<1>3. \A c \in Calls : ReadsNothing(c) BY <1>1, <1>2, DoneReads
<1>4. accounts' = accounts BY DEF LoginEnds
<1>5. NoneBarred BY <1>4 DEF NoneBarred
<1>6. CASE ~(calls[d].right /\ read # Nobody)
  <2>1. sessions' = sessions BY <1>6 DEF LoginEnds
  <2>2. RowsStay BY <2>1 DEF RowsStay
  <2> QED BY <1>1, <1>3, <1>5, <2>2, BarredStays
<1>7. CASE calls[d].right /\ read # Nobody
  <2>1. sessions' = [sessions EXCEPT ![nonce] = row] BY <1>7 DEF LoginEnds
  <2>2. Hashes(calls[d]) BY <1>7 DEF Hashes, LoginEnds
  <2>3. ReadLeft(calls[d]) BY DEF BarredInv
  <2>4. Barred(read[1]) => read[2] < accounts[read[1]].epoch BY <2>2, <2>3 DEF ReadLeft
  <2>5. row.principal = read[1] /\ row.epoch = read[2] BY DEF Session, BoundEpoch
  <2> HIDE DEF read, row, nonce
  <2>6. ASSUME NEW n \in Nonces PROVE RowLeft(sessions[n])'
    <3>1. CASE sessions'[n] = row
      <4>1. sessions'[n].principal = read[1] /\ sessions'[n].epoch = read[2] BY <2>5, <3>1
      <4> QED BY <1>4, <2>4, <4>1 DEF RowLeft, Barred
    <3>2. CASE sessions'[n] = sessions[n] BY <1>1, <1>5, <3>2, RowsLeft
    <3> QED BY <1>1, <2>1, <3>1, <3>2 DEF AccountsTypeOK
  <2>7. \A c \in Calls : ReadLeft(calls[c])' BY <1>1, <1>3, <1>5, ReadsLeft
  <2> QED BY <2>6, <2>7 DEF BarredInv
<1> QED BY <1>6, <1>7

\* A new account is active.
LEMMA CreatedBars ==
  ASSUME AccountsTypeOK, \E i \in Ids : accounts[i].state = "unborn", NEW name, NEW tenant,
         accounts' = [accounts EXCEPT ![FreshId] = FreshAccount(name, tenant)]
  PROVE  NoneBarred
<1> DEFINE id == FreshId
           row == FreshAccount(name, tenant)
<1>1. row.state = "active" BY DEF FreshAccount
<1>2. accounts' = [accounts EXCEPT ![id] = row] OBVIOUS
<1> HIDE DEF id, row
<1>3. \A i \in Ids : accounts'[i] = accounts[i] \/ accounts'[i] = row BY <1>2 DEF AccountsTypeOK
<1> QED BY <1>1, <1>3 DEF NoneBarred

LEMMA RegisterEndsBars == ASSUME AccountsInv, BarredInv, NEW d \in Calls, RegisterEnds(d) PROVE BarredInv'
<1>1. AccountsTypeOK /\ SessionsInv BY DEF AccountsInv
<1>2. \E answer \in {"ok", "unknown", "rejected"} : Progress(d, Done(answer)) BY DEF RegisterEnds, Leave
<1>3. \A c \in Calls : ReadsNothing(c) BY <1>1, <1>2, DoneReads
<1>4. RowsStay BY DEF RegisterEnds, RowsStay
<1>5. NoneBarred
  <2>1. CASE Registers(calls[d])
    <3> DEFINE name == calls[d].name
               tenant == ""
    <3>1. /\ \E i \in Ids : accounts[i].state = "unborn"
          /\ accounts' = [accounts EXCEPT ![FreshId] = FreshAccount(name, tenant)]
      BY <2>1 DEF RegisterEnds
    <3> HIDE DEF name, tenant
    <3> QED BY <1>1, <3>1, CreatedBars
  <2>2. CASE ~Registers(calls[d])
    <3>1. accounts' = accounts BY <2>2 DEF RegisterEnds
    <3> QED BY <3>1 DEF NoneBarred
  <2> QED BY <2>1, <2>2
<1> QED BY <1>1, <1>3, <1>4, <1>5, BarredStays

\* A change of state leaves the account no session, and moves it past what was read.
LEMMA AccountStateBars ==
  ASSUME AccountsInv, BarredInv, NEW id \in Ids, NEW state \in States, AccountState(id, state)
  PROVE  BarredInv'
<1>1. AccountsTypeOK /\ SessionsInv BY DEF AccountsInv
<1>2. /\ accounts' = Changed(accounts, id, state) /\ calls' = calls
      /\ sessions' = [n \in Nonces |-> IF sessions[n] # Nobody /\ sessions[n].principal = id
                                       THEN Nobody ELSE sessions[n]]
  BY DEF AccountState, Changed
<1>3. /\ \A i \in Ids : i # id => accounts'[i] = accounts[i]
      /\ accounts'[id].epoch = accounts[id].epoch + 1
  <2>1. accounts \in [Ids -> AccountRow] BY <1>1 DEF AccountsTypeOK
  <2> DEFINE rows == accounts
             next == accounts'
  <2>2. rows \in [Ids -> AccountRow] /\ next = Changed(rows, id, state) BY <1>2, <2>1
  <2> HIDE DEF rows, next
  <2>3. (\A i \in Ids : i # id => next[i] = rows[i]) /\ Moved(rows[id], next[id], state) BY <2>2, StateChanged
  <2> QED BY <2>3 DEF rows, next, Moved
<1>4. accounts[id].epoch \in Nat BY <1>1, EpochType
<1>5. ASSUME NEW n \in Nonces PROVE RowLeft(sessions[n])'
  <2>1. CASE sessions'[n] = Nobody BY <2>1 DEF RowLeft
  <2>2. CASE sessions'[n] # Nobody
    <3>1. sessions'[n] = sessions[n] /\ sessions[n] # Nobody /\ sessions[n].principal # id BY <1>2, <2>2
    <3>2. sessions[n].principal \in Ids BY <1>1, <3>1, RowType
    <3>3. accounts'[sessions[n].principal] = accounts[sessions[n].principal] BY <1>3, <3>1, <3>2
    <3>4. RowLeft(sessions[n]) BY DEF BarredInv
    <3> QED BY <3>1, <3>3, <3>4 DEF RowLeft, Barred
  <2> QED BY <2>1, <2>2
<1>6. ASSUME NEW c \in Calls PROVE ReadLeft(calls[c])'
  <2> SUFFICES ASSUME Hashes(calls[c]) PROVE ReadLeft(calls[c])' BY <1>2 DEF ReadLeft, Hashes
  <2> DEFINE of == calls[c].read[1]
             e == calls[c].read[2]
  <2>1. of \in Ids /\ e \in Nat /\ e <= accounts[of].epoch BY <1>1, HashedIs
  <2>2. CASE of = id
    <3>1. e < accounts'[of].epoch
      <4> HIDE DEF of, e
      <4> QED BY <1>3, <1>4, <2>1, <2>2
    <3> QED BY <1>2, <3>1 DEF ReadLeft
  <2>3. CASE of # id
    <3>1. accounts'[of] = accounts[of] BY <1>3, <2>1, <2>3
    <3>2. ReadLeft(calls[c]) BY DEF BarredInv
    <3> QED BY <1>2, <3>1, <3>2 DEF ReadLeft, Hashes, Barred
  <2> QED BY <2>2, <2>3
<1> QED BY <1>5, <1>6 DEF BarredInv

LEMMA CallStepBars == ASSUME AccountsInv, BarredInv, NEW d \in Calls, CallStep(d) PROVE BarredInv'
<1>1. AccountsTypeOK /\ SessionsInv BY DEF AccountsInv
<1>2. CASE CheckCandidate(d)
  <2> DEFINE next == [calls[d] EXCEPT !.held = {<<SessionLane, "requests">>, <<SessionLane, "database">>}]
  <2>1. Progress(d, next) /\ calls[d].at = "candidate" /\ UNCHANGED stored BY <1>2 DEF CheckCandidate
  <2>2. next.at = "candidate" BY <1>1, <2>1 DEF AccountsTypeOK, CallType
  <2> HIDE DEF next
  <2> QED BY <1>1, <2>1, <2>2, QuietReads, ReadingBars
<1>3. CASE CandidateChecked(d)
  <2>1. UNCHANGED stored BY <1>3 DEF CandidateChecked
  <2>2. CASE Progress(d, Done("busy")) BY <1>1, <2>1, <2>2, DoneReads, ReadingBars
  <2>3. CASE \E who : Progress(d, [calls[d] EXCEPT !.at = "waiting", !.held = {}, !.who = who])
    <3>1. PICK who : Progress(d, [calls[d] EXCEPT !.at = "waiting", !.held = {}, !.who = who]) BY <2>3
    <3> DEFINE next == [calls[d] EXCEPT !.at = "waiting", !.held = {}, !.who = who]
    <3>2. next.at = "waiting" BY <1>1 DEF AccountsTypeOK, CallType
    <3>3. Progress(d, next) BY <3>1
    <3> HIDE DEF next
    <3> QED BY <1>1, <2>1, <3>2, <3>3, QuietReads, ReadingBars
  <2>4. CASE Progress(d, [calls[d] EXCEPT !.at = "waiting", !.held = {}])
    <3> DEFINE next == [calls[d] EXCEPT !.at = "waiting", !.held = {}]
    <3>2. next.at = "waiting" BY <1>1 DEF AccountsTypeOK, CallType
    <3>3. Progress(d, next) BY <2>4
    <3> HIDE DEF next
    <3> QED BY <1>1, <2>1, <3>2, <3>3, QuietReads, ReadingBars
  <2> QED BY <1>3, <2>2, <2>3, <2>4 DEF CandidateChecked
<1>4. CASE EnterLane(d)
  <2>1. PICK ps : Progress(d, [calls[d] EXCEPT !.at = "begun", !.held = ps]) BY <1>4 DEF EnterLane
  <2> DEFINE next == [calls[d] EXCEPT !.at = "begun", !.held = ps]
  <2>2. next.at = "begun" BY <1>1 DEF AccountsTypeOK, CallType
  <2>3. Progress(d, next) BY <2>1
  <2>4. UNCHANGED stored BY <1>4 DEF EnterLane
  <2> HIDE DEF next
  <2> QED BY <1>1, <2>2, <2>3, <2>4, QuietReads, ReadingBars
<1>5. CASE Malformed(d) BY <1>1, <1>5, DoneReads, ReadingBars DEF Malformed, Leave
<1>6. CASE ServePage(d)
  <2>1. Progress(d, calls'[d]) /\ calls'[d].at = "done" BY <1>1, <1>6, ServePageIs
  <2>2. UNCHANGED stored BY <1>6 DEF ServePage
  <2> QED BY <1>1, <2>1, <2>2, QuietReads, ReadingBars
<1>7. CASE Logout(d)
  <2>1. \E answer \in {"ok", "authentication"} : Progress(d, Done(answer)) BY <1>7 DEF Logout, Leave
  <2>2. \A c \in Calls : ReadsNothing(c) BY <1>1, <2>1, DoneReads
  <2>3. accounts' = accounts BY <1>7 DEF Logout
  <2>4. NoneBarred BY <2>3 DEF NoneBarred
  <2>5. sessions' = sessions \/ \E nonce : sessions' = [sessions EXCEPT ![nonce] = Nobody] BY <1>7 DEF Logout
  <2>6. RowsStay BY <1>1, <2>5 DEF RowsStay, AccountsTypeOK
  <2> QED BY <1>1, <2>2, <2>4, <2>6, BarredStays
<1>8. CASE RefuseHash(d) BY <1>1, <1>8, DoneReads, ReadingBars DEF RefuseHash, Leave
<1>9. CASE SpawnHash(d) BY <1>9, SpawnHashBars
<1>10. CASE HashEnds(d)
  <2>1. UNCHANGED stored BY <1>10 DEF HashEnds
  <2>2. CASE calls[d].at = "hashing"
    <3> DEFINE next == [calls[d] EXCEPT !.at = "hashed"]
    <3>1. Progress(d, next) BY <1>10, <2>2 DEF HashEnds
    <3>2. next.read = calls[d].read BY <1>1 DEF AccountsTypeOK, CallType
    <3> HIDE DEF next
    <3>3. ASSUME NEW c \in Calls PROVE ReadsNothing(c)
      <4>1. CASE c = d
        <5>1. calls'[c] = next BY <1>1, <3>1, <4>1, OthersRead
        <5> QED BY <2>2, <3>2, <4>1, <5>1 DEF ReadsNothing, Hashes
      <4> QED BY <1>1, <3>1, <4>1, OthersRead
    <3> QED BY <2>1, <3>3, ReadingBars
  <2>3. CASE calls[d].at # "hashing"
    <3>1. calls' = calls BY <1>10, <2>3 DEF HashEnds
    <3> QED BY <2>1, <3>1, SameReads, ReadingBars
  <2> QED BY <2>2, <2>3
<1>11. CASE LoginEnds(d) BY <1>11, LoginEndsBars
<1>12. CASE RegisterEnds(d) BY <1>12, RegisterEndsBars
<1>13. CASE Deadline(d) BY <1>1, <1>13, DoneReads, ReadingBars DEF Deadline
<1> QED BY <1>2, <1>3, <1>4, <1>5, <1>6, <1>7, <1>8, <1>9, <1>10, <1>11, <1>12, <1>13 DEF CallStep

LEMMA BarredStep == ASSUME AccountsInv, BarredInv, [AccountsNext]_accountsVars PROVE BarredInv'
<1>1. AccountsTypeOK /\ SessionsInv BY DEF AccountsInv
<1>2. ASSUME UNCHANGED <<accounts, sessions, calls>> PROVE BarredInv'
  <2>1. NoneBarred /\ RowsStay BY <1>2 DEF NoneBarred, RowsStay
  <2>2. \A c \in Calls : ReadsNothing(c) BY <1>2, SameReads
  <2> QED BY <1>1, <2>1, <2>2, BarredStays
<1>3. ASSUME NEW d \in Calls, Arrivals(d) PROVE BarredInv'
  <2>1. PICK offered \in Traffic, cookie \in cookies \cup {Nobody} : Arrive(d, offered, cookie) BY <1>3 DEF Arrivals
  <2>2. UNCHANGED stored BY <2>1 DEF Arrive
  <2>3. \E next : Progress(d, next) /\ next.read = Nobody
    <3> DEFINE places == CASE ~(offered.peer = Nobody \/ Affords(offered.peer, COST[ClassOf(offered.kind)])) -> "done"
                           [] /\ offered.peer = Nobody \/ Affords(offered.peer, COST[ClassOf(offered.kind)])
                              /\ ClassOf(offered.kind) # "PasswordHash" /\ Verified(cookie) -> "candidate"
                           [] OTHER -> "waiting"
               answer == IF offered.peer = Nobody \/ Affords(offered.peer, COST[ClassOf(offered.kind)])
                         THEN Nobody ELSE "busy"
               next == [Resting EXCEPT !.kind = offered.kind, !.peer = offered.peer, !.cookie = cookie,
                                       !.name = offered.name, !.code = offered.code, !.right = offered.right,
                                       !.answer = answer, !.at = places]
    <3>1. Progress(d, next) BY <2>1 DEF Arrive
    <3> HIDE DEF places, answer
    <3>2. next.read = Nobody BY DEF Resting
    <3> HIDE DEF next
    <3> QED BY <3>1, <3>2
  <2>3a. PICK next : Progress(d, next) /\ next.read = Nobody BY <2>3
  <2>4. ASSUME NEW c \in Calls PROVE ReadsNothing(c)
    <3>1. CASE c = d
      <4>1. calls'[c] = next BY <1>1, <2>3a, <3>1, OthersRead
      <4> QED BY <2>3a, <4>1 DEF ReadsNothing, Hashes
    <3> QED BY <1>1, <2>3a, <3>1, OthersRead
  <2> QED BY <2>2, <2>4, ReadingBars
<1>4. ASSUME NEW name \in Logins, CreateAccount(name) PROVE BarredInv'
  <2> DEFINE tenant == "team"
  <2>1. /\ \E i \in Ids : accounts[i].state = "unborn"
        /\ accounts' = [accounts EXCEPT ![FreshId] = FreshAccount(name, tenant)]
    BY <1>4 DEF CreateAccount
  <2> HIDE DEF tenant
  <2>2. NoneBarred BY <1>1, <2>1, CreatedBars
  <2>3. RowsStay /\ calls' = calls BY <1>4 DEF CreateAccount, RowsStay
  <2>4. \A c \in Calls : ReadsNothing(c) BY <2>3, SameReads
  <2> QED BY <1>1, <2>2, <2>3, <2>4, BarredStays
<1>5. ASSUME NEW id \in Ids, NEW state \in {"active", "disabled", "deleted"}, AccountState(id, state) PROVE BarredInv'
  BY <1>5, AccountStateBars DEF States
<1>6. ASSUME NEW id \in Ids, NEW role \in Roles, GrantRole(id, role) \/ RevokeRole(id, role) PROVE BarredInv'
  BY <1>2, <1>6 DEF GrantRole, RevokeRole
<1>7. ASSUME NEW code \in Codes, MintInvite(code) PROVE BarredInv' BY <1>2, <1>7 DEF MintInvite
<1>8. ASSUME KeysLost \/ Pass PROVE BarredInv' BY <1>2, <1>8 DEF KeysLost, Pass, stored
<1>9. ASSUME NEW fresh \in BOOLEAN, Restart(fresh) PROVE BarredInv'
  <2>1. UNCHANGED stored /\ \A c \in Calls : calls'[c] = Resting BY <1>9 DEF Restart
  <2>2. \A c \in Calls : ReadsNothing(c) BY <2>1 DEF ReadsNothing, Hashes, Resting
  <2> QED BY <2>1, <2>2, ReadingBars
<1>10. ASSUME UNCHANGED accountsVars PROVE BarredInv' BY <1>2, <1>10 DEF accountsVars
<1> QED BY <1>3, <1>4, <1>5, <1>6, <1>7, <1>8, <1>9, <1>10, CallStepBars DEF AccountsNext

LEMMA BarredStarts == ASSUME AccountsInit PROVE BarredInv
  BY DEF AccountsInit, BarredInv, RowLeft, ReadLeft, Hashes, Resting

-----------------------------------------------------------------------------
(* Who is served.                                                          *)

\* A request about to be answered, that a step does not answer for a user.
Unserved(c) ==
    calls[c].at = "begun" => \/ calls'[c] = calls[c] \/ calls'[c].at # "done"
                             \/ calls'[c].answer # "served"
Safe(c) == Unserved(c) \/ calls'[c].read \notin revoked

LEMMA ProgressUnserved ==
  ASSUME AccountsTypeOK, NEW d \in Calls, NEW next, Progress(d, next),
         calls[d].at # "begun" \/ next.at # "done" \/ next.answer # "served", NEW c \in Calls
  PROVE  Unserved(c)
<1>1. calls'[c] = IF c = d THEN next ELSE calls[c] BY DEF Progress, AccountsTypeOK
<1> QED BY <1>1 DEF Unserved

LEMMA DoneUnserved ==
  ASSUME AccountsTypeOK, NEW d \in Calls, NEW answer, answer # "served", Progress(d, Done(answer)), NEW c \in Calls
  PROVE  Unserved(c)
<1> DEFINE next == Done(answer)
<1>1. next.answer = answer BY DoneIs
<1> HIDE DEF next
<1>2. Progress(d, next) BY DEF next
<1> QED BY <1>1, <1>2, ProgressUnserved

\* A session that was ended authenticates nobody.
LEMMA OutdatedIsRefused ==
  ASSUME AccountsTypeOK, SessionsInv, NEW k \in Cookie, Authenticated(k) PROVE k.nonce \notin revoked
<1>1. SUFFICES ASSUME k.nonce \in revoked PROVE FALSE OBVIOUS
<1> DEFINE row == sessions[k.nonce]
<1>2. row # Nobody /\ row.epoch = accounts[row.principal].epoch BY DEF Authenticated, SessionAccount
<1>3. row.epoch < accounts[row.principal].epoch BY <1>1, <1>2 DEF SessionsInv, Outdated
<1>4. k.nonce \in Nonces BY DEF Cookie
<1>5. row \in SessionRow BY <1>2, <1>4 DEF AccountsTypeOK
<1> HIDE DEF row
<1>6. row.epoch \in Nat BY <1>5 DEF SessionRow
<1> QED BY <1>2, <1>3, <1>6

LEMMA ServePageSafe ==
  ASSUME AccountsInv, NEW d \in Calls, ServePage(d), NEW c \in Calls PROVE Safe(c)
<1>1. AccountsTypeOK /\ SessionsInv BY DEF AccountsInv
<1>2. /\ Progress(d, calls'[d]) /\ calls'[d].read = IF RouteUser(calls[d]) THEN calls[d].cookie.nonce ELSE Nobody
  BY <1>1, ServePageIs
<1>3. CASE c # d
  <2>1. calls'[c] = calls[c] BY <1>1, <1>2, <1>3 DEF Progress, AccountsTypeOK
  <2> QED BY <2>1 DEF Safe, Unserved
<1>4. CASE c = d
  <2>1. CASE RouteUser(calls[d])
    <3>1. calls[d].cookie \in Cookie BY <1>1, <2>1 DEF AccountsTypeOK, CallType, RouteUser, Authenticated, Verified
    <3>2. calls[d].cookie.nonce \notin revoked BY <1>1, <2>1, <3>1, OutdatedIsRefused DEF RouteUser
    <3> QED BY <1>2, <1>4, <2>1, <3>2 DEF Safe
  <2>2. CASE ~RouteUser(calls[d])
    <3>1. Nobody \notin revoked BY <1>1, AccountsAssumption DEF AccountsTypeOK
    <3> QED BY <1>2, <1>4, <2>2, <3>1 DEF Safe
  <2> QED BY <2>1, <2>2
<1> QED BY <1>3, <1>4

LEMMA CallStepSafe == ASSUME AccountsInv, NEW d \in Calls, CallStep(d), NEW c \in Calls PROVE Safe(c)
<1>1. AccountsTypeOK BY DEF AccountsInv
<1>2. CASE CheckCandidate(d)
  <2>1. calls[d].at # "begun" /\ \E next : Progress(d, next) BY <1>2 DEF CheckCandidate
  <2> QED BY <1>1, <2>1, ProgressUnserved DEF Safe
<1>3. CASE CandidateChecked(d)
  <2>1. calls[d].at # "begun" /\ \E next : Progress(d, next) BY <1>3 DEF CandidateChecked
  <2> QED BY <1>1, <2>1, ProgressUnserved DEF Safe
<1>4. CASE EnterLane(d)
  <2>1. calls[d].at # "begun" /\ \E next : Progress(d, next) BY <1>4 DEF EnterLane
  <2> QED BY <1>1, <2>1, ProgressUnserved DEF Safe
<1>5. CASE Malformed(d) BY <1>1, <1>5, DoneUnserved DEF Malformed, Leave, Safe
<1>6. CASE ServePage(d) BY <1>6, ServePageSafe
<1>7. CASE Logout(d)
  <2>1. \E answer \in {"ok", "authentication"} : Progress(d, Done(answer)) BY <1>7 DEF Logout, Leave
  <2> QED BY <1>1, <2>1, DoneUnserved DEF Safe
<1>8. CASE RefuseHash(d) BY <1>1, <1>8, DoneUnserved DEF RefuseHash, Leave, Safe
<1>9. CASE SpawnHash(d)
  <2>1. \E read : Progress(d, [calls[d] EXCEPT !.at = "hashing", !.read = read]) BY <1>9 DEF SpawnHash
  <2>2. PICK read : Progress(d, [calls[d] EXCEPT !.at = "hashing", !.read = read]) BY <2>1
  <2>3. [calls[d] EXCEPT !.at = "hashing", !.read = read].at # "done" BY <1>1 DEF AccountsTypeOK, CallType
  <2> QED BY <1>1, <2>2, <2>3, ProgressUnserved DEF Safe
<1>10. CASE HashEnds(d)
  <2>1. CASE calls[d].at = "hashing"
    <3>1. calls[d].at # "begun" /\ \E next : Progress(d, next) BY <1>10, <2>1 DEF HashEnds
    <3> QED BY <1>1, <3>1, ProgressUnserved DEF Safe
  <2>2. CASE calls[d].at # "hashing"
    <3>1. calls' = calls BY <1>10, <2>2 DEF HashEnds
    <3> QED BY <3>1 DEF Safe, Unserved
  <2> QED BY <2>1, <2>2
<1>11. CASE LoginEnds(d)
  <2>1. calls[d].at # "begun" /\ \E next : Progress(d, next) BY <1>11 DEF LoginEnds, Leave
  <2> QED BY <1>1, <2>1, ProgressUnserved DEF Safe
<1>12. CASE RegisterEnds(d)
  <2>1. calls[d].at # "begun" /\ \E next : Progress(d, next) BY <1>12 DEF RegisterEnds, Leave
  <2> QED BY <1>1, <2>1, ProgressUnserved DEF Safe
<1>13. CASE Deadline(d) BY <1>1, <1>13, DoneUnserved DEF Deadline, Safe
<1> QED BY <1>2, <1>3, <1>4, <1>5, <1>6, <1>7, <1>8, <1>9, <1>10, <1>11, <1>12, <1>13 DEF CallStep

LEMMA ServedSafely == ASSUME AccountsInv, [AccountsNext]_accountsVars, NEW c \in Calls PROVE Safe(c)
<1>1. AccountsTypeOK BY DEF AccountsInv
<1>2. CASE calls' = calls BY <1>2 DEF Safe, Unserved
<1>3. ASSUME NEW d \in Calls, Arrivals(d) PROVE Safe(c)
  <2>1. calls[d].at # "begun" /\ \E next : Progress(d, next) BY <1>3 DEF Arrivals, Arrive
  <2> QED BY <1>1, <2>1, ProgressUnserved DEF Safe
<1>4. ASSUME NEW fresh \in BOOLEAN, Restart(fresh) PROVE Safe(c)
  <2>1. calls'[c] = Resting BY <1>4 DEF Restart
  <2> QED BY <2>1 DEF Safe, Unserved, Resting
<1>5. ASSUME UNCHANGED accountsVars PROVE Safe(c) BY <1>2, <1>5 DEF accountsVars
<1>6. ASSUME NEW name \in Logins, CreateAccount(name) PROVE Safe(c) BY <1>2, <1>6 DEF CreateAccount
<1>7. ASSUME NEW id \in Ids, NEW state, AccountState(id, state) PROVE Safe(c) BY <1>2, <1>7 DEF AccountState
<1>8. ASSUME NEW id \in Ids, NEW role \in Roles, GrantRole(id, role) \/ RevokeRole(id, role) PROVE Safe(c)
  BY <1>2, <1>8 DEF GrantRole, RevokeRole
<1>9. ASSUME NEW code \in Codes, MintInvite(code) PROVE Safe(c) BY <1>2, <1>9 DEF MintInvite
<1>10. ASSUME KeysLost \/ Pass PROVE Safe(c) BY <1>2, <1>10 DEF KeysLost, Pass
<1> QED BY <1>1, <1>3, <1>4, <1>5, <1>6, <1>7, <1>8, <1>9, <1>10, CallStepSafe DEF AccountsNext

\* What an account's rows, the permits and the circuits hold about one another,
\* whatever the requests, the deadlines, the operators and the restarts do.
THEOREM AccountsInvariant == AccountsSpec => []AccountsInv
<1>1. AccountsInit => AccountsInv BY AccountsStarts
<1>2. AccountsInv /\ [AccountsNext]_accountsVars => AccountsInv' BY AccountsStep
<1> QED BY <1>1, <1>2, PTL DEF AccountsSpec

\* The permits of every lane cover the work that runs, a password worker whose
\* request has timed out included (`Argon2`, `Lanes`); an account registered by
\* invitation redeemed one of its own (`register`); a session written for an
\* account that is disabled or gone is bound to an epoch the account has left
\* (`login`, `account_state`); the circuit table keeps its capacity and the order
\* of use across the renumbering (`Buckets::charge`).
THEOREM LimitsAreKept == AccountsSpec => []LimitsKept
<1>1. BarredInv => BarredSessionsLeft BY DEF BarredInv, RowLeft, BarredSessionsLeft
<1>2. AccountsInv /\ BarredInv => LimitsKept BY <1>1 DEF AccountsInv, PermitsInv, CircuitsInv, LimitsKept
<1>3. AccountsInit => BarredInv BY BarredStarts
<1>4. AccountsInv /\ BarredInv /\ [AccountsNext]_accountsVars => BarredInv' BY BarredStep
<1> QED BY <1>2, <1>3, <1>4, AccountsInvariant, PTL DEF AccountsSpec

\* No request is served as a user by a session that a logout or a change of its
\* account has ended (`authenticate`, `SESSION_ACCOUNT`, `login`).
THEOREM RevokedAreRefused == AccountsSpec => RevokedNeverServed
<1>1. ASSUME AccountsInv, [AccountsNext]_accountsVars
      PROVE  [\A c \in Calls : calls[c].at = "begun" /\ calls'[c].at = "done" /\ calls'[c].answer = "served" =>
                 calls'[c].read \notin revoked]_accountsVars
  <2> SUFFICES ASSUME NEW c \in Calls, calls[c].at = "begun", calls'[c].at = "done", calls'[c].answer = "served"
               PROVE  calls'[c].read \notin revoked
    OBVIOUS
  <2>1. Safe(c) BY <1>1, ServedSafely
  <2>2. calls'[c] # calls[c] OBVIOUS
  <2> QED BY <2>1, <2>2 DEF Safe, Unserved
<1> QED BY <1>1, AccountsInvariant, PTL DEF AccountsSpec, RevokedNeverServed

-----------------------------------------------------------------------------
(* The guest pool.  Types.                                                 *)

Keys == {offer[1] : offer \in Offers} \cup {Anybody, Single, NoWorker}
Stamps == Keys \X Nat \X (Attempts \cup {0})
IdleWorker == [id : Nat, served : Nat, key : Keys]
Message == {"START", "KILL"} \X Nat
Reply == {"READY", "FAILED"} \X Nat
PoolType == [size : Concurrencies, idle : Seq(IdleWorker), live : Int, starting : Int, waiting : Int,
             asking : Int, sent : Seq(Message)]
BrokerType == [alive : BOOLEAN, replies : Seq(Reply), starting : SUBSET Nat, children : SUBSET Nat, next : Nat]
ProcessType == [alive : BOOLEAN, runs : Nat, seen : SUBSET Stamps, stale : Nat, escaped : BOOLEAN]
Places == {"idle", "done", "look", "evict", "add", "wait", "running", "asked"}
Grants == {"none", "route", "action", "bare", "capability"}
TryType == [at : Places, key : Keys, grant : Grants, ahead : Int,
            worker : Nat \cup {NoWorker}, served : Nat, calls : Nat, failure : BOOLEAN,
            own : Nat, pending : Nat, doing : {"guest", "flush", "ask"}, next : {"ask", "report"},
            outcome : {"Output", "Failed", "Deadline"}, left : BOOLEAN, over : BOOLEAN, stored : Nat,
            result : {"none", "page", "deadline", "failed", "gone"}]
GuestsTypeOK ==
    /\ pool \in PoolType /\ broker \in BrokerType
    /\ process \in [ProcessIds -> ProcessType] /\ arriving \in SUBSET Nat
    /\ tries \in [Attempts -> TryType] /\ woken \in SUBSET Attempts /\ made \in Nat

-----------------------------------------------------------------------------
(* Every process has one holder.                                           *)

Working == {"running", "asked"}
IdsOf(seq) == {seq[i].id : i \in DOMAIN seq}
IdleIds == IdsOf(pool.idle)
BusyIds == {tries[a].worker : a \in Busy}
Answered(seq) == {seq[i][2] : i \in DOMAIN seq}
ReplyIds == Answered(broker.replies)
Distinct(seq) == \A i, j \in DOMAIN seq : seq[i].id = seq[j].id => i = j
AnsweredOnce(seq) == \A i, j \in DOMAIN seq : seq[i][2] = seq[j][2] => i = j

\* An attempt has a worker exactly as long as it is in its exchange, and nobody
\* has the worker of another; every id held has been given out by the broker.
HeldOnce ==
    /\ \A a \in Attempts : tries[a].at \in Working <=> tries[a].worker # NoWorker
    /\ \A a, b \in Busy : tries[a].worker = tries[b].worker => a = b
    /\ Distinct(pool.idle) /\ AnsweredOnce(broker.replies)
HeldApart ==
    /\ IdleIds \cap BusyIds = {} /\ IdleIds \cap arriving = {}
    /\ IdleIds \cap ReplyIds = {} /\ IdleIds \cap broker.starting = {}
    /\ BusyIds \cap arriving = {} /\ BusyIds \cap ReplyIds = {} /\ BusyIds \cap broker.starting = {}
    /\ arriving \cap ReplyIds = {} /\ arriving \cap broker.starting = {}
    /\ ReplyIds \cap broker.starting = {}
HeldKnown ==
    /\ broker.next <= MaxStarts[pool.size]
    /\ IdleIds \cup BusyIds \cup arriving \cup ReplyIds \cup broker.starting \subseteq 1 .. broker.next

-----------------------------------------------------------------------------
(* What a process has seen.                                                *)

\* The runs of an idle worker are those it is said to have served, for its key;
\* one that has served nobody has seen nobody.
IdleFits(e, p) ==
    /\ p.runs <= e.served /\ e.served < RETIRE_AFTER
    /\ e.key = NoWorker => e.served = 0 /\ p.seen = {}
    /\ e.key # NoWorker => e.key # Single /\ p.seen \subseteq {<<e.key, 0, 0>>}
BusyFits(t, p) ==
    /\ p.runs <= t.served + 1 /\ t.served < RETIRE_AFTER
    /\ t.key # Single => p.seen \subseteq {<<t.key, 0, 0>>}
Fresh(p) == p.runs = 0 /\ p.seen = {}
Coming == arriving \cup ReplyIds \cup broker.starting
Isolated ==
    /\ \A i \in DOMAIN pool.idle : IdleFits(pool.idle[i], process[pool.idle[i].id])
    /\ \A a \in Busy : BusyFits(tries[a], process[tries[a].worker])
    /\ \A a \in Attempts : tries[a].at \notin {"idle", "done"} => tries[a].key # NoWorker
    /\ \A id \in Coming : Fresh(process[id])
    /\ \A id \in ProcessIds : id > broker.next => process[id] = Unborn
    /\ \A id \in ProcessIds : process[id].runs <= RETIRE_AFTER /\ \E x : process[id].seen \subseteq {x}

-----------------------------------------------------------------------------
(* Processes, wakeups and budgets.                                         *)

\* The broker knows every process that lives, and a start that failed left none.
Listed ==
    /\ broker.alive => \A id \in ProcessIds : process[id].alive => id \in broker.children
    /\ \A i \in DOMAIN broker.replies : broker.replies[i][1] # "READY" => ~process[broker.replies[i][2]].alive

\* An attempt that has looked and was not told since has nothing to take.
Uninformed == {"evict", "add", "wait"}
Informed ==
    \A a \in Attempts : tries[a].at \in Uninformed /\ a \notin woken => Suitable(pool, tries[a].key) = {}

\* What a worker that keeps to the protocol may still ask for is within what
\* the server counts.
Owed(t) == t.own + t.pending + IF t.doing = "flush" /\ t.next = "ask" THEN 1 ELSE 0
Credit(t) == t.stored + t.calls + IF t.at = "asked" THEN 1 ELSE 0
Affordable(t, p) == p.alive /\ ~p.escaped => Owed(t) <= t.calls
Honest(t) == ~t.over /\ (t.at = "done" /\ t.result = "page" => ~t.failure)
BudgetInv ==
    \A a \in Attempts :
       /\ Credit(tries[a]) <= HOST_CALLS /\ Honest(tries[a])
       /\ tries[a].at \in Working => Affordable(tries[a], process[tries[a].worker])

GuestsInv ==
    /\ GuestsTypeOK /\ HeldOnce /\ HeldApart /\ HeldKnown /\ Isolated /\ SlotsCovered
    /\ Listed /\ KillsFind /\ Informed /\ BudgetInv

-----------------------------------------------------------------------------
(* Lists of idle workers and of replies.                                   *)

\* take removes the worker it found, and no other.
LEMMA SwapRemovedIdle ==
    ASSUME NEW s \in Seq(IdleWorker), Distinct(s), NEW i \in DOMAIN s
    PROVE  /\ SwapRemoved(s, i) \in Seq(IdleWorker) /\ Distinct(SwapRemoved(s, i))
           /\ Len(SwapRemoved(s, i)) = Len(s) - 1
           /\ IdsOf(SwapRemoved(s, i)) = IdsOf(s) \ {s[i].id}
           /\ \A j \in DOMAIN SwapRemoved(s, i) : \E k \in DOMAIN s : SwapRemoved(s, i)[j] = s[k]
<1> DEFINE t == SwapRemoved(s, i)
<1>1. /\ t \in Seq(IdleWorker) /\ Len(t) = Len(s) - 1 /\ Len(s) \in Nat /\ DOMAIN s = 1 .. Len(s)
      /\ DOMAIN t = 1 .. Len(s) - 1
  BY DEF SwapRemoved
<1>2. \A j \in DOMAIN t : t[j] = IF j = i THEN s[Len(s)] ELSE s[j] BY <1>1 DEF SwapRemoved
<1> HIDE DEF t
<1>3. Distinct(t) BY <1>1, <1>2 DEF Distinct
<1>4. \A j \in DOMAIN t : \E k \in DOMAIN s : t[j] = s[k] BY <1>1, <1>2
<1>5. ASSUME NEW x \in IdsOf(t) PROVE x \in IdsOf(s) \ {s[i].id}
  <2>1. PICK j \in DOMAIN t : x = t[j].id BY <1>5 DEF IdsOf
  <2> QED BY <1>1, <1>2, <2>1 DEF IdsOf, Distinct
<1>6. ASSUME NEW x \in IdsOf(s), x # s[i].id PROVE x \in IdsOf(t)
  <2>1. PICK j \in DOMAIN s : x = s[j].id BY <1>6 DEF IdsOf
  <2>2. CASE j = Len(s)
    <3>1. i \in DOMAIN t /\ t[i] = s[j] BY <1>1, <1>2, <1>6, <2>1, <2>2
    <3> QED BY <2>1, <3>1 DEF IdsOf
  <2>3. CASE j # Len(s)
    <3>1. j \in DOMAIN t /\ t[j] = s[j] BY <1>1, <1>2, <1>6, <2>1, <2>3
    <3> QED BY <2>1, <3>1 DEF IdsOf
  <2> QED BY <2>2, <2>3
<1>7. IdsOf(t) = IdsOf(s) \ {s[i].id} BY <1>5, <1>6
<1> QED BY <1>1, <1>3, <1>4, <1>7 DEF t

\* evict_one removes the first.
LEMMA TailIdle ==
    ASSUME NEW s \in Seq(IdleWorker), Distinct(s), s # << >>
    PROVE  /\ Tail(s) \in Seq(IdleWorker) /\ Distinct(Tail(s)) /\ Len(Tail(s)) = Len(s) - 1
           /\ Head(s) \in IdleWorker /\ Head(s).id \in IdsOf(s)
           /\ IdsOf(Tail(s)) = IdsOf(s) \ {Head(s).id}
           /\ \A j \in DOMAIN Tail(s) : \E k \in DOMAIN s : Tail(s)[j] = s[k]
<1> DEFINE t == Tail(s)
<1>1. /\ t \in Seq(IdleWorker) /\ Len(t) = Len(s) - 1 /\ Len(s) \in Nat /\ DOMAIN s = 1 .. Len(s)
      /\ DOMAIN t = 1 .. Len(s) - 1 /\ Head(s) \in IdleWorker /\ Head(s) = s[1] /\ Len(s) > 0
  OBVIOUS
<1>2. \A j \in DOMAIN t : t[j] = s[j + 1] BY <1>1
<1> HIDE DEF t
<1>3. Distinct(t) BY <1>1, <1>2 DEF Distinct
<1>4. \A j \in DOMAIN t : \E k \in DOMAIN s : t[j] = s[k] BY <1>1, <1>2
<1>5. ASSUME NEW x \in IdsOf(t) PROVE x \in IdsOf(s) \ {s[1].id}
  <2>1. PICK j \in DOMAIN t : x = t[j].id BY <1>5 DEF IdsOf
  <2> QED BY <1>1, <1>2, <2>1 DEF IdsOf, Distinct
<1>6. ASSUME NEW x \in IdsOf(s), x # s[1].id PROVE x \in IdsOf(t)
  <2>1. PICK j \in DOMAIN s : x = s[j].id BY <1>6 DEF IdsOf
  <2>2. j - 1 \in DOMAIN t /\ t[j - 1] = s[j] BY <1>1, <1>2, <1>6, <2>1
  <2> QED BY <2>1, <2>2 DEF IdsOf
<1>7. Head(s).id \in IdsOf(s) BY <1>1 DEF IdsOf
<1>8. IdsOf(t) = IdsOf(s) \ {Head(s).id} BY <1>1, <1>5, <1>6
<1> QED BY <1>1, <1>3, <1>4, <1>7, <1>8 DEF t

\* park adds a worker that was not there.
LEMMA AppendIdle ==
    ASSUME NEW s \in Seq(IdleWorker), Distinct(s), NEW e \in IdleWorker, e.id \notin IdsOf(s)
    PROVE  /\ Append(s, e) \in Seq(IdleWorker) /\ Distinct(Append(s, e)) /\ Len(Append(s, e)) = Len(s) + 1
           /\ IdsOf(Append(s, e)) = IdsOf(s) \cup {e.id}
           /\ \A j \in DOMAIN Append(s, e) : Append(s, e)[j] = e \/ \E k \in DOMAIN s : Append(s, e)[j] = s[k]
<1> DEFINE t == Append(s, e)
<1>1. /\ t \in Seq(IdleWorker) /\ Len(t) = Len(s) + 1 /\ Len(s) \in Nat /\ DOMAIN s = 1 .. Len(s)
      /\ DOMAIN t = 1 .. Len(s) + 1
  OBVIOUS
<1>2. t[Len(s) + 1] = e /\ \A j \in DOMAIN s : t[j] = s[j] BY <1>1
<1> HIDE DEF t
<1>3. \A j \in DOMAIN s : s[j].id # e.id BY DEF IdsOf
<1>4. Distinct(t) BY <1>1, <1>2, <1>3 DEF Distinct
<1>5. \A j \in DOMAIN t : t[j] = e \/ \E k \in DOMAIN s : t[j] = s[k] BY <1>1, <1>2
<1>6. \A j \in DOMAIN s : j \in DOMAIN t /\ s[j] = t[j] BY <1>1, <1>2
<1>7. Len(s) + 1 \in DOMAIN t BY <1>1
<1>8. IdsOf(t) = IdsOf(s) \cup {e.id} BY <1>2, <1>5, <1>6, <1>7 DEF IdsOf
<1> QED BY <1>1, <1>4, <1>5, <1>8 DEF t

\* worker() reads the oldest reply.
LEMMA TailReplies ==
    ASSUME NEW s \in Seq(Reply), AnsweredOnce(s), s # << >>
    PROVE  /\ Tail(s) \in Seq(Reply) /\ AnsweredOnce(Tail(s))
           /\ Head(s) \in Reply /\ 1 \in DOMAIN s /\ Head(s) = s[1] /\ Head(s)[2] \in Answered(s)
           /\ Answered(Tail(s)) = Answered(s) \ {Head(s)[2]}
           /\ \A j \in DOMAIN Tail(s) : \E k \in DOMAIN s : Tail(s)[j] = s[k]
<1> DEFINE t == Tail(s)
<1>1. /\ t \in Seq(Reply) /\ Len(t) = Len(s) - 1 /\ Len(s) \in Nat /\ DOMAIN s = 1 .. Len(s)
      /\ DOMAIN t = 1 .. Len(s) - 1 /\ Head(s) \in Reply /\ Head(s) = s[1] /\ Len(s) > 0
  OBVIOUS
<1>2. \A j \in DOMAIN t : t[j] = s[j + 1] BY <1>1
<1> HIDE DEF t
<1>3. AnsweredOnce(t) BY <1>1, <1>2 DEF AnsweredOnce
<1>4. \A j \in DOMAIN t : \E k \in DOMAIN s : t[j] = s[k] BY <1>1, <1>2
<1>5. ASSUME NEW x \in Answered(t) PROVE x \in Answered(s) \ {s[1][2]}
  <2>1. PICK j \in DOMAIN t : x = t[j][2] BY <1>5 DEF Answered
  <2> QED BY <1>1, <1>2, <2>1 DEF Answered, AnsweredOnce
<1>6. ASSUME NEW x \in Answered(s), x # s[1][2] PROVE x \in Answered(t)
  <2>1. PICK j \in DOMAIN s : x = s[j][2] BY <1>6 DEF Answered
  <2>2. j - 1 \in DOMAIN t /\ t[j - 1] = s[j] BY <1>1, <1>2, <1>6, <2>1
  <2> QED BY <2>1, <2>2 DEF Answered
<1>7. Head(s)[2] \in Answered(s) /\ 1 \in DOMAIN s BY <1>1 DEF Answered
<1>8. Answered(t) = Answered(s) \ {Head(s)[2]} BY <1>1, <1>5, <1>6
<1> QED BY <1>1, <1>3, <1>4, <1>7, <1>8 DEF t

\* The broker answers each start once.
LEMMA AppendReplies ==
    ASSUME NEW s \in Seq(Reply), AnsweredOnce(s), NEW e \in Reply, e[2] \notin Answered(s)
    PROVE  /\ Append(s, e) \in Seq(Reply) /\ AnsweredOnce(Append(s, e))
           /\ Answered(Append(s, e)) = Answered(s) \cup {e[2]}
           /\ \A j \in DOMAIN Append(s, e) : Append(s, e)[j] = e \/ \E k \in DOMAIN s : Append(s, e)[j] = s[k]
<1> DEFINE t == Append(s, e)
<1>1. /\ t \in Seq(Reply) /\ Len(t) = Len(s) + 1 /\ Len(s) \in Nat /\ DOMAIN s = 1 .. Len(s)
      /\ DOMAIN t = 1 .. Len(s) + 1
  OBVIOUS
<1>2. t[Len(s) + 1] = e /\ \A j \in DOMAIN s : t[j] = s[j] BY <1>1
<1> HIDE DEF t
<1>3. \A j \in DOMAIN s : s[j][2] # e[2] BY DEF Answered
<1>4. AnsweredOnce(t) BY <1>1, <1>2, <1>3 DEF AnsweredOnce
<1>5. \A j \in DOMAIN t : t[j] = e \/ \E k \in DOMAIN s : t[j] = s[k] BY <1>1, <1>2
<1>6. \A j \in DOMAIN s : j \in DOMAIN t /\ s[j] = t[j] BY <1>1, <1>2
<1>7. Len(s) + 1 \in DOMAIN t BY <1>1
<1>8. Answered(t) = Answered(s) \cup {e[2]} BY <1>2, <1>5, <1>6, <1>7 DEF Answered
<1> QED BY <1>1, <1>4, <1>5, <1>8 DEF t


-----------------------------------------------------------------------------
(* What the functions of the pool return.                                  *)

\* q is p with more workers being started, within the concurrency, and more
\* messages sent after those of p.
Extends(t, s) == \A i \in DOMAIN s : i \in DOMAIN t /\ t[i] = s[i]
Grown(p, q) ==
    /\ q \in PoolType /\ q.size = p.size /\ q.idle = p.idle /\ q.waiting = p.waiting
    /\ \E n \in Nat : /\ q.live = p.live + n /\ q.starting = p.starting + n /\ q.asking = p.asking + n
                      /\ p.live <= p.size => q.live <= q.size
    /\ Extends(q.sent, p.sent)

LEMMA SizeType == \A size \in Concurrencies : size \in Nat /\ size > 0
BY GuestsAssumption

\* add_worker.
LEMMA AddedGrows ==
    ASSUME NEW p \in PoolType, NEW times \in Nat
    PROVE  Grown(p, Added(p, times))
<1> DEFINE n == IF times < Room(p) THEN times ELSE Room(p)
           more == [i \in 1 .. n |-> <<"START", 0>>]
           sent == IF broker.alive THEN p.sent \o more ELSE p.sent
<1>1. p.size \in Nat /\ p.live \in Int BY SizeType DEF PoolType
<1>2. n \in Nat /\ (p.live <= p.size => p.live + n <= p.size) BY <1>1 DEF Room
<1>3. more \in Seq(Message)
  <2>1. <<"START", 0>> \in Message BY DEF Message
  <2> QED BY <1>2, <2>1, SeqDef
<1>4. p.sent \in Seq(Message) BY DEF PoolType
<1>5. Added(p, times) = [p EXCEPT !.live = @ + n, !.starting = @ + n, !.asking = @ + n, !.sent = sent]
  BY DEF Added
<1> HIDE DEF n, more
<1>6. sent \in Seq(Message) /\ Extends(sent, p.sent) BY <1>3, <1>4 DEF Extends
<1> HIDE DEF sent
<1> DEFINE q == Added(p, times)
<1>7. q \in PoolType
  <2>1. n \in Int BY <1>2
  <2>2. p.live + n \in Int /\ p.starting + n \in Int /\ p.asking + n \in Int BY <2>1 DEF PoolType
  <2>3. q = [p EXCEPT !.live = p.live + n, !.starting = p.starting + n, !.asking = p.asking + n, !.sent = sent]
    BY <1>5 DEF PoolType
  <2>4. sent \in Seq(Message) BY <1>6
  <2> HIDE DEF q
  <2> QED BY <2>2, <2>3, <2>4 DEF PoolType
<1>8. /\ q.size = p.size /\ q.idle = p.idle /\ q.waiting = p.waiting /\ q.live = p.live + n
      /\ q.starting = p.starting + n /\ q.asking = p.asking + n /\ q.sent = sent
  BY <1>5 DEF PoolType
<1> HIDE DEF q
<1> QED BY <1>2, <1>6, <1>7, <1>8 DEF Grown, q

LEMMA GrownTwice ==
    ASSUME NEW p \in PoolType, NEW q, NEW r, Grown(p, q), Grown(q, r)
    PROVE  Grown(p, r)
<1>1. PICK m \in Nat : /\ q.live = p.live + m /\ q.starting = p.starting + m /\ q.asking = p.asking + m
                       /\ p.live <= p.size => q.live <= q.size
  BY DEF Grown
<1>2. PICK n \in Nat : /\ r.live = q.live + n /\ r.starting = q.starting + n /\ r.asking = q.asking + n
                       /\ q.live <= q.size => r.live <= r.size
  BY DEF Grown
<1>3. /\ m + n \in Nat /\ r.live = p.live + (m + n) /\ r.starting = p.starting + (m + n)
      /\ r.asking = p.asking + (m + n)
  BY <1>1, <1>2 DEF PoolType
<1>4. p.live <= p.size => r.live <= r.size BY <1>1, <1>2
<1>5. Extends(r.sent, p.sent) BY DEF Grown, Extends
<1> QED BY <1>3, <1>4, <1>5 DEF Grown

LEMMA UnassignedCount ==
    ASSUME NEW p \in PoolType PROVE Cardinality(Unassigned(p)) \in Nat
<1>1. DOMAIN p.idle = 1 .. Len(p.idle) /\ Len(p.idle) \in Nat BY DEF PoolType
<1>2. IsFiniteSet(DOMAIN p.idle) BY <1>1, FS_Interval
<1>3. IsFiniteSet(Unassigned(p)) BY <1>2, FS_Subset DEF Unassigned
<1> QED BY <1>3, FS_CardinalityType

\* keep_warm.
LEMMA WarmedGrows == ASSUME NEW p \in PoolType PROVE Grown(p, Warmed(p))
<1> DEFINE ready == Cardinality(Unassigned(p)) + p.starting
           times == IF ready < WARM_WORKERS THEN WARM_WORKERS - ready ELSE 0
<1>1. ready \in Int BY UnassignedCount DEF PoolType
<1>2. WARM_WORKERS \in Nat BY GuestsAssumption
<1>3. times \in Nat BY <1>1, <1>2
<1>4. Warmed(p) = Added(p, times) BY DEF Warmed
<1> HIDE DEF times
<1> QED BY <1>3, <1>4, AddedGrows

\* Worker::drop.
LEMMA KilledSends ==
    ASSUME NEW p \in PoolType, NEW id \in Nat
    PROVE  LET q == Killed(p, id) IN
           /\ q \in PoolType /\ q = [p EXCEPT !.sent = q.sent] /\ Extends(q.sent, p.sent)
           /\ broker.alive => \E i \in DOMAIN q.sent : q.sent[i] = <<"KILL", id>>
<1> DEFINE sent == IF broker.alive THEN Append(p.sent, <<"KILL", id>>) ELSE p.sent
           q == Killed(p, id)
<1>1. p.sent \in Seq(Message) /\ <<"KILL", id>> \in Message BY DEF PoolType, Message
<1>2. /\ sent \in Seq(Message) /\ Extends(sent, p.sent)
      /\ broker.alive => Len(sent) \in DOMAIN sent /\ sent[Len(sent)] = <<"KILL", id>>
  BY <1>1 DEF Extends
<1>3. q = [p EXCEPT !.sent = sent] BY DEF Killed
<1> HIDE DEF sent
<1>4. q \in PoolType /\ q.sent = sent BY <1>2, <1>3 DEF PoolType
<1> HIDE DEF q
<1>5. q = [p EXCEPT !.sent = q.sent] BY <1>3, <1>4
<1>6. broker.alive => \E i \in DOMAIN q.sent : q.sent[i] = <<"KILL", id>> BY <1>2, <1>4
<1> QED BY <1>2, <1>4, <1>5, <1>6 DEF q

\* discard: the slot is given back and taken again, and the kill is on its way.
LEMMA DiscardedLetsGo ==
    ASSUME NEW p \in PoolType, NEW id \in Nat
    PROVE  LET q == Discarded(p, id) IN
           /\ Grown([p EXCEPT !.live = @ - 1, !.sent = Killed(p, id).sent], q)
           /\ Extends(q.sent, p.sent)
           /\ broker.alive => \E i \in DOMAIN q.sent : q.sent[i] = <<"KILL", id>>
<1> DEFINE k == Killed(p, id)
           r == [k EXCEPT !.live = @ - 1]
           q == Discarded(p, id)
<1>1. /\ k \in PoolType /\ k = [p EXCEPT !.sent = k.sent] /\ Extends(k.sent, p.sent)
      /\ broker.alive => \E i \in DOMAIN k.sent : k.sent[i] = <<"KILL", id>>
  BY KilledSends
<1>2. q = Warmed(Added(r, 1)) BY DEF Discarded
<1> HIDE DEF k, q
<1>3. r \in PoolType /\ r.sent = k.sent
  <2>1. k \in PoolType BY <1>1
  <2>2. k.live - 1 \in Int BY <2>1 DEF PoolType
  <2>3. r = [k EXCEPT !.live = k.live - 1] BY <2>1 DEF PoolType
  <2> HIDE DEF r
  <2> QED BY <2>1, <2>2, <2>3 DEF PoolType
<1>4. r = [p EXCEPT !.live = @ - 1, !.sent = k.sent] BY <1>1 DEF PoolType
<1> HIDE DEF r
<1>5. Grown(r, Added(r, 1)) BY <1>3, AddedGrows
<1>6. Grown(Added(r, 1), q) BY <1>2, <1>5, WarmedGrows DEF Grown
<1>7. Grown(r, q) BY <1>3, <1>5, <1>6, GrownTwice
<1>8. Extends(q.sent, k.sent) BY <1>3, <1>7 DEF Grown
<1>9. Extends(q.sent, p.sent) BY <1>1, <1>8 DEF Extends
<1>10. broker.alive => \E i \in DOMAIN q.sent : q.sent[i] = <<"KILL", id>> BY <1>1, <1>8 DEF Extends
<1> QED BY <1>4, <1>7, <1>9, <1>10 DEF k, q

-----------------------------------------------------------------------------
(* What steps have in common.  A step may change few processes, and then   *)
(* only so that they have run less, seen less and live less.               *)

Unused(id) ==
    /\ process'[id].runs <= process[id].runs /\ process'[id].seen \subseteq process[id].seen
    /\ id > broker.next => process'[id] = process[id]
Tame(id) ==
    /\ Unused(id)
    /\ process'[id].alive => process[id].alive /\ (process[id].escaped => process'[id].escaped)
AllTame == \A id \in ProcessIds : Tame(id)

LEMMA ProcessRange ==
    ASSUME GuestsTypeOK, HeldKnown
    PROVE  /\ MaxStarts[pool.size] \in Nat /\ ProcessIds \subseteq Nat
           /\ IdleIds \cup BusyIds \cup Coming \subseteq ProcessIds
           /\ \A i \in DOMAIN pool.idle : pool.idle[i].id \in ProcessIds
           /\ \A a \in Busy : tries[a].worker \in ProcessIds
           /\ \A id \in ProcessIds : process[id] \in ProcessType
<1>1. pool.size \in Concurrencies /\ broker.next \in Nat BY DEF GuestsTypeOK, PoolType, BrokerType
<1>2. MaxStarts[pool.size] \in Nat BY <1>1, GuestsAssumption
<1>3. ProcessIds = 1 .. MaxStarts[pool.size] BY DEF ProcessIds
<1>4. 1 .. broker.next \subseteq ProcessIds /\ ProcessIds \subseteq Nat BY <1>1, <1>2, <1>3 DEF HeldKnown
<1>5. IdleIds \cup BusyIds \cup Coming \subseteq ProcessIds BY <1>4 DEF HeldKnown, Coming
<1>6. \A i \in DOMAIN pool.idle : pool.idle[i].id \in IdleIds BY DEF IdleIds, IdsOf
<1>7. \A a \in Busy : tries[a].worker \in BusyIds BY DEF BusyIds
<1>8. \A id \in ProcessIds : process[id] \in ProcessType BY DEF GuestsTypeOK
<1> QED BY <1>2, <1>4, <1>5, <1>6, <1>7, <1>8

\* The processes that somebody holds.
Holders == IdleIds \cup BusyIds \cup Coming
LEMMA HeldAreHolders == ASSUME GuestsTypeOK PROVE \A id \in Nat : id \in HeldIds <=> id \in Holders
<1>1. IdleIds = {pool.idle[i].id : i \in DOMAIN pool.idle} BY DEF IdleIds, IdsOf
<1>2. ReplyIds = {broker.replies[i][2] : i \in DOMAIN broker.replies} BY DEF ReplyIds, Answered
<1>3. \A id \in Nat : id \in {tries[a].worker : a \in Attempts} <=> id \in BusyIds
  BY GuestsAssumption DEF BusyIds, Busy
<1> QED BY <1>1, <1>2, <1>3 DEF HeldIds, Holders, Coming

LEMMA HoldersNow ==
    ASSUME GuestsTypeOK' PROVE \A id \in Nat : id \in HeldIds' <=> id \in Holders'
<1>1. IdleIds' = {pool'.idle[i].id : i \in DOMAIN pool'.idle} BY DEF IdleIds, IdsOf
<1>2. ReplyIds' = {broker'.replies[i][2] : i \in DOMAIN broker'.replies} BY DEF ReplyIds, Answered
<1>3. \A id \in Nat : id \in {tries'[a].worker : a \in Attempts} <=> id \in BusyIds'
  BY GuestsAssumption DEF BusyIds, Busy
<1> QED BY <1>1, <1>2, <1>3 DEF HeldIds, Holders, Coming

\* A process that is let go of in a step has its kill sent in that step.
LEMMA KillsKept ==
    ASSUME GuestsTypeOK, GuestsTypeOK', KillsFind, Listed', NEW gone,
           pool'.size = pool.size, broker'.alive => broker.alive,
           \A id \in ProcessIds : process'[id].alive => process[id].alive,
           Holders \subseteq Holders' \cup gone, Extends(pool'.sent, pool.sent),
           broker.alive => \A id \in gone : \E i \in DOMAIN pool'.sent : pool'.sent[i] = <<"KILL", id>>
    PROVE  KillsFind'
<1>1. ProcessIds' = ProcessIds BY DEF ProcessIds
<1>2. ProcessIds \subseteq Nat
  <2>1. MaxStarts[pool.size] \in Nat BY GuestsAssumption DEF GuestsTypeOK, PoolType
  <2> QED BY <2>1 DEF ProcessIds
<1>3. SUFFICES ASSUME broker'.alive, NEW id \in ProcessIds, process'[id].alive, id \notin HeldIds'
               PROVE  id \in broker'.children /\ \E i \in DOMAIN pool'.sent : pool'.sent[i] = <<"KILL", id>>
  BY <1>1 DEF KillsFind
<1>4. id \in broker'.children BY <1>1, <1>3 DEF Listed
<1>5. id \notin Holders' BY <1>2, <1>3, HoldersNow
<1>6. CASE id \in gone BY <1>3, <1>4, <1>6
<1>7. CASE id \notin gone
  <2>1. id \notin HeldIds BY <1>2, <1>5, <1>7, HeldAreHolders
  <2>2. PICK i \in DOMAIN pool.sent : pool.sent[i] = <<"KILL", id>> BY <1>3, <2>1 DEF KillsFind
  <2>3. i \in DOMAIN pool'.sent /\ pool'.sent[i] = <<"KILL", id>> BY <2>2 DEF Extends
  <2> QED BY <1>4, <2>3
<1> QED BY <1>6, <1>7

LEMMA KillsStay ==
    ASSUME GuestsTypeOK, GuestsTypeOK', KillsFind, Listed', pool'.size = pool.size,
           broker'.alive => broker.alive, \A id \in ProcessIds : process'[id].alive => process[id].alive,
           Holders \subseteq Holders', Extends(pool'.sent, pool.sent)
    PROVE  KillsFind'
<1> DEFINE none == {}
<1>1. Holders \subseteq Holders' \cup none OBVIOUS
<1>2. broker.alive => \A id \in none : \E i \in DOMAIN pool'.sent : pool'.sent[i] = <<"KILL", id>> OBVIOUS
<1> HIDE DEF none
<1> QED BY <1>1, <1>2, KillsKept

LEMMA ListedKept ==
    ASSUME GuestsTypeOK, HeldKnown, Listed, AllTame, pool'.size = pool.size,
           broker'.alive => broker.alive /\ \A id \in broker.children : process'[id].alive => id \in broker'.children,
           \A i \in DOMAIN broker'.replies : \E j \in DOMAIN broker.replies : broker'.replies[i] = broker.replies[j]
    PROVE  Listed'
<1>1. ProcessIds' = ProcessIds BY DEF ProcessIds
<1>2. broker'.alive => \A id \in ProcessIds : process'[id].alive => id \in broker'.children
  BY DEF Listed, AllTame, Tame
<1>3. ASSUME NEW i \in DOMAIN broker'.replies, broker'.replies[i][1] # "READY"
      PROVE  ~process'[broker'.replies[i][2]].alive
  <2>1. PICK j \in DOMAIN broker.replies : broker'.replies[i] = broker.replies[j] OBVIOUS
  <2>2. broker.replies[j][2] \in ProcessIds BY ProcessRange DEF Coming, ReplyIds, Answered
  <2> QED BY <1>3, <2>1, <2>2 DEF Listed, AllTame, Tame
<1> QED BY <1>1, <1>2, <1>3 DEF Listed

LEMMA IsolatedStays ==
    ASSUME GuestsTypeOK, GuestsTypeOK', HeldKnown, HeldKnown', Isolated, pool'.size = pool.size,
           broker.next <= broker'.next, \A id \in ProcessIds : Unused(id),
           \A i \in DOMAIN pool'.idle : \/ \E j \in DOMAIN pool.idle : pool'.idle[i] = pool.idle[j]
                                        \/ IdleFits(pool'.idle[i], process[pool'.idle[i].id]),
           \A a \in Busy' : a \in Busy /\ tries'[a].worker = tries[a].worker
                            /\ tries'[a].key = tries[a].key /\ tries'[a].served = tries[a].served,
           \A a \in Attempts : tries'[a].at \notin {"idle", "done"} => tries'[a].key # NoWorker,
           \A id \in Coming' : id \in Coming \/ id > broker.next
    PROVE  Isolated'
<1>1. ProcessIds' = ProcessIds BY DEF ProcessIds
<1>2. \A id \in ProcessIds : process[id] \in ProcessType /\ process'[id] \in ProcessType
  BY <1>1 DEF GuestsTypeOK
<1>3. /\ IdleIds \cup BusyIds \cup Coming \subseteq ProcessIds /\ ProcessIds \subseteq Nat
      /\ \A i \in DOMAIN pool.idle : pool.idle[i].id \in ProcessIds
      /\ \A a \in Busy : tries[a].worker \in ProcessIds
  BY ProcessRange
<1>4. /\ IdleIds' \cup BusyIds' \cup Coming' \subseteq ProcessIds
      /\ \A i \in DOMAIN pool'.idle : pool'.idle[i].id \in ProcessIds
  <2>1. pool'.size \in Concurrencies /\ broker'.next \in Nat BY DEF GuestsTypeOK, PoolType, BrokerType
  <2>2. MaxStarts[pool'.size] \in Nat BY <2>1, GuestsAssumption
  <2>3. ProcessIds' = 1 .. MaxStarts[pool'.size] BY DEF ProcessIds
  <2>4. 1 .. broker'.next \subseteq ProcessIds BY <1>1, <2>1, <2>2, <2>3 DEF HeldKnown
  <2>5. \A i \in DOMAIN pool'.idle : pool'.idle[i].id \in IdleIds' BY DEF IdleIds, IdsOf
  <2> QED BY <2>4, <2>5 DEF HeldKnown, Coming
<1>5. ASSUME NEW i \in DOMAIN pool'.idle PROVE IdleFits(pool'.idle[i], process'[pool'.idle[i].id])
  <2> DEFINE e == pool'.idle[i]
  <2>1. e.id \in ProcessIds BY <1>4
  <2>2. IdleFits(e, process[e.id])
    <3>1. ASSUME NEW j \in DOMAIN pool.idle, e = pool.idle[j] PROVE IdleFits(e, process[e.id])
      BY <3>1 DEF Isolated
    <3> QED BY <3>1
  <2>3. e \in IdleWorker BY DEF GuestsTypeOK, PoolType
  <2> HIDE DEF e
  <2>4. process[e.id] \in ProcessType /\ process'[e.id] \in ProcessType BY <1>2, <2>1
  <2>5. Unused(e.id) BY <2>1
  <2>6. IdleFits(e, process'[e.id]) BY <2>2, <2>3, <2>4, <2>5 DEF IdleFits, Unused, IdleWorker, ProcessType
  <2> QED BY <2>6 DEF e
<1>6. ASSUME NEW a \in Busy' PROVE BusyFits(tries'[a], process'[tries'[a].worker])
  <2> DEFINE w == tries[a].worker
  <2>1. a \in Busy /\ tries'[a].worker = w /\ tries'[a].key = tries[a].key /\ tries'[a].served = tries[a].served
    OBVIOUS
  <2>2. w \in ProcessIds /\ BusyFits(tries[a], process[w]) BY <1>3, <2>1 DEF Isolated
  <2>3. tries[a] \in TryType BY <2>1 DEF GuestsTypeOK, Busy
  <2> HIDE DEF w
  <2>4. process[w] \in ProcessType /\ process'[w] \in ProcessType /\ Unused(w) BY <1>2, <2>2
  <2>5. tries[a].served \in Nat BY <2>3 DEF TryType
  <2> QED BY <2>1, <2>2, <2>4, <2>5 DEF BusyFits, Unused, ProcessType
<1>7. ASSUME NEW id \in Coming' PROVE Fresh(process'[id])
  <2>1. id \in ProcessIds BY <1>4
  <2>2. Fresh(process[id])
    <3>1. CASE id \in Coming BY <3>1 DEF Isolated
    <3>2. CASE id > broker.next BY <2>1, <3>2 DEF Isolated, Unborn, Fresh
    <3> QED BY <3>1, <3>2
  <2>3. process[id] \in ProcessType /\ process'[id] \in ProcessType /\ Unused(id) BY <1>2, <2>1
  <2> QED BY <2>2, <2>3 DEF Fresh, Unused, ProcessType
<1>8. ASSUME NEW id \in ProcessIds, id > broker'.next PROVE process'[id] = Unborn
  <2>1. id > broker.next BY <1>3, <1>8 DEF GuestsTypeOK, BrokerType
  <2> QED BY <1>8, <2>1 DEF Isolated, Unused
<1>9. ASSUME NEW id \in ProcessIds
      PROVE  process'[id].runs <= RETIRE_AFTER /\ \E x : process'[id].seen \subseteq {x}
  <2>1. process[id] \in ProcessType /\ process'[id] \in ProcessType /\ Unused(id) BY <1>2
  <2>2. RETIRE_AFTER \in Nat BY GuestsAssumption
  <2>3. process[id].runs <= RETIRE_AFTER BY DEF Isolated
  <2>4. PICK x : process[id].seen \subseteq {x} BY DEF Isolated
  <2> QED BY <2>1, <2>2, <2>3, <2>4 DEF Unused, ProcessType
<1> QED BY <1>1, <1>5, <1>6, <1>7, <1>8, <1>9 DEF Isolated

LEMMA IsolatedKept ==
    ASSUME GuestsTypeOK, GuestsTypeOK', HeldKnown, HeldKnown', Isolated, AllTame, pool'.size = pool.size,
           broker.next <= broker'.next,
           \A i \in DOMAIN pool'.idle : \/ \E j \in DOMAIN pool.idle : pool'.idle[i] = pool.idle[j]
                                        \/ IdleFits(pool'.idle[i], process[pool'.idle[i].id]),
           \A a \in Busy' : a \in Busy /\ tries'[a].worker = tries[a].worker
                            /\ tries'[a].key = tries[a].key /\ tries'[a].served = tries[a].served,
           \A a \in Attempts : tries'[a].at \notin {"idle", "done"} => tries'[a].key # NoWorker,
           \A id \in Coming' : id \in Coming \/ id > broker.next
    PROVE  Isolated'
BY IsolatedStays DEF AllTame, Tame

\* An attempt that found nothing to take finds nothing among fewer workers.
LEMMA NothingSuits ==
    ASSUME NEW p, NEW q, NEW key, Suitable(p, key) = {},
           \A i \in DOMAIN q.idle : \E j \in DOMAIN p.idle : q.idle[i] = p.idle[j]
    PROVE  Suitable(q, key) = {}
<1>1. \A j \in DOMAIN p.idle : p.idle[j].key # NoWorker /\ ~(key # Single /\ p.idle[j].key = key)
  BY DEF Suitable, Unassigned
<1>2. \A i \in DOMAIN q.idle : q.idle[i].key # NoWorker /\ ~(key # Single /\ q.idle[i].key = key) BY <1>1
<1> QED BY <1>2 DEF Suitable, Unassigned

LEMMA InformedKept ==
    ASSUME Informed, \A i \in DOMAIN pool'.idle : \E j \in DOMAIN pool.idle : pool'.idle[i] = pool.idle[j],
           \A a \in Attempts : tries'[a].at \in Uninformed /\ a \notin woken' =>
              \/ tries[a].at \in Uninformed /\ a \notin woken /\ tries'[a].key = tries[a].key
              \/ Suitable(pool, tries'[a].key) = {}
    PROVE  Informed'
<1> SUFFICES ASSUME NEW a \in Attempts, tries'[a].at \in Uninformed, a \notin woken'
             PROVE  Suitable(pool', tries'[a].key) = {}
  BY DEF Informed, Uninformed
<1>1. Suitable(pool, tries'[a].key) = {} BY DEF Informed
<1> QED BY <1>1, NothingSuits

LEMMA BudgetKeeps ==
    ASSUME GuestsTypeOK, HeldKnown, HeldOnce, BudgetInv, AllTame,
           \A a \in Attempts :
              \/ tries'[a] = tries[a]
              \/ /\ Credit(tries'[a]) <= HOST_CALLS /\ Honest(tries'[a])
                 /\ tries'[a].at \in Working => Affordable(tries'[a], process'[tries'[a].worker])
    PROVE  BudgetInv'
<1> SUFFICES ASSUME NEW a \in Attempts
             PROVE  /\ Credit(tries'[a]) <= HOST_CALLS /\ Honest(tries'[a])
                    /\ tries'[a].at \in Working => Affordable(tries'[a], process'[tries'[a].worker])
  BY DEF BudgetInv, Working
<1>1. CASE tries'[a] = tries[a]
  <2>1. Credit(tries'[a]) <= HOST_CALLS /\ Honest(tries'[a]) BY <1>1 DEF BudgetInv
  <2>2. ASSUME tries[a].at \in Working PROVE Affordable(tries[a], process'[tries[a].worker])
    <3>1. a \in Busy BY <2>2 DEF HeldOnce, Busy
    <3>2. tries[a].worker \in ProcessIds BY <3>1, ProcessRange
    <3>3. Tame(tries[a].worker) BY <3>2 DEF AllTame
    <3>4. Affordable(tries[a], process[tries[a].worker]) BY <2>2 DEF BudgetInv
    <3> QED BY <3>3, <3>4 DEF Affordable, Tame
  <2> QED BY <1>1, <2>1, <2>2
<1> QED BY <1>1

-----------------------------------------------------------------------------
(* Steps that move no process from one holder to another.                  *)

SameHolders ==
    /\ pool'.idle = pool.idle /\ pool'.size = pool.size /\ arriving' = arriving
    /\ broker'.replies = broker.replies /\ broker'.starting = broker.starting /\ broker'.next = broker.next
    /\ \A a \in Attempts : tries'[a].worker = tries[a].worker /\ (tries'[a].at \in Working <=> tries[a].at \in Working)

LEMMA HoldersSame ==
    ASSUME HeldOnce, HeldApart, HeldKnown, SameHolders
    PROVE  /\ HeldOnce' /\ HeldApart' /\ HeldKnown' /\ Busy' = Busy /\ Holders' = Holders /\ Coming' = Coming
           /\ IdleIds' = IdleIds /\ BusyIds' = BusyIds
<1>1. Busy' = Busy BY DEF SameHolders, Busy
<1>2. BusyIds' = BusyIds
  <2>1. BusyIds' = {tries'[a].worker : a \in Busy'} BY DEF BusyIds
  <2>2. \A a \in Busy : tries'[a].worker = tries[a].worker BY DEF SameHolders, Busy
  <2> QED BY <1>1, <2>1, <2>2 DEF BusyIds
<1>3. IdleIds' = IdleIds /\ ReplyIds' = ReplyIds BY DEF SameHolders, IdleIds, ReplyIds
<1>4. Coming' = Coming /\ Holders' = Holders BY <1>2, <1>3 DEF Coming, Holders, SameHolders
<1>5. HeldOnce'
  <2>1. \A a \in Attempts : tries'[a].at \in Working <=> tries'[a].worker # NoWorker
    BY DEF SameHolders, HeldOnce
  <2>2. \A a, b \in Busy : tries'[a].worker = tries'[b].worker => a = b BY DEF SameHolders, HeldOnce, Busy
  <2>3. Distinct(pool'.idle) /\ AnsweredOnce(broker'.replies) BY DEF SameHolders, HeldOnce
  <2> QED BY <1>1, <2>1, <2>2, <2>3 DEF HeldOnce, Working
<1>6. HeldApart' /\ HeldKnown' BY <1>2, <1>3 DEF HeldApart, HeldKnown, SameHolders
<1> QED BY <1>1, <1>2, <1>3, <1>4, <1>5, <1>6

LEMMA FiniteHolders ==
    ASSUME GuestsTypeOK, HeldKnown
    PROVE  /\ IsFiniteSet(Busy) /\ Cardinality(Busy) \in Nat
           /\ IsFiniteSet(arriving) /\ Cardinality(arriving) \in Nat /\ Len(pool.idle) \in Nat
<1>1. IsFiniteSet(Busy) BY GuestsAssumption, FS_Subset DEF Busy
<1>2. arriving \subseteq 1 .. broker.next /\ broker.next \in Nat BY DEF HeldKnown, GuestsTypeOK, BrokerType
<1>3. IsFiniteSet(arriving)
  <2>1. IsFiniteSet(1 .. broker.next) BY <1>2, FS_Interval
  <2> QED BY <1>2, <2>1, FS_Subset
<1>4. Len(pool.idle) \in Nat BY DEF GuestsTypeOK, PoolType
<1> QED BY <1>1, <1>3, <1>4, FS_CardinalityType

\* The slots grow by what is asked for.
LEMMA SlotsSame ==
    ASSUME GuestsTypeOK, HeldKnown, SlotsCovered, Busy' = Busy, arriving' = arriving, NEW p \in PoolType,
           p.idle = pool.idle, p.live = pool.live, p.starting = pool.starting, p.asking = pool.asking,
           p.size = pool.size, Grown(p, pool')
    PROVE  SlotsCovered'
<1>1. PICK n \in Nat : /\ pool'.live = p.live + n /\ pool'.starting = p.starting + n /\ pool'.asking = p.asking + n
                       /\ p.live <= p.size => pool'.live <= pool'.size
  BY DEF Grown
<1>2. pool'.idle = pool.idle /\ pool'.size = pool.size BY DEF Grown
<1>3. SlotsUsed' = Len(pool'.idle) + Cardinality(Busy') + pool'.asking + Cardinality(arriving') BY DEF SlotsUsed
<1>4. pool.live \in Int /\ pool.starting \in Int /\ pool.asking \in Int BY DEF GuestsTypeOK, PoolType
<1>5. SlotsUsed' = SlotsUsed + n /\ SlotsUsed \in Int
  BY <1>1, <1>2, <1>3, <1>4, FiniteHolders DEF SlotsUsed
<1> QED BY <1>1, <1>2, <1>4, <1>5 DEF SlotsCovered

-----------------------------------------------------------------------------
(* An attempt waits: it looks in vain, evicts nobody, asks for a worker,   *)
(* is woken, gives up, or begins.                                          *)

WaitShape(a, t) ==
    /\ t.worker = NoWorker /\ t.at \notin Working /\ tries[a].at \notin Working
    /\ t.at \notin {"idle", "done"} => t.key # NoWorker
    /\ Credit(t) <= HOST_CALLS /\ Honest(t)
    /\ tries' = [tries EXCEPT ![a] = t]
    /\ \E waiting \in Int : Grown([pool EXCEPT !.waiting = waiting], pool')
    /\ woken \ {a} \subseteq woken'
    /\ t.at \in Uninformed /\ a \notin woken' => Suitable(pool, t.key) = {}
    /\ UNCHANGED <<broker, process, arriving>>

LEMMA WaitKeeps ==
    ASSUME GuestsInv, GuestsTypeOK', NEW a \in Attempts, NEW t, WaitShape(a, t)
    PROVE  GuestsInv'
<1> USE DEF GuestsInv
<1>1. PICK waiting \in Int : Grown([pool EXCEPT !.waiting = waiting], pool') BY DEF WaitShape
<1> DEFINE p == [pool EXCEPT !.waiting = waiting]
<1>2. /\ p \in PoolType /\ p.idle = pool.idle /\ p.live = pool.live /\ p.starting = pool.starting
      /\ p.asking = pool.asking /\ p.size = pool.size /\ p.sent = pool.sent /\ Grown(p, pool')
  BY <1>1 DEF GuestsTypeOK, PoolType
<1> HIDE DEF p
<1>3. tries \in [Attempts -> TryType] BY DEF GuestsTypeOK
<1>4. tries' = [tries EXCEPT ![a] = t] /\ tries'[a] = t /\ \A b \in Attempts : b # a => tries'[b] = tries[b]
  BY <1>3 DEF WaitShape
<1>5. tries[a].worker = NoWorker BY DEF WaitShape, HeldOnce
<1>6. pool'.idle = pool.idle /\ pool'.size = pool.size /\ Extends(pool'.sent, pool.sent) BY <1>2 DEF Grown
<1>7. broker' = broker /\ process' = process /\ arriving' = arriving BY DEF WaitShape
<1>8. SameHolders
  <2>1. t.worker = tries[a].worker /\ t.at \notin Working /\ tries[a].at \notin Working BY <1>5 DEF WaitShape
  <2>2. \A b \in Attempts : tries'[b].worker = tries[b].worker /\ (tries'[b].at \in Working <=> tries[b].at \in Working)
    BY <1>4, <2>1
  <2> QED BY <1>6, <1>7, <2>2 DEF SameHolders
<1>9. /\ HeldOnce' /\ HeldApart' /\ HeldKnown' /\ Busy' = Busy /\ Holders' = Holders /\ Coming' = Coming
  BY <1>8, HoldersSame
<1>10. AllTame BY <1>7, ProcessRange DEF AllTame, Tame, Unused, ProcessType
<1>11. Isolated'
  <2>1. \A b \in Busy' : b \in Busy /\ tries'[b].worker = tries[b].worker
                         /\ tries'[b].key = tries[b].key /\ tries'[b].served = tries[b].served
    BY <1>4, <1>5, <1>9 DEF Busy
  <2>2. \A b \in Attempts : tries'[b].at \notin {"idle", "done"} => tries'[b].key # NoWorker
    BY <1>4 DEF WaitShape, Isolated
  <2>3. broker.next <= broker'.next BY <1>7 DEF GuestsTypeOK, BrokerType
  <2> QED BY <1>6, <1>9, <1>10, <2>1, <2>2, <2>3, IsolatedKept
<1>12. SlotsCovered' BY <1>2, <1>7, <1>9, SlotsSame
<1>13. Listed' BY <1>6, <1>7, <1>10, ListedKept
<1>14. KillsFind'
  <2>1. \A id \in ProcessIds : process'[id].alive => process[id].alive BY <1>7
  <2> QED BY <1>6, <1>7, <1>9, <1>13, <2>1, KillsStay
<1>15. Informed'
  <2>1. ASSUME NEW b \in Attempts, tries'[b].at \in Uninformed, b \notin woken'
        PROVE  \/ tries[b].at \in Uninformed /\ b \notin woken /\ tries'[b].key = tries[b].key
               \/ Suitable(pool, tries'[b].key) = {}
    <3>1. CASE b = a BY <1>4, <2>1, <3>1 DEF WaitShape
    <3>2. CASE b # a
      <4>1. b \notin woken BY <2>1, <3>2 DEF WaitShape
      <4> QED BY <1>4, <2>1, <3>2, <4>1
    <3> QED BY <3>1, <3>2
  <2> QED BY <1>6, <2>1, InformedKept
<1>16. BudgetInv'
  <2>1. Credit(t) <= HOST_CALLS /\ Honest(t) /\ t.at \notin Working BY DEF WaitShape
  <2> QED BY <1>4, <1>10, <2>1, BudgetKeeps
<1> QED BY <1>9, <1>11, <1>12, <1>13, <1>14, <1>15, <1>16

-----------------------------------------------------------------------------
(* An attempt and its worker talk.                                         *)

TalkShape(a, t) ==
    /\ tries[a].at \in Working /\ t.at \in Working
    /\ t.worker = tries[a].worker /\ t.key = tries[a].key /\ t.served = tries[a].served
    /\ Credit(t) <= HOST_CALLS /\ Honest(t) /\ Affordable(t, process'[t.worker])
    /\ tries' = [tries EXCEPT ![a] = t] /\ AllTame
    /\ UNCHANGED <<pool, broker, arriving, woken, made>>

LEMMA TalkKeeps ==
    ASSUME GuestsInv, GuestsTypeOK', NEW a \in Attempts, NEW t, TalkShape(a, t)
    PROVE  GuestsInv'
<1> USE DEF GuestsInv
<1>1. tries \in [Attempts -> TryType] BY DEF GuestsTypeOK
<1>2. tries' = [tries EXCEPT ![a] = t] /\ tries'[a] = t /\ \A b \in Attempts : b # a => tries'[b] = tries[b]
  BY <1>1 DEF TalkShape
<1>3. pool' = pool /\ broker' = broker /\ arriving' = arriving /\ woken' = woken BY DEF TalkShape
<1>4. AllTame BY DEF TalkShape
<1>5. SameHolders
  <2>1. t.worker = tries[a].worker /\ t.at \in Working /\ tries[a].at \in Working BY DEF TalkShape
  <2>2. \A b \in Attempts : tries'[b].worker = tries[b].worker /\ (tries'[b].at \in Working <=> tries[b].at \in Working)
    BY <1>2, <2>1
  <2> QED BY <1>3, <2>2 DEF SameHolders
<1>6. /\ HeldOnce' /\ HeldApart' /\ HeldKnown' /\ Busy' = Busy /\ Holders' = Holders /\ Coming' = Coming
  BY <1>5, HoldersSame
<1>7. Isolated'
  <2>1. \A b \in Busy' : b \in Busy /\ tries'[b].worker = tries[b].worker
                         /\ tries'[b].key = tries[b].key /\ tries'[b].served = tries[b].served
    BY <1>2, <1>6 DEF TalkShape
  <2>2. \A b \in Attempts : tries'[b].at \notin {"idle", "done"} => tries'[b].key # NoWorker
    <3>1. tries[a].at \notin {"idle", "done"} BY DEF TalkShape, Working
    <3>2. t.key # NoWorker BY <3>1 DEF TalkShape, Isolated
    <3> QED BY <1>2, <3>2 DEF Isolated
  <2>3. broker.next <= broker'.next BY <1>3 DEF GuestsTypeOK, BrokerType
  <2> QED BY <1>3, <1>4, <1>6, <2>1, <2>2, <2>3, IsolatedKept
<1>8. SlotsCovered'
  <2>1. SlotsUsed' = SlotsUsed BY <1>3, <1>6 DEF SlotsUsed
  <2> QED BY <1>3, <2>1 DEF SlotsCovered
<1>9. Listed' BY <1>3, <1>4, ListedKept
<1>10. KillsFind'
  <2>1. \A id \in ProcessIds : process'[id].alive => process[id].alive BY <1>4 DEF AllTame, Tame
  <2>2. Extends(pool'.sent, pool.sent) BY <1>3 DEF Extends
  <2> QED BY <1>3, <1>6, <1>9, <2>1, <2>2, KillsStay
<1>11. Informed'
  <2>1. \A b \in Attempts : tries'[b].at \in Uninformed => tries[b].at \in Uninformed /\ tries'[b].key = tries[b].key
    BY <1>2 DEF TalkShape, Working, Uninformed
  <2> QED BY <1>3, <2>1, InformedKept
<1>12. BudgetInv'
  <2>1. Credit(t) <= HOST_CALLS /\ Honest(t) /\ Affordable(t, process'[t.worker]) BY DEF TalkShape
  <2> QED BY <1>2, <1>4, <2>1, BudgetKeeps
<1> QED BY <1>6, <1>7, <1>8, <1>9, <1>10, <1>11, <1>12

\* A process ends, with or without its holder.
LEMMA FadeKeeps ==
    ASSUME GuestsInv, GuestsTypeOK', AllTame, UNCHANGED <<pool, broker, arriving, tries, woken, made>>
    PROVE  GuestsInv'
<1> USE DEF GuestsInv
<1>1. SameHolders BY DEF SameHolders
<1>2. /\ HeldOnce' /\ HeldApart' /\ HeldKnown' /\ Busy' = Busy /\ Holders' = Holders /\ Coming' = Coming
  BY <1>1, HoldersSame
<1>3. Isolated'
  <2>1. broker.next <= broker'.next BY DEF GuestsTypeOK, BrokerType
  <2>2. \A b \in Attempts : tries'[b].at \notin {"idle", "done"} => tries'[b].key # NoWorker BY DEF Isolated
  <2> QED BY <1>2, <2>1, <2>2, IsolatedKept
<1>4. SlotsCovered'
  <2>1. SlotsUsed' = SlotsUsed BY <1>2 DEF SlotsUsed
  <2> QED BY <2>1 DEF SlotsCovered
<1>5. Listed' BY ListedKept
<1>6. KillsFind'
  <2>1. \A id \in ProcessIds : process'[id].alive => process[id].alive BY DEF AllTame, Tame
  <2>2. Extends(pool'.sent, pool.sent) BY DEF Extends
  <2> QED BY <1>2, <1>5, <2>1, <2>2, KillsStay
<1>7. Informed' BY InformedKept
<1>8. BudgetInv' BY BudgetKeeps
<1> QED BY <1>2, <1>3, <1>4, <1>5, <1>6, <1>7, <1>8

-----------------------------------------------------------------------------
(* Steps that move a process: checkout, eviction and the end of an         *)
(* exchange.                                                               *)

LEMMA BusyLeaves ==
    ASSUME GuestsTypeOK, HeldOnce, HeldKnown, NEW a \in Busy, NEW t, t.worker = NoWorker, t.at \notin Working,
           tries' = [tries EXCEPT ![a] = t]
    PROVE  /\ Busy' = Busy \ {a} /\ BusyIds' = BusyIds \ {tries[a].worker}
           /\ Cardinality(Busy') = Cardinality(Busy) - 1
           /\ \A b \in Attempts : tries'[b].at \in Working <=> tries'[b].worker # NoWorker
           /\ \A b, c \in Busy' : tries'[b].worker = tries'[c].worker => b = c
           /\ \A b \in Busy' : tries'[b] = tries[b]
           /\ tries'[a] = t /\ \A b \in Attempts : b # a => tries'[b] = tries[b]
<1>1. a \in Attempts /\ tries \in [Attempts -> TryType] BY DEF Busy, GuestsTypeOK
<1>2. tries'[a] = t /\ \A b \in Attempts : b # a => tries'[b] = tries[b] BY <1>1
<1>3. Busy' = Busy \ {a} BY <1>1, <1>2 DEF Busy
<1>4. BusyIds' = {tries'[b].worker : b \in Busy'} BY DEF BusyIds
<1>5. \A b \in Busy' : tries'[b] = tries[b] /\ b \in Busy BY <1>2, <1>3 DEF Busy
<1>6. BusyIds' = BusyIds \ {tries[a].worker}
  <2>1. ASSUME NEW x \in BusyIds' PROVE x \in BusyIds \ {tries[a].worker}
    <3>1. PICK b \in Busy' : x = tries'[b].worker BY <1>4, <2>1
    <3>2. b \in Busy /\ b # a /\ x = tries[b].worker BY <1>3, <1>5, <3>1
    <3> QED BY <3>2 DEF BusyIds, HeldOnce
  <2>2. ASSUME NEW x \in BusyIds, x # tries[a].worker PROVE x \in BusyIds'
    <3>1. PICK b \in Busy : x = tries[b].worker BY <2>2 DEF BusyIds
    <3>2. b \in Busy' BY <1>3, <2>2, <3>1
    <3> QED BY <1>4, <1>5, <3>1, <3>2
  <2> QED BY <2>1, <2>2
<1>7. Cardinality(Busy') = Cardinality(Busy) - 1 BY <1>3, FiniteHolders, FS_RemoveElement
<1>8. \A b \in Attempts : tries'[b].at \in Working <=> tries'[b].worker # NoWorker BY <1>2 DEF HeldOnce
<1>9. \A b, c \in Busy' : tries'[b].worker = tries'[c].worker => b = c BY <1>5 DEF HeldOnce
<1> QED BY <1>2, <1>3, <1>5, <1>6, <1>7, <1>8, <1>9

LEMMA BusyJoins ==
    ASSUME GuestsTypeOK, HeldOnce, HeldKnown, NEW a \in Attempts, a \notin Busy, NEW t, t.worker \in Nat,
           t.worker \notin BusyIds, t.at \in Working, tries' = [tries EXCEPT ![a] = t]
    PROVE  /\ Busy' = Busy \cup {a} /\ BusyIds' = BusyIds \cup {t.worker}
           /\ Cardinality(Busy') = Cardinality(Busy) + 1
           /\ \A b \in Attempts : tries'[b].at \in Working <=> tries'[b].worker # NoWorker
           /\ \A b, c \in Busy' : tries'[b].worker = tries'[c].worker => b = c
           /\ tries'[a] = t /\ \A b \in Attempts : b # a => tries'[b] = tries[b]
<1>1. tries \in [Attempts -> TryType] BY DEF GuestsTypeOK
<1>2. tries'[a] = t /\ \A b \in Attempts : b # a => tries'[b] = tries[b] BY <1>1
<1>3. t.worker # NoWorker BY GuestsAssumption
<1>4. Busy' = Busy \cup {a} BY <1>2, <1>3 DEF Busy
<1>5. BusyIds' = {tries'[b].worker : b \in Busy'} BY DEF BusyIds
<1>6. \A b \in Busy : b # a /\ tries'[b] = tries[b] BY <1>2 DEF Busy
<1>7. BusyIds' = BusyIds \cup {t.worker} BY <1>2, <1>4, <1>5, <1>6 DEF BusyIds
<1>8. Cardinality(Busy') = Cardinality(Busy) + 1 BY <1>4, FiniteHolders, FS_AddElement
<1>9. \A b \in Attempts : tries'[b].at \in Working <=> tries'[b].worker # NoWorker BY <1>2, <1>3 DEF HeldOnce
<1>10. \A b \in Busy : tries'[b].worker # t.worker BY <1>6 DEF BusyIds
<1>11. \A b, c \in Busy' : tries'[b].worker = tries'[c].worker => b = c
  BY <1>2, <1>4, <1>6, <1>10 DEF HeldOnce
<1> QED BY <1>2, <1>4, <1>7, <1>8, <1>9, <1>11

(* An attempt lets its worker go: its exchange broke, or its deadline      *)
(* dropped it.                                                             *)
DropShape(a, t) ==
    /\ a \in Busy /\ t.worker = NoWorker /\ t.at = "done" /\ Credit(t) <= HOST_CALLS /\ Honest(t)
    /\ tries' = [tries EXCEPT ![a] = t]
    /\ \E live \in {pool.live, pool.live - 1}, sent \in Seq(Message) :
          Grown([pool EXCEPT !.live = live, !.sent = sent], pool')
    /\ Extends(pool'.sent, pool.sent)
    /\ broker.alive => \E i \in DOMAIN pool'.sent : pool'.sent[i] = <<"KILL", tries[a].worker>>
    /\ UNCHANGED <<broker, process, arriving, woken, made>>

LEMMA DropKeeps ==
    ASSUME GuestsInv, GuestsTypeOK', NEW a \in Attempts, NEW t, DropShape(a, t)
    PROVE  GuestsInv'
<1> USE DEF GuestsInv
<1>1. /\ a \in Busy /\ t.worker = NoWorker /\ t.at = "done" /\ t.at \notin Working
      /\ tries' = [tries EXCEPT ![a] = t]
      /\ broker' = broker /\ process' = process /\ arriving' = arriving /\ woken' = woken
  BY DEF DropShape, Working
<1>2. /\ Busy' = Busy \ {a} /\ BusyIds' = BusyIds \ {tries[a].worker}
      /\ Cardinality(Busy') = Cardinality(Busy) - 1
      /\ \A b \in Attempts : tries'[b].at \in Working <=> tries'[b].worker # NoWorker
      /\ \A b, c \in Busy' : tries'[b].worker = tries'[c].worker => b = c
      /\ \A b \in Busy' : tries'[b] = tries[b]
      /\ tries'[a] = t /\ \A b \in Attempts : b # a => tries'[b] = tries[b]
  BY <1>1, BusyLeaves
<1>3. PICK live \in {pool.live, pool.live - 1}, sent \in Seq(Message) :
          Grown([pool EXCEPT !.live = live, !.sent = sent], pool')
  BY DEF DropShape
<1>4. /\ pool.live \in Int /\ pool.starting \in Int /\ pool.asking \in Int /\ pool.size \in Concurrencies
      /\ Len(pool.idle) \in Nat /\ live \in Int
  BY <1>3 DEF GuestsTypeOK, PoolType
<1> DEFINE p == [pool EXCEPT !.live = live, !.sent = sent]
<1>5. /\ p.idle = pool.idle /\ p.size = pool.size /\ p.live = live /\ p.starting = pool.starting
      /\ p.asking = pool.asking
  BY <1>4 DEF GuestsTypeOK, PoolType
<1>6. PICK n \in Nat : /\ pool'.live = p.live + n /\ pool'.starting = p.starting + n /\ pool'.asking = p.asking + n
                       /\ p.live <= p.size => pool'.live <= pool'.size
  BY <1>3 DEF Grown
<1>7. pool'.idle = pool.idle /\ pool'.size = pool.size BY <1>3, <1>5 DEF Grown
<1> HIDE DEF p
<1>8. IdleIds' = IdleIds /\ ReplyIds' = ReplyIds /\ Coming' = Coming
  BY <1>1, <1>7 DEF IdleIds, ReplyIds, Coming
<1>9. HeldOnce' BY <1>1, <1>2, <1>7 DEF HeldOnce, Working
<1>10. HeldApart' /\ HeldKnown' BY <1>1, <1>2, <1>7, <1>8 DEF HeldApart, HeldKnown
<1>11. AllTame BY <1>1, ProcessRange DEF AllTame, Tame, Unused, ProcessType
<1>12. Isolated'
  <2>1. \A b \in Busy' : b \in Busy /\ tries'[b].worker = tries[b].worker
                         /\ tries'[b].key = tries[b].key /\ tries'[b].served = tries[b].served
    BY <1>2
  <2>2. \A b \in Attempts : tries'[b].at \notin {"idle", "done"} => tries'[b].key # NoWorker
    BY <1>1, <1>2 DEF Isolated
  <2>3. broker.next <= broker'.next BY <1>1 DEF GuestsTypeOK, BrokerType
  <2> QED BY <1>7, <1>8, <1>10, <1>11, <2>1, <2>2, <2>3, IsolatedKept
<1>13. SlotsCovered'
  <2>1. SlotsUsed' = Len(pool'.idle) + Cardinality(Busy') + pool'.asking + Cardinality(arriving') BY DEF SlotsUsed
  <2>2. SlotsUsed' = SlotsUsed + n - 1 /\ SlotsUsed \in Int
    <3>1. SlotsUsed = Len(pool.idle) + Cardinality(Busy) + pool.asking + Cardinality(arriving) BY DEF SlotsUsed
    <3>2. Cardinality(Busy) \in Nat /\ Cardinality(arriving) \in Nat BY FiniteHolders
    <3>3. SlotsUsed' = Len(pool.idle) + (Cardinality(Busy) - 1) + (pool.asking + n) + Cardinality(arriving)
      BY <1>1, <1>2, <1>5, <1>6, <1>7, <2>1
    <3> DEFINE l == Len(pool.idle)
               b == Cardinality(Busy)
               k == pool.asking
               c == Cardinality(arriving)
    <3>4. l \in Int /\ b \in Int /\ k \in Int /\ c \in Int /\ n \in Int BY <1>4, <3>2
    <3>5. SlotsUsed = l + b + k + c /\ SlotsUsed' = l + (b - 1) + (k + n) + c BY <3>1, <3>3
    <3> HIDE DEF l, b, k, c
    <3>6. l + (b - 1) + (k + n) + c = l + b + k + c + n - 1 BY <3>4
    <3>7. l + b + k + c \in Int BY <3>4
    <3> QED BY <3>5, <3>6, <3>7
  <2>3. pool.size \in Int /\ live <= pool.size BY <1>3, <1>4, SizeType DEF SlotsCovered
  <2>4. SlotsUsed' <= pool'.live BY <1>3, <1>4, <1>5, <1>6, <2>2 DEF SlotsCovered
  <2> QED BY <1>4, <1>5, <1>6, <2>3, <2>4 DEF SlotsCovered
<1>14. Listed' BY <1>1, <1>7, <1>11, ListedKept
<1>15. KillsFind'
  <2>1. \A id \in ProcessIds : process'[id].alive => process[id].alive BY <1>1
  <2>2. Holders \subseteq Holders' \cup {tries[a].worker} BY <1>2, <1>8 DEF Holders
  <2>3. Extends(pool'.sent, pool.sent) BY DEF DropShape
  <2>4. broker.alive => \A id \in {tries[a].worker} : \E i \in DOMAIN pool'.sent : pool'.sent[i] = <<"KILL", id>>
    BY DEF DropShape
  <2> QED BY <1>1, <1>7, <1>14, <2>1, <2>2, <2>3, <2>4, KillsKept
<1>16. Informed'
  <2>1. \A b \in Attempts : tries'[b].at \in Uninformed => b # a BY <1>1, <1>2 DEF Uninformed
  <2> QED BY <1>1, <1>2, <1>7, <2>1, InformedKept
<1>17. BudgetInv'
  <2>1. Credit(t) <= HOST_CALLS /\ Honest(t) BY DEF DropShape
  <2> QED BY <1>1, <1>2, <1>11, <2>1, BudgetKeeps
<1> QED BY <1>9, <1>10, <1>12, <1>13, <1>14, <1>15, <1>16, <1>17

(* An attempt parks its worker for its key.                                *)
KeepShape(a, t) ==
    /\ a \in Busy /\ t.worker = NoWorker /\ t.at = "done" /\ Credit(t) <= HOST_CALLS /\ Honest(t)
    /\ tries[a].key # Single /\ tries[a].served + 1 < RETIRE_AFTER
    /\ tries' = [tries EXCEPT ![a] = t]
    /\ pool' = [pool EXCEPT !.idle = Append(@, [id |-> tries[a].worker, served |-> tries[a].served + 1,
                                                key |-> tries[a].key])]
    /\ Bump /\ UNCHANGED <<broker, process, arriving, made>>

LEMMA KeepKeeps ==
    ASSUME GuestsInv, GuestsTypeOK', NEW a \in Attempts, NEW t, KeepShape(a, t)
    PROVE  GuestsInv'
<1> USE DEF GuestsInv
<1>1. /\ a \in Busy /\ t.worker = NoWorker /\ t.at = "done" /\ t.at \notin Working
      /\ tries' = [tries EXCEPT ![a] = t]
      /\ broker' = broker /\ process' = process /\ arriving' = arriving /\ woken' = Waiters
  BY DEF KeepShape, Working, Bump
<1>2. /\ Busy' = Busy \ {a} /\ BusyIds' = BusyIds \ {tries[a].worker}
      /\ Cardinality(Busy') = Cardinality(Busy) - 1
      /\ \A b \in Attempts : tries'[b].at \in Working <=> tries'[b].worker # NoWorker
      /\ \A b, c \in Busy' : tries'[b].worker = tries'[c].worker => b = c
      /\ \A b \in Busy' : tries'[b] = tries[b]
      /\ tries'[a] = t /\ \A b \in Attempts : b # a => tries'[b] = tries[b]
  BY <1>1, BusyLeaves
<1> DEFINE w == tries[a].worker
           e == [id |-> w, served |-> tries[a].served + 1, key |-> tries[a].key]
<1>3. tries[a] \in TryType /\ w \in BusyIds /\ w \in ProcessIds /\ w \in Nat
  BY <1>1, ProcessRange DEF GuestsTypeOK, BusyIds
<1>4. e \in IdleWorker /\ e.id = w /\ e.served = tries[a].served + 1 /\ e.key = tries[a].key
  BY <1>3 DEF IdleWorker, TryType
<1>5. w \notin IdleIds BY <1>3 DEF HeldApart
<1>6. pool.idle \in Seq(IdleWorker) /\ Distinct(pool.idle) BY DEF GuestsTypeOK, PoolType, HeldOnce
<1>7. /\ pool'.idle = Append(pool.idle, e) /\ pool'.size = pool.size /\ pool'.live = pool.live
      /\ pool'.starting = pool.starting /\ pool'.asking = pool.asking /\ pool'.sent = pool.sent
  BY DEF KeepShape, GuestsTypeOK, PoolType
<1> HIDE DEF e, w
<1>8. /\ Distinct(pool'.idle) /\ Len(pool'.idle) = Len(pool.idle) + 1
      /\ IdsOf(pool'.idle) = IdsOf(pool.idle) \cup {w}
      /\ \A j \in DOMAIN pool'.idle : pool'.idle[j] = e \/ \E k \in DOMAIN pool.idle : pool'.idle[j] = pool.idle[k]
  BY <1>4, <1>5, <1>6, <1>7, AppendIdle DEF IdleIds
<1>9. IdleIds' = IdleIds \cup {w} /\ ReplyIds' = ReplyIds /\ Coming' = Coming
  BY <1>1, <1>8 DEF IdleIds, ReplyIds, Coming
<1>10. BusyIds' = BusyIds \ {w} BY <1>2 DEF w
<1>11. HeldOnce' BY <1>1, <1>2, <1>8 DEF HeldOnce, Working
<1>12. HeldApart' /\ HeldKnown' BY <1>1, <1>3, <1>7, <1>9, <1>10 DEF HeldApart, HeldKnown
<1>13. AllTame BY <1>1, ProcessRange DEF AllTame, Tame, Unused, ProcessType
<1>14. Isolated'
  <2>1. \A b \in Busy' : b \in Busy /\ tries'[b].worker = tries[b].worker
                         /\ tries'[b].key = tries[b].key /\ tries'[b].served = tries[b].served
    BY <1>2
  <2>2. \A b \in Attempts : tries'[b].at \notin {"idle", "done"} => tries'[b].key # NoWorker
    BY <1>1, <1>2 DEF Isolated
  <2>3. broker.next <= broker'.next BY <1>1 DEF GuestsTypeOK, BrokerType
  <2>4. IdleFits(e, process[w])
    <3>1. BusyFits(tries[a], process[w]) BY <1>1 DEF Isolated, w
    <3>2. tries[a].at \in Working BY <1>1 DEF HeldOnce, Busy
    <3>3. tries[a].key # NoWorker BY <3>2 DEF Isolated, Working
    <3>4. tries[a].key # Single /\ tries[a].served + 1 < RETIRE_AFTER BY DEF KeepShape
    <3> QED BY <1>4, <3>1, <3>3, <3>4 DEF BusyFits, IdleFits
  <2>5. \A i \in DOMAIN pool'.idle : \/ \E j \in DOMAIN pool.idle : pool'.idle[i] = pool.idle[j]
                                     \/ IdleFits(pool'.idle[i], process[pool'.idle[i].id])
    BY <1>4, <1>8, <2>4
  <2> QED BY <1>7, <1>9, <1>12, <1>13, <2>1, <2>2, <2>3, <2>5, IsolatedKept
<1>15. SlotsCovered'
  <2>1. SlotsUsed' = Len(pool'.idle) + Cardinality(Busy') + pool'.asking + Cardinality(arriving') BY DEF SlotsUsed
  <2>2. pool.asking \in Int BY DEF GuestsTypeOK, PoolType
  <2>3. SlotsUsed' = SlotsUsed BY <1>1, <1>2, <1>7, <1>8, <2>1, <2>2, FiniteHolders DEF SlotsUsed
  <2> QED BY <1>7, <2>3 DEF SlotsCovered
<1>16. Listed' BY <1>1, <1>7, <1>13, ListedKept
<1>17. KillsFind'
  <2>1. \A id \in ProcessIds : process'[id].alive => process[id].alive BY <1>1
  <2>2. Holders \subseteq Holders' BY <1>9, <1>10 DEF Holders
  <2>3. Extends(pool'.sent, pool.sent) BY <1>7 DEF Extends
  <2> QED BY <1>1, <1>7, <1>16, <2>1, <2>2, <2>3, KillsStay
<1>18. Informed' BY <1>1, <1>2 DEF Informed, Uninformed, Waiters
<1>19. BudgetInv'
  <2>1. Credit(t) <= HOST_CALLS /\ Honest(t) BY DEF KeepShape
  <2> QED BY <1>1, <1>2, <1>13, <2>1, BudgetKeeps
<1> QED BY <1>11, <1>12, <1>14, <1>15, <1>16, <1>17, <1>18, <1>19

(* An attempt takes the worker it found.                                   *)
TakeShape(a, i) ==
    /\ tries[a].at = "look" /\ i \in Suitable(pool, tries[a].key)
    /\ LET slot == pool.idle[i] IN
       /\ \E waiting \in Int :
             Grown([pool EXCEPT !.idle = SwapRemoved(@, i), !.waiting = waiting], pool')
       /\ tries' = [tries EXCEPT ![a] = [tries[a] EXCEPT !.at = "running", !.worker = slot.id,
                                             !.served = slot.served, !.calls = HOST_CALLS, !.own = HOST_CALLS]]
       /\ process' = [process EXCEPT ![slot.id].runs = @ + 1,
                          ![slot.id].seen = @ \cup {IF tries[a].key = Single THEN <<Single, made, a>>
                                                      ELSE <<tries[a].key, 0, 0>>}]
    /\ tries[a].pending = 0 /\ tries[a].doing = "guest" /\ tries[a].stored = 0
    /\ woken' = woken \ {a} /\ UNCHANGED <<broker, arriving, made>>

LEMMA TakeKeeps ==
    ASSUME GuestsInv, GuestsTypeOK', NEW a \in Attempts, NEW i, TakeShape(a, i)
    PROVE  GuestsInv'
<1> USE DEF GuestsInv
<1> DEFINE e == pool.idle[i]
           w == e.id
           t == [tries[a] EXCEPT !.at = "running", !.worker = w, !.served = e.served,
                                 !.calls = HOST_CALLS, !.own = HOST_CALLS]
           key == tries[a].key
           stamp == IF key = Single THEN <<Single, made, a>> ELSE <<key, 0, 0>>
<1>1. /\ tries[a].at = "look" /\ broker' = broker /\ arriving' = arriving /\ woken' = woken \ {a}
      /\ tries' = [tries EXCEPT ![a] = t] /\ i \in DOMAIN pool.idle
      /\ process' = [process EXCEPT ![w].runs = @ + 1, ![w].seen = @ \cup {stamp}]
      /\ e.key = NoWorker \/ (key # Single /\ e.key = key)
  BY DEF TakeShape, Suitable, Unassigned
<1>2. tries[a] \in TryType /\ HOST_CALLS \in Nat /\ HOST_CALLS > 0 /\ RETIRE_AFTER \in Nat
  BY GuestsAssumption DEF GuestsTypeOK
<1>3. e \in IdleWorker /\ w \in Nat /\ e.served \in Nat /\ w \in IdleIds /\ w \in ProcessIds
  <2>1. e \in IdleWorker BY <1>1 DEF GuestsTypeOK, PoolType
  <2>2. e.id \in Nat /\ e.served \in Nat BY <2>1 DEF IdleWorker
  <2>3. e.id \in IdleIds BY <1>1 DEF IdleIds, IdsOf
  <2> QED BY <2>1, <2>2, <2>3, ProcessRange
<1>4. /\ t.at = "running" /\ t.worker = w /\ t.served = e.served /\ t.calls = HOST_CALLS /\ t.own = HOST_CALLS
      /\ t.key = key /\ t.pending = 0 /\ t.doing = "guest" /\ t.stored = 0 /\ t.over = tries[a].over
  BY <1>2 DEF TryType, TakeShape
<1>5. IdleFits(e, process[w]) BY <1>1 DEF Isolated
<1>6. process[w] \in ProcessType BY <1>3, ProcessRange
<1>7. /\ process'[w].runs = process[w].runs + 1 /\ process'[w].seen = process[w].seen \cup {stamp}
      /\ process'[w].alive = process[w].alive /\ process'[w].escaped = process[w].escaped
      /\ \A id \in ProcessIds : id # w => process'[id] = process[id]
  BY <1>1, <1>3, <1>6 DEF GuestsTypeOK, ProcessType
<1> HIDE DEF e, w, t, stamp
<1>8. a \notin Busy /\ key # NoWorker BY <1>1 DEF Busy, HeldOnce, Working, Isolated
<1>9. w \notin BusyIds BY <1>3 DEF HeldApart
<1>10. /\ Busy' = Busy \cup {a} /\ BusyIds' = BusyIds \cup {w}
       /\ Cardinality(Busy') = Cardinality(Busy) + 1
       /\ \A b \in Attempts : tries'[b].at \in Working <=> tries'[b].worker # NoWorker
       /\ \A b, c \in Busy' : tries'[b].worker = tries'[c].worker => b = c
       /\ tries'[a] = t /\ \A b \in Attempts : b # a => tries'[b] = tries[b]
  <2>1. t.worker \in Nat /\ t.worker \notin BusyIds /\ t.at \in Working BY <1>3, <1>4, <1>9 DEF Working
  <2> QED BY <1>1, <1>4, <1>8, <2>1, BusyJoins
<1>11. pool.idle \in Seq(IdleWorker) /\ Distinct(pool.idle) BY DEF GuestsTypeOK, PoolType, HeldOnce
<1> DEFINE rest == SwapRemoved(pool.idle, i)
<1>12. /\ rest \in Seq(IdleWorker) /\ Distinct(rest) /\ Len(rest) = Len(pool.idle) - 1
       /\ IdsOf(rest) = IdsOf(pool.idle) \ {w}
       /\ \A j \in DOMAIN rest : \E k \in DOMAIN pool.idle : rest[j] = pool.idle[k]
  BY <1>1, <1>11, SwapRemovedIdle DEF w, e
<1>13. PICK waiting \in Int : Grown([pool EXCEPT !.idle = rest, !.waiting = waiting], pool') BY DEF TakeShape
<1> HIDE DEF rest
<1> DEFINE p == [pool EXCEPT !.idle = rest, !.waiting = waiting]
<1>14. /\ p.idle = rest /\ p.size = pool.size /\ p.live = pool.live /\ p.starting = pool.starting
       /\ p.asking = pool.asking /\ p.sent = pool.sent /\ Grown(p, pool')
  BY <1>13 DEF GuestsTypeOK, PoolType
<1> HIDE DEF p
<1>15. PICK n \in Nat : /\ pool'.live = p.live + n /\ pool'.starting = p.starting + n /\ pool'.asking = p.asking + n
                        /\ p.live <= p.size => pool'.live <= pool'.size
  BY <1>14 DEF Grown
<1>16. pool'.idle = rest /\ pool'.size = pool.size /\ Extends(pool'.sent, pool.sent) BY <1>14 DEF Grown
<1>17. IdleIds' = IdleIds \ {w} /\ ReplyIds' = ReplyIds /\ Coming' = Coming
  BY <1>1, <1>12, <1>16 DEF IdleIds, ReplyIds, Coming
<1>18. HeldOnce' BY <1>1, <1>10, <1>12, <1>16 DEF HeldOnce, Working
<1>19. HeldApart' /\ HeldKnown' BY <1>1, <1>3, <1>10, <1>16, <1>17 DEF HeldApart, HeldKnown
<1>20. ProcessIds' = ProcessIds BY <1>16 DEF ProcessIds
<1>21. Isolated'
  <2>1. BusyFits(t, process'[w])
    <3>1. process[w].runs <= e.served /\ e.served < RETIRE_AFTER BY <1>5 DEF IdleFits
    <3>2. key # Single => process[w].seen \subseteq {<<key, 0, 0>>} BY <1>1, <1>5 DEF IdleFits
    <3>3. key # Single => stamp = <<key, 0, 0>> BY DEF stamp
    <3>4. process[w].runs \in Nat BY <1>6 DEF ProcessType
    <3> QED BY <1>3, <1>4, <1>7, <3>1, <3>2, <3>3, <3>4 DEF BusyFits
  <2>2. \A b \in Busy' : BusyFits(tries'[b], process'[tries'[b].worker])
    <3>1. ASSUME NEW b \in Busy, b # a PROVE BusyFits(tries'[b], process'[tries'[b].worker])
      <4>1. tries'[b] = tries[b] /\ tries[b].worker \in BusyIds BY <1>10, <3>1 DEF Busy, BusyIds
      <4>2. tries[b].worker # w /\ tries[b].worker \in ProcessIds BY <1>9, <4>1, ProcessRange
      <4> QED BY <1>7, <4>1, <4>2 DEF Isolated
    <3> QED BY <1>4, <1>10, <2>1, <3>1
  <2>3. \A j \in DOMAIN pool'.idle : IdleFits(pool'.idle[j], process'[pool'.idle[j].id])
    <3>1. SUFFICES ASSUME NEW j \in DOMAIN rest PROVE IdleFits(rest[j], process'[rest[j].id]) BY <1>16
    <3>2. PICK k \in DOMAIN pool.idle : rest[j] = pool.idle[k] BY <1>12
    <3>3. rest[j].id \in IdsOf(rest) BY DEF IdsOf
    <3>4. rest[j].id # w /\ rest[j].id \in ProcessIds BY <1>12, <3>2, <3>3, ProcessRange
    <3> QED BY <1>7, <3>2, <3>4 DEF Isolated
  <2>4. \A b \in Attempts : tries'[b].at \notin {"idle", "done"} => tries'[b].key # NoWorker
    BY <1>4, <1>8, <1>10 DEF Isolated
  <2>5. ASSUME NEW id \in Coming' PROVE Fresh(process'[id])
    <3>1. id # w /\ id \in ProcessIds BY <1>3, <1>17, ProcessRange DEF HeldApart, Coming
    <3> QED BY <1>7, <1>17, <3>1 DEF Isolated
  <2>6. ASSUME NEW id \in ProcessIds, id > broker'.next PROVE process'[id] = Unborn
    <3>1. w \in 1 .. broker.next BY <1>3 DEF HeldKnown
    <3>2. id # w BY <1>1, <2>6, <3>1 DEF GuestsTypeOK, BrokerType
    <3> QED BY <1>1, <1>7, <2>6, <3>2 DEF Isolated
  <2>7. ASSUME NEW id \in ProcessIds
        PROVE  process'[id].runs <= RETIRE_AFTER /\ \E x : process'[id].seen \subseteq {x}
    <3>1. CASE id # w BY <1>7, <3>1 DEF Isolated
    <3>2. CASE id = w
      <4>1. process'[w].runs <= RETIRE_AFTER
        <5>1. t.served < RETIRE_AFTER /\ process'[w].runs <= t.served + 1 BY <2>1 DEF BusyFits
        <5>2. process[w].runs \in Nat BY <1>6 DEF ProcessType
        <5> QED BY <1>2, <1>3, <1>4, <1>7, <5>1, <5>2
      <4>2. process'[w].seen \subseteq {stamp}
        <5>1. CASE e.key = NoWorker
          <6>1. process[w].seen = {} BY <1>5, <5>1 DEF IdleFits
          <6> QED BY <1>7, <6>1
        <5>2. CASE e.key # NoWorker
          <6>1. key # Single /\ e.key = key /\ process[w].seen \subseteq {<<key, 0, 0>>} BY <1>1, <1>5, <5>2 DEF IdleFits
          <6>2. stamp = <<key, 0, 0>> BY <6>1 DEF stamp
          <6> QED BY <1>7, <6>1, <6>2
        <5> QED BY <5>1, <5>2
      <4> QED BY <3>2, <4>1, <4>2
    <3> QED BY <3>1, <3>2
  <2> QED BY <1>20, <2>2, <2>3, <2>4, <2>5, <2>6, <2>7 DEF Isolated
<1>22. SlotsCovered'
  <2>1. SlotsUsed' = Len(pool'.idle) + Cardinality(Busy') + pool'.asking + Cardinality(arriving') BY DEF SlotsUsed
  <2>2. SlotsUsed = Len(pool.idle) + Cardinality(Busy) + pool.asking + Cardinality(arriving) BY DEF SlotsUsed
  <2>3. Cardinality(Busy) \in Nat /\ Cardinality(arriving) \in Nat /\ Len(pool.idle) \in Nat BY FiniteHolders
  <2>4. pool.asking \in Int /\ pool.live \in Int /\ pool.starting \in Int BY DEF GuestsTypeOK, PoolType
  <2>5. SlotsUsed' = Len(pool.idle) - 1 + (Cardinality(Busy) + 1) + (pool.asking + n) + Cardinality(arriving)
    BY <1>1, <1>10, <1>12, <1>14, <1>15, <1>16, <2>1
  <2>6. SlotsUsed' = SlotsUsed + n /\ SlotsUsed \in Int
    <3> DEFINE l == Len(pool.idle)
               b == Cardinality(Busy)
               k == pool.asking
               c == Cardinality(arriving)
    <3>1. l \in Int /\ b \in Int /\ k \in Int /\ c \in Int /\ n \in Int BY <1>15, <2>3, <2>4
    <3>2. SlotsUsed = l + b + k + c /\ SlotsUsed' = l - 1 + (b + 1) + (k + n) + c BY <2>2, <2>5
    <3> HIDE DEF l, b, k, c
    <3> QED BY <3>1, <3>2
  <2> QED BY <1>14, <1>15, <2>4, <2>6 DEF SlotsCovered
<1>23. \A id \in ProcessIds : process'[id].alive = process[id].alive BY <1>7
<1>24. Listed'
  <2>1. \A j \in DOMAIN broker.replies : broker.replies[j][2] \in ProcessIds
    BY ProcessRange DEF Coming, ReplyIds, Answered
  <2> QED BY <1>1, <1>20, <1>23, <2>1 DEF Listed
<1>25. KillsFind'
  <2>1. Holders \subseteq Holders' BY <1>10, <1>17 DEF Holders
  <2> QED BY <1>1, <1>16, <1>23, <1>24, <2>1, KillsStay
<1>26. Informed'
  <2>1. \A b \in Attempts : tries'[b].at \in Uninformed => b # a BY <1>4, <1>10 DEF Uninformed
  <2>2. \A j \in DOMAIN pool'.idle : \E k \in DOMAIN pool.idle : pool'.idle[j] = pool.idle[k] BY <1>12, <1>16
  <2> QED BY <1>1, <1>10, <2>1, <2>2, InformedKept
<1>27. BudgetInv'
  <2>1. Credit(t) <= HOST_CALLS /\ Honest(t) /\ Affordable(t, process'[w])
    <3>1. ~tries[a].over BY DEF BudgetInv, Honest
    <3> QED BY <1>2, <1>4, <3>1 DEF Credit, Honest, Affordable, Owed
  <2>2. ASSUME NEW b \in Attempts, b # a, tries[b].at \in Working
        PROVE  Affordable(tries[b], process'[tries[b].worker])
    <3>1. b \in Busy /\ tries[b].worker \in BusyIds BY <2>2 DEF HeldOnce, Busy, BusyIds
    <3>2. tries[b].worker # w /\ tries[b].worker \in ProcessIds BY <1>9, <3>1, ProcessRange
    <3> QED BY <1>7, <2>2, <3>2 DEF BudgetInv
  <2>3. ASSUME NEW b \in Attempts
        PROVE  /\ Credit(tries'[b]) <= HOST_CALLS /\ Honest(tries'[b])
               /\ tries'[b].at \in Working => Affordable(tries'[b], process'[tries'[b].worker])
    <3>1. CASE b = a BY <1>4, <1>10, <2>1, <3>1
    <3>2. CASE b # a BY <1>10, <2>2, <3>2 DEF BudgetInv
    <3> QED BY <3>1, <3>2
  <2> QED BY <2>3 DEF BudgetInv, Working
<1> QED BY <1>18, <1>19, <1>21, <1>22, <1>24, <1>25, <1>26, <1>27

(* evict_one stops an idle worker.                                         *)
EvictShape(a) ==
    /\ tries[a].at = "evict" /\ pool.idle # << >>
    /\ tries' = [tries EXCEPT ![a] = [tries[a] EXCEPT !.at = "add"]]
    /\ pool' = [Killed(pool, Head(pool.idle).id) EXCEPT !.idle = Tail(pool.idle), !.live = @ - 1]
    /\ UNCHANGED <<broker, process, arriving, woken, made>>

LEMMA EvictKeeps ==
    ASSUME GuestsInv, GuestsTypeOK', NEW a \in Attempts, EvictShape(a)
    PROVE  GuestsInv'
<1> USE DEF GuestsInv
<1> DEFINE w == Head(pool.idle).id
           t == [tries[a] EXCEPT !.at = "add"]
           k == Killed(pool, w)
<1>1. /\ tries[a].at = "evict" /\ broker' = broker /\ process' = process /\ arriving' = arriving /\ woken' = woken
      /\ tries' = [tries EXCEPT ![a] = t] /\ pool.idle # << >>
      /\ pool' = [k EXCEPT !.idle = Tail(pool.idle), !.live = @ - 1]
  BY DEF EvictShape
<1>2. tries[a] \in TryType /\ tries \in [Attempts -> TryType] BY DEF GuestsTypeOK
<1>3. /\ t.at = "add" /\ t.worker = tries[a].worker /\ t.key = tries[a].key /\ Credit(t) = Credit(tries[a])
      /\ (Honest(tries[a]) => Honest(t)) /\ Owed(t) = Owed(tries[a])
  BY <1>1, <1>2 DEF TryType, Credit, Honest, Owed
<1>4. /\ tries'[a] = t /\ \A b \in Attempts : b # a => tries'[b] = tries[b] BY <1>1, <1>2
<1>5. pool.idle \in Seq(IdleWorker) /\ Distinct(pool.idle) BY DEF GuestsTypeOK, PoolType, HeldOnce
<1> DEFINE rest == Tail(pool.idle)
<1>6. /\ rest \in Seq(IdleWorker) /\ Distinct(rest) /\ Len(rest) = Len(pool.idle) - 1
      /\ w \in IdleIds /\ IdsOf(rest) = IdleIds \ {w}
      /\ \A j \in DOMAIN rest : \E i \in DOMAIN pool.idle : rest[j] = pool.idle[i]
  BY <1>1, <1>5, TailIdle DEF IdleIds
<1>7. w \in Nat BY <1>6, ProcessRange
<1>8. /\ k \in PoolType /\ k = [pool EXCEPT !.sent = k.sent] /\ Extends(k.sent, pool.sent)
      /\ broker.alive => \E i \in DOMAIN k.sent : k.sent[i] = <<"KILL", w>>
  BY <1>7, KilledSends DEF GuestsTypeOK
<1> HIDE DEF k, rest
<1>9. /\ pool'.idle = rest /\ pool'.size = pool.size /\ pool'.live = pool.live - 1 /\ pool'.sent = k.sent
      /\ pool'.starting = pool.starting /\ pool'.asking = pool.asking
  BY <1>1, <1>8 DEF GuestsTypeOK, PoolType, rest
<1> HIDE DEF w, t
<1>10. Busy' = Busy /\ BusyIds' = BusyIds
  <2>1. \A b \in Attempts : tries'[b].worker = tries[b].worker BY <1>3, <1>4
  <2>2. Busy' = Busy BY <2>1 DEF Busy
  <2>3. BusyIds' = {tries'[b].worker : b \in Busy'} BY DEF BusyIds
  <2>4. \A b \in Busy : tries'[b].worker = tries[b].worker BY <2>1 DEF Busy
  <2> QED BY <2>2, <2>3, <2>4 DEF BusyIds
<1>11. IdleIds' = IdleIds \ {w} /\ ReplyIds' = ReplyIds /\ Coming' = Coming
  BY <1>1, <1>6, <1>9 DEF IdleIds, ReplyIds, Coming
<1>12. HeldOnce'
  <2>1. \A b \in Attempts : tries'[b].at \in Working <=> tries'[b].worker # NoWorker
    BY <1>1, <1>3, <1>4 DEF HeldOnce, Working
  <2>2. \A b, c \in Busy' : tries'[b].worker = tries'[c].worker => b = c BY <1>3, <1>4, <1>10 DEF HeldOnce, Busy
  <2> QED BY <1>1, <1>6, <1>9, <2>1, <2>2 DEF HeldOnce, Working
<1>13. HeldApart' /\ HeldKnown' BY <1>1, <1>9, <1>10, <1>11 DEF HeldApart, HeldKnown
<1>14. AllTame BY <1>1, ProcessRange DEF AllTame, Tame, Unused, ProcessType
<1>15. a \notin Busy BY <1>1 DEF Busy, HeldOnce, Working
<1>16. Isolated'
  <2>1. \A b \in Busy' : b \in Busy /\ tries'[b].worker = tries[b].worker
                         /\ tries'[b].key = tries[b].key /\ tries'[b].served = tries[b].served
    BY <1>4, <1>10, <1>15 DEF Busy
  <2>2. \A b \in Attempts : tries'[b].at \notin {"idle", "done"} => tries'[b].key # NoWorker
    BY <1>1, <1>3, <1>4 DEF Isolated
  <2>3. broker.next <= broker'.next BY <1>1 DEF GuestsTypeOK, BrokerType
  <2>4. \A i \in DOMAIN pool'.idle : \E j \in DOMAIN pool.idle : pool'.idle[i] = pool.idle[j] BY <1>6, <1>9
  <2> QED BY <1>9, <1>11, <1>13, <1>14, <2>1, <2>2, <2>3, <2>4, IsolatedKept
<1>17. SlotsCovered'
  <2>1. SlotsUsed' = Len(pool'.idle) + Cardinality(Busy') + pool'.asking + Cardinality(arriving') BY DEF SlotsUsed
  <2>2. SlotsUsed = Len(pool.idle) + Cardinality(Busy) + pool.asking + Cardinality(arriving) BY DEF SlotsUsed
  <2>3. /\ Cardinality(Busy) \in Nat /\ Cardinality(arriving) \in Nat /\ Len(pool.idle) \in Nat
        /\ pool.asking \in Int /\ pool.live \in Int /\ pool.size \in Int
    BY FiniteHolders, SizeType DEF GuestsTypeOK, PoolType
  <2>4. SlotsUsed' = SlotsUsed - 1 /\ SlotsUsed \in Int
    <3> DEFINE l == Len(pool.idle)
               b == Cardinality(Busy)
               n == pool.asking
               c == Cardinality(arriving)
    <3>1. l \in Int /\ b \in Int /\ n \in Int /\ c \in Int BY <2>3
    <3>2. SlotsUsed = l + b + n + c /\ SlotsUsed' = l - 1 + b + n + c BY <1>1, <1>6, <1>9, <1>10, <2>1, <2>2
    <3> HIDE DEF l, b, n, c
    <3> QED BY <3>1, <3>2
  <2> QED BY <1>9, <2>3, <2>4 DEF SlotsCovered
<1>18. Listed' BY <1>1, <1>9, <1>14, ListedKept
<1>19. KillsFind'
  <2>1. \A id \in ProcessIds : process'[id].alive => process[id].alive BY <1>1
  <2>2. Holders \subseteq Holders' \cup {w} BY <1>10, <1>11 DEF Holders
  <2>3. broker.alive => \A id \in {w} : \E i \in DOMAIN pool'.sent : pool'.sent[i] = <<"KILL", id>> BY <1>8, <1>9
  <2>4. Extends(pool'.sent, pool.sent) BY <1>8, <1>9
  <2> QED BY <1>1, <1>9, <1>18, <2>1, <2>2, <2>3, <2>4, KillsKept
<1>20. Informed'
  <2>1. \A i \in DOMAIN pool'.idle : \E j \in DOMAIN pool.idle : pool'.idle[i] = pool.idle[j] BY <1>6, <1>9
  <2>2. \A b \in Attempts : tries'[b].at \in Uninformed => tries[b].at \in Uninformed /\ tries'[b].key = tries[b].key
    BY <1>1, <1>3, <1>4 DEF Uninformed
  <2> QED BY <1>1, <2>1, <2>2, InformedKept
<1>21. BudgetInv'
  <2>1. Credit(t) <= HOST_CALLS /\ Honest(t) BY <1>3 DEF BudgetInv
  <2>2. t.at \notin Working BY <1>3 DEF Working
  <2> QED BY <1>4, <1>14, <2>1, <2>2, BudgetKeeps
<1> QED BY <1>12, <1>13, <1>16, <1>17, <1>18, <1>19, <1>20, <1>21

-----------------------------------------------------------------------------
(* Starting workers.                                                       *)

\* The blocking thread has the broker's answer, or finds it gone.
LEMMA StartAnsweredKeeps == ASSUME GuestsInv, GuestsTypeOK', StartAnswered PROVE GuestsInv'
<1> USE DEF GuestsInv
<1> DEFINE replies == broker.replies
           ready == replies # << >> /\ Head(replies)[1] = "READY"
           w == Head(replies)[2]
<1>1. /\ pool.asking > 0 /\ (replies # << >> \/ ~broker.alive)
      /\ tries' = tries /\ process' = process
      /\ broker' = IF replies # << >> THEN [broker EXCEPT !.replies = Tail(@)] ELSE broker
  BY DEF StartAnswered
<1>2. replies \in Seq(Reply) /\ AnsweredOnce(replies) /\ broker \in BrokerType
  BY DEF GuestsTypeOK, BrokerType, HeldOnce
<1>3. /\ broker'.alive = broker.alive /\ broker'.starting = broker.starting /\ broker'.next = broker.next
      /\ broker'.children = broker.children
      /\ broker'.replies = IF replies # << >> THEN Tail(replies) ELSE replies
  BY <1>1, <1>2 DEF BrokerType
<1>4. replies # << >> =>
         /\ Tail(replies) \in Seq(Reply) /\ AnsweredOnce(Tail(replies)) /\ Head(replies) \in Reply
         /\ 1 \in DOMAIN replies /\ Head(replies) = replies[1]
         /\ w \in ReplyIds /\ Answered(Tail(replies)) = ReplyIds \ {w}
         /\ \A j \in DOMAIN Tail(replies) : \E k \in DOMAIN replies : Tail(replies)[j] = replies[k]
  BY <1>2, TailReplies DEF ReplyIds
<1>5. /\ ReplyIds' = IF replies # << >> THEN ReplyIds \ {w} ELSE ReplyIds
      /\ AnsweredOnce(broker'.replies)
      /\ \A j \in DOMAIN broker'.replies : \E k \in DOMAIN replies : broker'.replies[j] = replies[k]
  BY <1>2, <1>3, <1>4 DEF ReplyIds
<1>6. /\ pool'.idle = pool.idle /\ pool'.size = pool.size /\ pool'.sent = pool.sent
      /\ pool'.asking = pool.asking - 1 /\ pool'.starting = pool.starting - 1
      /\ pool'.live = IF ready THEN pool.live ELSE pool.live - 1
      /\ arriving' = IF ready THEN arriving \cup {w} ELSE arriving
  <2>1. CASE ready BY <2>1 DEF StartAnswered, GuestsTypeOK, PoolType
  <2>2. CASE ~ready BY <2>2 DEF StartAnswered, GuestsTypeOK, PoolType
  <2> QED BY <2>1, <2>2
<1>7. woken' = woken \/ woken' = Waiters BY DEF StartAnswered, Bump
<1> HIDE DEF replies, ready
<1>8. ready => replies # << >> BY DEF ready
<1>9. Busy' = Busy /\ BusyIds' = BusyIds /\ IdleIds' = IdleIds BY <1>1, <1>6 DEF Busy, BusyIds, IdleIds
<1>10. Coming' \subseteq Coming BY <1>3, <1>4, <1>5, <1>6, <1>8 DEF Coming
<1>11. HeldOnce' BY <1>1, <1>5, <1>6, <1>9 DEF HeldOnce, Working
<1>12. HeldApart' /\ HeldKnown'
  <2>1. CASE ready
    <3>1. /\ arriving' = arriving \cup {w} /\ ReplyIds' = ReplyIds \ {w} /\ w \in ReplyIds
      BY <1>4, <1>5, <1>6, <1>8, <2>1
    <3> QED BY <1>3, <1>6, <1>9, <3>1 DEF HeldApart, HeldKnown
  <2>2. CASE ~ready
    <3>1. arriving' = arriving /\ ReplyIds' \subseteq ReplyIds BY <1>5, <1>6, <2>2
    <3> QED BY <1>3, <1>6, <1>9, <3>1 DEF HeldApart, HeldKnown
  <2> QED BY <2>1, <2>2
<1>13. AllTame BY <1>1, ProcessRange DEF AllTame, Tame, Unused, ProcessType
<1>14. Isolated'
  <2>1. broker.next <= broker'.next BY <1>3 DEF GuestsTypeOK, BrokerType
  <2>2. \A b \in Attempts : tries'[b].at \notin {"idle", "done"} => tries'[b].key # NoWorker
    BY <1>1 DEF Isolated
  <2> QED BY <1>1, <1>6, <1>9, <1>10, <1>12, <1>13, <2>1, <2>2, IsolatedKept
<1>15. SlotsCovered'
  <2> DEFINE l == Len(pool.idle)
             b == Cardinality(Busy)
             n == pool.asking
             c == Cardinality(arriving)
  <2>1. /\ l \in Int /\ b \in Int /\ n \in Int /\ c \in Int /\ pool.live \in Int /\ pool.size \in Int
        /\ pool.starting \in Int
    BY FiniteHolders, SizeType DEF GuestsTypeOK, PoolType
  <2>2. Cardinality(arriving') = IF ready THEN c + 1 ELSE c
    <3>1. CASE ready
      <4>1. w \notin arriving BY <1>4, <1>8, <3>1 DEF HeldApart
      <4> QED BY <1>6, <3>1, <4>1, FiniteHolders, FS_AddElement
    <3>2. CASE ~ready BY <1>6, <3>2
    <3> QED BY <3>1, <3>2
  <2>3. SlotsUsed = l + b + n + c BY DEF SlotsUsed
  <2>4. SlotsUsed' = Len(pool'.idle) + Cardinality(Busy') + pool'.asking + Cardinality(arriving') BY DEF SlotsUsed
  <2>5. SlotsUsed' = l + b + (n - 1) + (IF ready THEN c + 1 ELSE c) BY <1>6, <1>9, <2>2, <2>4
  <2> HIDE DEF l, b, n, c
  <2>6. SlotsUsed' = (IF ready THEN SlotsUsed ELSE SlotsUsed - 1) /\ SlotsUsed \in Int BY <2>1, <2>3, <2>5
  <2> QED BY <1>6, <2>1, <2>6 DEF SlotsCovered
<1>16. Listed' BY <1>3, <1>5, <1>6, <1>13, ListedKept DEF replies
<1>17. KillsFind'
  <2> SUFFICES ASSUME broker'.alive, NEW id \in ProcessIds, process'[id].alive, id \notin HeldIds'
               PROVE  id \in broker'.children /\ \E i \in DOMAIN pool'.sent : pool'.sent[i] = <<"KILL", id>>
    <3>1. ProcessIds' = ProcessIds BY <1>6 DEF ProcessIds
    <3> QED BY <3>1 DEF KillsFind
  <2>2. id \in Nat BY ProcessRange
  <2>3. id \notin Holders' BY <2>2, HoldersNow
  <2>4. id \notin Holders
    <3>1. CASE replies = << >> \/ ready
      <4>1. Holders \subseteq Holders' BY <1>3, <1>4, <1>5, <1>6, <1>8, <1>9, <3>1 DEF Holders, Coming
      <4> QED BY <2>3, <4>1
    <3>2. CASE replies # << >> /\ ~ready
      <4>1. Holders \subseteq Holders' \cup {w} BY <1>3, <1>4, <1>5, <1>6, <1>9, <3>2 DEF Holders, Coming
      <4>2. Head(replies)[1] # "READY" BY <3>2 DEF ready
      <4>3. ~process[w].alive BY <1>4, <3>2, <4>2 DEF Listed, replies
      <4> QED BY <1>1, <2>3, <4>1, <4>3
    <3> QED BY <3>1, <3>2
  <2>5. id \notin HeldIds BY <2>2, <2>4, HeldAreHolders
  <2>6. broker.alive /\ process[id].alive BY <1>1, <1>3
  <2> QED BY <1>3, <1>6, <2>5, <2>6 DEF KillsFind
<1>18. Informed'
  <2>1. CASE woken' = woken BY <1>1, <1>6, <2>1, InformedKept
  <2>2. CASE woken' = Waiters BY <1>1, <2>2 DEF Informed, Uninformed, Waiters
  <2> QED BY <1>7, <2>1, <2>2
<1>19. BudgetInv' BY <1>1, <1>13, BudgetKeeps
<1> QED BY <1>11, <1>12, <1>14, <1>15, <1>16, <1>17, <1>18, <1>19

\* park: a worker that arrived is there for whoever is told.
LEMMA ArrivedKeeps ==
    ASSUME GuestsInv, GuestsTypeOK', NEW w \in ProcessIds, Arrived(w) PROVE GuestsInv'
<1> USE DEF GuestsInv
<1> DEFINE e == [id |-> w, served |-> 0, key |-> NoWorker]
<1>1. /\ w \in arriving /\ arriving' = arriving \ {w} /\ woken' = Waiters
      /\ broker' = broker /\ process' = process /\ tries' = tries
  BY DEF Arrived, Bump
<1>2. w \in Nat BY ProcessRange
<1>3. e \in IdleWorker /\ e.id = w /\ e.served = 0 /\ e.key = NoWorker BY <1>2 DEF IdleWorker, Keys
<1>4. w \notin IdleIds BY <1>1 DEF HeldApart
<1>5. pool.idle \in Seq(IdleWorker) /\ Distinct(pool.idle) BY DEF GuestsTypeOK, PoolType, HeldOnce
<1>6. /\ pool'.idle = Append(pool.idle, e) /\ pool'.size = pool.size /\ pool'.live = pool.live
      /\ pool'.starting = pool.starting /\ pool'.asking = pool.asking /\ pool'.sent = pool.sent
  BY DEF Arrived, GuestsTypeOK, PoolType
<1> HIDE DEF e
<1>7. /\ Distinct(pool'.idle) /\ Len(pool'.idle) = Len(pool.idle) + 1
      /\ IdsOf(pool'.idle) = IdsOf(pool.idle) \cup {w}
      /\ \A j \in DOMAIN pool'.idle : pool'.idle[j] = e \/ \E k \in DOMAIN pool.idle : pool'.idle[j] = pool.idle[k]
  BY <1>3, <1>4, <1>5, <1>6, AppendIdle DEF IdleIds
<1>8. /\ IdleIds' = IdleIds \cup {w} /\ ReplyIds' = ReplyIds /\ Coming' \subseteq Coming
      /\ Busy' = Busy /\ BusyIds' = BusyIds
  BY <1>1, <1>7 DEF IdleIds, ReplyIds, Coming, Busy, BusyIds
<1>9. HeldOnce' BY <1>1, <1>7, <1>8 DEF HeldOnce, Working
<1>10. HeldApart' /\ HeldKnown' BY <1>1, <1>6, <1>8 DEF HeldApart, HeldKnown
<1>11. AllTame BY <1>1, ProcessRange DEF AllTame, Tame, Unused, ProcessType
<1>12. Isolated'
  <2>1. broker.next <= broker'.next BY <1>1 DEF GuestsTypeOK, BrokerType
  <2>2. IdleFits(e, process[w])
    <3>1. Fresh(process[w]) BY <1>1 DEF Isolated, Coming
    <3>2. RETIRE_AFTER \in Nat /\ RETIRE_AFTER > 0 BY GuestsAssumption
    <3> QED BY <1>3, <3>1, <3>2 DEF Fresh, IdleFits
  <2>3. \A i \in DOMAIN pool'.idle : \/ \E j \in DOMAIN pool.idle : pool'.idle[i] = pool.idle[j]
                                     \/ IdleFits(pool'.idle[i], process[pool'.idle[i].id])
    BY <1>3, <1>7, <2>2
  <2>4. \A b \in Attempts : tries'[b].at \notin {"idle", "done"} => tries'[b].key # NoWorker
    BY <1>1 DEF Isolated
  <2> QED BY <1>1, <1>6, <1>8, <1>10, <1>11, <2>1, <2>3, <2>4, IsolatedKept
<1>13. SlotsCovered'
  <2> DEFINE l == Len(pool.idle)
             b == Cardinality(Busy)
             n == pool.asking
             c == Cardinality(arriving)
  <2>1. l \in Int /\ b \in Int /\ n \in Int /\ c \in Int BY FiniteHolders DEF GuestsTypeOK, PoolType
  <2>2. Cardinality(arriving') = c - 1 BY <1>1, FiniteHolders, FS_RemoveElement
  <2>3. SlotsUsed = l + b + n + c BY DEF SlotsUsed
  <2>4. SlotsUsed' = Len(pool'.idle) + Cardinality(Busy') + pool'.asking + Cardinality(arriving') BY DEF SlotsUsed
  <2>5. SlotsUsed' = (l + 1) + b + n + (c - 1) BY <1>6, <1>7, <1>8, <2>2, <2>4
  <2> HIDE DEF l, b, n, c
  <2>6. SlotsUsed' = SlotsUsed BY <2>1, <2>3, <2>5
  <2> QED BY <1>6, <2>6 DEF SlotsCovered
<1>14. Listed' BY <1>1, <1>6, <1>11, ListedKept
<1>15. KillsFind'
  <2>1. \A id \in ProcessIds : process'[id].alive => process[id].alive BY <1>1
  <2>2. Holders \subseteq Holders' BY <1>1, <1>8 DEF Holders, Coming
  <2>3. Extends(pool'.sent, pool.sent) BY <1>6 DEF Extends
  <2> QED BY <1>1, <1>6, <1>14, <2>1, <2>2, <2>3, KillsStay
<1>16. Informed' BY <1>1 DEF Informed, Uninformed, Waiters
<1>17. BudgetInv' BY <1>1, <1>11, BudgetKeeps
<1> QED BY <1>9, <1>10, <1>12, <1>13, <1>14, <1>15, <1>16, <1>17

-----------------------------------------------------------------------------
(* The broker.                                                             *)

\* serve reads a request to start a worker, and starts it or has no room.
LEMMA BrokerStartReadKeeps ==
    ASSUME GuestsInv, GuestsTypeOK', BrokerReads, Head(pool.sent)[1] = "START" PROVE GuestsInv'
<1> USE DEF GuestsInv
<1> DEFINE w == broker.next + 1
           swept == Alive(broker.children)
           full == Cardinality(swept) + Cardinality(broker.starting) >= 2 * pool.size
<1>1. /\ broker.alive /\ pool.sent # << >> /\ pool' = [pool EXCEPT !.sent = Tail(@)]
      /\ broker.next < MaxStarts[pool.size]
      /\ broker' = IF full THEN [broker EXCEPT !.next = w, !.children = swept, !.replies = Append(@, <<"FAILED", w>>)]
                   ELSE [broker EXCEPT !.next = w, !.children = swept, !.starting = @ \cup {w}]
      /\ process' = process /\ arriving' = arriving /\ tries' = tries /\ woken' = woken
  BY DEF BrokerReads
<1>2. /\ broker \in BrokerType /\ broker.next \in Nat /\ broker.replies \in Seq(Reply)
      /\ AnsweredOnce(broker.replies)
  BY DEF GuestsTypeOK, BrokerType, HeldOnce
<1> HIDE DEF swept, full
<1>3. /\ broker'.next = w /\ broker'.children = swept /\ broker'.alive = broker.alive
      /\ broker'.replies = IF full THEN Append(broker.replies, <<"FAILED", w>>) ELSE broker.replies
      /\ broker'.starting = IF full THEN broker.starting ELSE broker.starting \cup {w}
  BY <1>1, <1>2 DEF BrokerType
<1>4. /\ pool'.idle = pool.idle /\ pool'.size = pool.size /\ pool'.sent = Tail(pool.sent)
      /\ pool'.live = pool.live /\ pool'.starting = pool.starting /\ pool'.asking = pool.asking
  BY <1>1 DEF GuestsTypeOK, PoolType
<1>5. w \in Nat /\ w > broker.next /\ w \in ProcessIds /\ ProcessIds' = ProcessIds
  BY <1>1, <1>2, <1>4, ProcessRange DEF ProcessIds
<1>6. w \notin Holders BY <1>2, <1>5 DEF HeldKnown, Holders, Coming
<1>7. <<"FAILED", w>> \in Reply /\ <<"FAILED", w>>[2] = w BY <1>5 DEF Reply
<1>8. full => /\ AnsweredOnce(broker'.replies) /\ ReplyIds' = ReplyIds \cup {w}
              /\ \A j \in DOMAIN broker'.replies : \/ broker'.replies[j] = <<"FAILED", w>>
                                                   \/ \E k \in DOMAIN broker.replies : broker'.replies[j] = broker.replies[k]
  <2> DEFINE e == <<"FAILED", w>>
  <2>1. e \in Reply /\ e[2] = w BY <1>7
  <2>2. w \notin Answered(broker.replies) BY <1>6 DEF ReplyIds, Holders, Coming
  <2>3. full => broker'.replies = Append(broker.replies, e) BY <1>3
  <2> HIDE DEF e, w
  <2>4. /\ AnsweredOnce(Append(broker.replies, e))
        /\ Answered(Append(broker.replies, e)) = Answered(broker.replies) \cup {e[2]}
        /\ \A j \in DOMAIN Append(broker.replies, e) :
              \/ Append(broker.replies, e)[j] = e
              \/ \E k \in DOMAIN broker.replies : Append(broker.replies, e)[j] = broker.replies[k]
    BY <1>2, <2>1, <2>2, AppendReplies
  <2>5. full => ReplyIds' = ReplyIds \cup {w} BY <2>1, <2>3, <2>4 DEF ReplyIds
  <2> QED BY <2>3, <2>4, <2>5 DEF e
<1>9. ~full => broker'.replies = broker.replies /\ ReplyIds' = ReplyIds BY <1>3 DEF ReplyIds
<1>10. Busy' = Busy /\ BusyIds' = BusyIds /\ IdleIds' = IdleIds BY <1>1, <1>4 DEF Busy, BusyIds, IdleIds
<1>11. Coming' = Coming \cup {w} BY <1>1, <1>3, <1>8, <1>9 DEF Coming
<1>12. HeldOnce' BY <1>1, <1>2, <1>4, <1>8, <1>9, <1>10 DEF HeldOnce, Working
<1>13. HeldApart'
  <2>1. CASE full BY <1>1, <1>3, <1>6, <1>8, <1>10, <2>1 DEF HeldApart, Holders, Coming
  <2>2. CASE ~full BY <1>1, <1>3, <1>6, <1>9, <1>10, <2>2 DEF HeldApart, Holders, Coming
  <2> QED BY <2>1, <2>2
<1>14. HeldKnown'
  <2>1. broker'.next <= MaxStarts[pool'.size] BY <1>1, <1>2, <1>3, <1>4, ProcessRange
  <2>2. IdleIds' \cup BusyIds' \cup Coming' \subseteq 1 .. broker'.next
    BY <1>2, <1>3, <1>5, <1>10, <1>11 DEF HeldKnown, Coming
  <2> QED BY <2>1, <2>2 DEF HeldKnown, Coming
<1>15. AllTame BY <1>1, ProcessRange DEF AllTame, Tame, Unused, ProcessType
<1>16. Isolated'
  <2>1. broker.next <= broker'.next BY <1>2, <1>3
  <2>2. \A b \in Attempts : tries'[b].at \notin {"idle", "done"} => tries'[b].key # NoWorker
    BY <1>1 DEF Isolated
  <2>3. \A id \in Coming' : id \in Coming \/ id > broker.next BY <1>5, <1>11
  <2> QED BY <1>1, <1>4, <1>10, <1>14, <1>15, <2>1, <2>2, <2>3, IsolatedKept
<1>17. SlotsCovered'
  <2>1. SlotsUsed' = SlotsUsed BY <1>1, <1>4, <1>10 DEF SlotsUsed
  <2> QED BY <1>4, <2>1 DEF SlotsCovered
<1>18. Listed'
  <2>1. \A id \in ProcessIds : process'[id].alive => id \in broker'.children
    BY <1>1, <1>3 DEF Listed, Alive, swept
  <2>2. ~process[w].alive BY <1>5 DEF Isolated, Unborn
  <2>3. ASSUME NEW j \in DOMAIN broker'.replies, broker'.replies[j][1] # "READY"
        PROVE  ~process'[broker'.replies[j][2]].alive
    <3>1. CASE broker'.replies[j] = <<"FAILED", w>> BY <1>1, <1>7, <2>2, <3>1
    <3>2. CASE \E k \in DOMAIN broker.replies : broker'.replies[j] = broker.replies[k]
      BY <1>1, <2>3, <3>2 DEF Listed
    <3> QED BY <1>8, <1>9, <2>3, <3>1, <3>2
  <2> QED BY <1>5, <2>1, <2>3 DEF Listed
<1>19. KillsFind'
  <2> SUFFICES ASSUME NEW id \in ProcessIds, process'[id].alive, id \notin HeldIds'
               PROVE  id \in broker'.children /\ \E i \in DOMAIN pool'.sent : pool'.sent[i] = <<"KILL", id>>
    BY <1>5 DEF KillsFind
  <2>1. id \in Nat BY ProcessRange
  <2>2. id \notin HeldIds BY <1>10, <1>11, <2>1, HoldersNow, HeldAreHolders DEF Holders
  <2>3. PICK i \in DOMAIN pool.sent : pool.sent[i] = <<"KILL", id>> BY <1>1, <2>2 DEF KillsFind
  <2>4. pool.sent \in Seq(Message) BY DEF GuestsTypeOK, PoolType
  <2>5. i # 1 BY <1>1, <2>3, <2>4
  <2>6. i - 1 \in DOMAIN pool'.sent /\ pool'.sent[i - 1] = <<"KILL", id>> BY <1>1, <1>4, <2>3, <2>4, <2>5
  <2>7. id \in broker'.children BY <1>1, <1>3, <1>5, <1>18 DEF Listed
  <2> QED BY <2>6, <2>7
<1>20. Informed' BY <1>1, <1>4, InformedKept
<1>21. BudgetInv' BY <1>1, <1>15, BudgetKeeps
<1> QED BY <1>12, <1>13, <1>14, <1>16, <1>17, <1>18, <1>19, <1>20, <1>21

\* serve reads a request to kill: a child ends, and any other id is ignored.
LEMMA BrokerKillReadKeeps ==
    ASSUME GuestsInv, GuestsTypeOK', BrokerReads, Head(pool.sent)[1] # "START" PROVE GuestsInv'
<1> USE DEF GuestsInv
<1> DEFINE w == Head(pool.sent)[2]
<1>1. /\ broker.alive /\ pool.sent # << >> /\ pool' = [pool EXCEPT !.sent = Tail(@)]
      /\ broker' = [broker EXCEPT !.children = Alive(@) \ {w}]
      /\ process' = IF w \in broker.children THEN [process EXCEPT ![w] = Unborn] ELSE process
      /\ arriving' = arriving /\ tries' = tries /\ woken' = woken
  BY DEF BrokerReads
<1>2. /\ broker'.next = broker.next /\ broker'.children = Alive(broker.children) \ {w}
      /\ broker'.alive = broker.alive /\ broker'.replies = broker.replies /\ broker'.starting = broker.starting
  BY <1>1 DEF GuestsTypeOK, BrokerType
<1>3. /\ pool'.idle = pool.idle /\ pool'.size = pool.size /\ pool'.sent = Tail(pool.sent)
      /\ pool'.live = pool.live /\ pool'.starting = pool.starting /\ pool'.asking = pool.asking
  BY <1>1 DEF GuestsTypeOK, PoolType
<1>4. ProcessIds' = ProcessIds BY <1>3 DEF ProcessIds
<1>5. \A id \in ProcessIds : process'[id] = IF id = w /\ w \in broker.children THEN Unborn ELSE process[id]
  BY <1>1 DEF GuestsTypeOK
<1> HIDE DEF w
<1>6. SameHolders BY <1>1, <1>2, <1>3 DEF SameHolders
<1>7. /\ HeldOnce' /\ HeldApart' /\ HeldKnown' /\ Busy' = Busy /\ Holders' = Holders /\ Coming' = Coming
  BY <1>6, HoldersSame
<1>8. AllTame
  <2> SUFFICES ASSUME NEW id \in ProcessIds PROVE Tame(id) BY DEF AllTame
  <2>1. process[id] \in ProcessType BY ProcessRange
  <2>2. CASE process'[id] = process[id] BY <2>1, <2>2 DEF Tame, Unused, ProcessType
  <2>3. CASE process'[id] = Unborn
    <3>1. id > broker.next => process[id] = Unborn BY DEF Isolated
    <3> QED BY <2>1, <2>3, <3>1 DEF Tame, Unused, Unborn, ProcessType
  <2> QED BY <1>5, <2>2, <2>3
<1>9. Isolated'
  <2>1. broker.next <= broker'.next BY <1>2 DEF GuestsTypeOK, BrokerType
  <2>2. \A b \in Attempts : tries'[b].at \notin {"idle", "done"} => tries'[b].key # NoWorker
    BY <1>1 DEF Isolated
  <2> QED BY <1>1, <1>3, <1>7, <1>8, <2>1, <2>2, IsolatedKept
<1>10. SlotsCovered'
  <2>1. SlotsUsed' = SlotsUsed BY <1>1, <1>3, <1>7 DEF SlotsUsed
  <2> QED BY <1>3, <2>1 DEF SlotsCovered
<1>11. ~process'[w].alive \/ w \notin ProcessIds BY <1>1, <1>5 DEF Listed, Unborn
<1>12. Listed'
  <2>1. \A id \in broker.children : process'[id].alive => id \in broker'.children \/ id \notin ProcessIds
    BY <1>2, <1>5, <1>11 DEF Alive, Unborn
  <2>2. \A id \in ProcessIds : process'[id].alive => id \in broker'.children
    BY <1>1, <1>8, <2>1 DEF Listed, AllTame, Tame
  <2>3. ASSUME NEW j \in DOMAIN broker'.replies, broker'.replies[j][1] # "READY"
        PROVE  ~process'[broker'.replies[j][2]].alive
    <3>1. broker.replies[j][2] \in ProcessIds BY <1>2, <2>3, ProcessRange DEF Coming, ReplyIds, Answered
    <3> QED BY <1>2, <1>8, <2>3, <3>1 DEF Listed, AllTame, Tame
  <2> QED BY <1>4, <2>2, <2>3 DEF Listed
<1>13. KillsFind'
  <2> SUFFICES ASSUME NEW id \in ProcessIds, process'[id].alive, id \notin HeldIds'
               PROVE  id \in broker'.children /\ \E i \in DOMAIN pool'.sent : pool'.sent[i] = <<"KILL", id>>
    BY <1>4 DEF KillsFind
  <2>1. id \in Nat BY ProcessRange
  <2>2. id \notin HeldIds BY <1>7, <2>1, HoldersNow, HeldAreHolders
  <2>3. process[id].alive BY <1>8 DEF AllTame, Tame
  <2>4. PICK i \in DOMAIN pool.sent : pool.sent[i] = <<"KILL", id>> BY <1>1, <2>2, <2>3 DEF KillsFind
  <2>5. pool.sent \in Seq(Message) BY DEF GuestsTypeOK, PoolType
  <2>6. i # 1
    <3>1. id # w BY <1>11
    <3>2. <<"KILL", id>>[2] = id OBVIOUS
    <3> QED BY <1>1, <2>4, <2>5, <3>1, <3>2 DEF w
  <2>7. i - 1 \in DOMAIN pool'.sent /\ pool'.sent[i - 1] = <<"KILL", id>> BY <1>1, <1>3, <2>4, <2>5, <2>6
  <2>8. id \in broker'.children BY <1>1, <1>2, <1>4, <1>12 DEF Listed
  <2> QED BY <2>7, <2>8
<1>14. Informed' BY <1>1, <1>3, InformedKept
<1>15. BudgetInv' BY <1>1, <1>8, BudgetKeeps
<1> QED BY <1>7, <1>9, <1>10, <1>12, <1>13, <1>14, <1>15

\* Broker::start has a child and lists it.
LEMMA BrokerListsKeeps ==
    ASSUME GuestsInv, GuestsTypeOK', NEW w \in broker.starting, broker.alive, ~process[w].alive,
           process' = [process EXCEPT ![w].alive = TRUE], broker' = [broker EXCEPT !.children = @ \cup {w}],
           UNCHANGED <<pool, arriving, tries, woken, made>>
    PROVE  GuestsInv'
<1> USE DEF GuestsInv
<1>1. w \in ProcessIds /\ w \in HeldIds /\ w \notin ReplyIds /\ w \notin BusyIds /\ process[w] \in ProcessType
  BY ProcessRange DEF Coming, HeldIds, HeldApart
<1>2. /\ broker'.children = broker.children \cup {w} /\ broker'.alive = broker.alive
      /\ broker'.replies = broker.replies /\ broker'.starting = broker.starting /\ broker'.next = broker.next
  BY DEF GuestsTypeOK, BrokerType
<1>3. /\ process'[w].alive /\ process'[w].runs = process[w].runs /\ process'[w].seen = process[w].seen
      /\ \A id \in ProcessIds : id # w => process'[id] = process[id]
  BY <1>1 DEF GuestsTypeOK, ProcessType
<1>4. SameHolders BY <1>2 DEF SameHolders
<1>5. /\ HeldOnce' /\ HeldApart' /\ HeldKnown' /\ Busy' = Busy /\ Holders' = Holders /\ Coming' = Coming
  BY <1>4, HoldersSame
<1>6. Isolated'
  <2>1. \A id \in ProcessIds : Unused(id)
    <3> SUFFICES ASSUME NEW id \in ProcessIds PROVE Unused(id) OBVIOUS
    <3>1. process[id] \in ProcessType BY ProcessRange
    <3>2. CASE id # w BY <1>3, <3>1, <3>2 DEF Unused, ProcessType
    <3>3. CASE id = w
      <4>1. w \in 1 .. broker.next /\ broker.next \in Nat BY DEF HeldKnown, GuestsTypeOK, BrokerType
      <4>2. ~(id > broker.next) BY <3>3, <4>1
      <4> QED BY <1>3, <3>1, <3>3, <4>2 DEF Unused, ProcessType
    <3> QED BY <3>2, <3>3
  <2>2. broker.next <= broker'.next BY <1>2 DEF GuestsTypeOK, BrokerType
  <2>3. \A b \in Attempts : tries'[b].at \notin {"idle", "done"} => tries'[b].key # NoWorker BY DEF Isolated
  <2> QED BY <1>5, <2>1, <2>2, <2>3, IsolatedStays
<1>7. SlotsCovered'
  <2>1. SlotsUsed' = SlotsUsed BY <1>5 DEF SlotsUsed
  <2> QED BY <2>1 DEF SlotsCovered
<1>8. ProcessIds' = ProcessIds BY DEF ProcessIds
<1>9. Listed'
  <2>1. \A id \in ProcessIds : process'[id].alive => id \in broker'.children BY <1>2, <1>3 DEF Listed
  <2>2. \A j \in DOMAIN broker.replies : broker.replies[j][2] \in ProcessIds /\ broker.replies[j][2] # w
    BY <1>1, ProcessRange DEF Coming, ReplyIds, Answered
  <2>3. \A j \in DOMAIN broker.replies : broker.replies[j][1] # "READY" => ~process'[broker.replies[j][2]].alive
    BY <1>3, <2>2 DEF Listed
  <2> QED BY <1>2, <1>8, <2>1, <2>3 DEF Listed
<1>10. HeldIds' = HeldIds BY <1>2 DEF HeldIds
<1>11. KillsFind' BY <1>1, <1>2, <1>3, <1>8, <1>10 DEF KillsFind
<1>12. Informed' BY InformedKept
<1>13. BudgetInv'
  <2>1. ASSUME NEW b \in Attempts, tries[b].at \in Working
        PROVE  Affordable(tries[b], process'[tries[b].worker])
    <3>1. b \in Busy /\ tries[b].worker \in BusyIds BY <2>1 DEF HeldOnce, Busy, BusyIds
    <3>2. tries[b].worker # w /\ tries[b].worker \in ProcessIds BY <1>1, <3>1, ProcessRange
    <3> QED BY <1>3, <2>1, <3>2 DEF BudgetInv
  <2> QED BY <2>1 DEF BudgetInv, Working
<1> QED BY <1>5, <1>6, <1>7, <1>9, <1>11, <1>12, <1>13

\* Broker::start answers: with the child it listed, or with none.
LEMMA BrokerAnswersKeeps ==
    ASSUME GuestsInv, GuestsTypeOK', NEW w \in broker.starting, NEW kind \in {"READY", "FAILED"},
           kind = "FAILED" => ~process[w].alive,
           broker' = [broker EXCEPT !.starting = @ \ {w}, !.replies = Append(@, <<kind, w>>)],
           UNCHANGED <<pool, process, arriving, tries, woken, made>>
    PROVE  GuestsInv'
<1> USE DEF GuestsInv
<1> DEFINE e == <<kind, w>>
<1>1. w \in Nat /\ w \in Coming /\ w \notin ReplyIds /\ w \notin IdleIds /\ w \notin BusyIds /\ w \notin arriving
  BY DEF Coming, HeldApart, GuestsTypeOK, BrokerType
<1>2. e \in Reply /\ e[2] = w /\ e[1] = kind BY <1>1 DEF Reply
<1>3. broker \in BrokerType /\ broker.replies \in Seq(Reply) /\ AnsweredOnce(broker.replies)
  BY DEF GuestsTypeOK, BrokerType, HeldOnce
<1>4. /\ broker'.children = broker.children /\ broker'.alive = broker.alive /\ broker'.next = broker.next
      /\ broker'.replies = Append(broker.replies, e) /\ broker'.starting = broker.starting \ {w}
  BY <1>3 DEF BrokerType
<1> HIDE DEF e
<1>5. w \notin Answered(broker.replies) BY <1>1 DEF ReplyIds
<1>6. /\ AnsweredOnce(broker'.replies) /\ Answered(broker'.replies) = Answered(broker.replies) \cup {w}
      /\ \A j \in DOMAIN broker'.replies : broker'.replies[j] = e \/ \E k \in DOMAIN broker.replies : broker'.replies[j] = broker.replies[k]
  <2>1. e[2] \notin Answered(broker.replies) BY <1>2, <1>5
  <2>2. /\ AnsweredOnce(Append(broker.replies, e))
        /\ Answered(Append(broker.replies, e)) = Answered(broker.replies) \cup {e[2]}
        /\ \A j \in DOMAIN Append(broker.replies, e) :
              \/ Append(broker.replies, e)[j] = e
              \/ \E k \in DOMAIN broker.replies : Append(broker.replies, e)[j] = broker.replies[k]
    BY <1>2, <1>3, <2>1, AppendReplies
  <2> QED BY <1>2, <1>4, <2>2
<1>7. ReplyIds' = ReplyIds \cup {w} BY <1>6 DEF ReplyIds
<1>8. Busy' = Busy /\ BusyIds' = BusyIds /\ IdleIds' = IdleIds /\ ProcessIds' = ProcessIds
  BY DEF Busy, BusyIds, IdleIds, ProcessIds
<1>9. Coming' = Coming BY <1>4, <1>7 DEF Coming
<1>10. HeldOnce' BY <1>6, <1>8 DEF HeldOnce, Working
<1>11. HeldApart' BY <1>1, <1>4, <1>7, <1>8 DEF HeldApart
<1>12. HeldKnown' BY <1>4, <1>8, <1>9 DEF HeldKnown, Coming
<1>13. AllTame BY ProcessRange DEF AllTame, Tame, Unused, ProcessType
<1>14. Isolated'
  <2>1. broker.next <= broker'.next BY <1>4 DEF GuestsTypeOK, BrokerType
  <2>2. \A b \in Attempts : tries'[b].at \notin {"idle", "done"} => tries'[b].key # NoWorker BY DEF Isolated
  <2> QED BY <1>8, <1>9, <1>12, <1>13, <2>1, <2>2, IsolatedKept
<1>15. SlotsCovered'
  <2>1. SlotsUsed' = SlotsUsed BY <1>8 DEF SlotsUsed
  <2> QED BY <2>1 DEF SlotsCovered
<1>16. Listed'
  <2>1. \A id \in ProcessIds : process'[id].alive => id \in broker'.children \/ ~broker'.alive BY <1>4 DEF Listed
  <2>2. ASSUME NEW j \in DOMAIN broker'.replies, broker'.replies[j][1] # "READY"
        PROVE  ~process'[broker'.replies[j][2]].alive
    <3>1. CASE broker'.replies[j] = e BY <1>2, <2>2, <3>1
    <3>2. CASE \E k \in DOMAIN broker.replies : broker'.replies[j] = broker.replies[k]
      BY <2>2, <3>2 DEF Listed
    <3> QED BY <1>6, <3>1, <3>2
  <2> QED BY <1>8, <2>1, <2>2 DEF Listed
<1>17. KillsFind'
  <2>1. Holders \subseteq Holders' BY <1>8, <1>9 DEF Holders
  <2>2. Extends(pool'.sent, pool.sent) BY DEF Extends
  <2> QED BY <1>4, <1>16, <2>1, <2>2, KillsStay
<1>18. Informed' BY InformedKept
<1>19. BudgetInv' BY <1>13, BudgetKeeps
<1> QED BY <1>10, <1>11, <1>12, <1>14, <1>15, <1>16, <1>17, <1>18, <1>19

\* The broker ends: its children stay as they are, and nobody is asked to kill.
LEMMA BrokerDiesKeeps == ASSUME GuestsInv, GuestsTypeOK', BrokerDies PROVE GuestsInv'
<1> USE DEF GuestsInv
<1>1. /\ broker'.alive = FALSE /\ broker'.next = broker.next /\ broker'.replies = broker.replies
      /\ broker'.starting = {} /\ UNCHANGED <<process, arriving, tries, woken, made>>
  BY DEF BrokerDies, GuestsTypeOK, BrokerType
<1>2. /\ pool'.idle = pool.idle /\ pool'.size = pool.size /\ pool'.live = pool.live
      /\ pool'.starting = pool.starting /\ pool'.asking = pool.asking
  BY DEF BrokerDies, GuestsTypeOK, PoolType
<1>3. /\ Busy' = Busy /\ BusyIds' = BusyIds /\ IdleIds' = IdleIds /\ ReplyIds' = ReplyIds
      /\ ProcessIds' = ProcessIds /\ Coming' \subseteq Coming
  BY <1>1, <1>2 DEF Busy, BusyIds, IdleIds, ReplyIds, ProcessIds, Coming
<1>4. HeldOnce' BY <1>1, <1>2, <1>3 DEF HeldOnce, Working
<1>5. HeldApart' /\ HeldKnown' BY <1>1, <1>2, <1>3 DEF HeldApart, HeldKnown
<1>6. AllTame BY <1>1, ProcessRange DEF AllTame, Tame, Unused, ProcessType
<1>7. Isolated'
  <2>1. broker.next <= broker'.next BY <1>1 DEF GuestsTypeOK, BrokerType
  <2>2. \A b \in Attempts : tries'[b].at \notin {"idle", "done"} => tries'[b].key # NoWorker BY <1>1 DEF Isolated
  <2> QED BY <1>1, <1>2, <1>3, <1>5, <1>6, <2>1, <2>2, IsolatedKept
<1>8. SlotsCovered'
  <2>1. SlotsUsed' = SlotsUsed BY <1>1, <1>2, <1>3 DEF SlotsUsed
  <2> QED BY <1>2, <2>1 DEF SlotsCovered
<1>9. Listed' BY <1>1 DEF Listed
<1>10. KillsFind' BY <1>1 DEF KillsFind
<1>11. Informed' BY <1>1, <1>2, InformedKept
<1>12. BudgetInv' BY <1>1, <1>6, BudgetKeeps
<1> QED BY <1>4, <1>5, <1>7, <1>8, <1>9, <1>10, <1>11, <1>12

-----------------------------------------------------------------------------
(* Every action is one of these steps.                                     *)

\* An attempt that has no worker yet owes nothing.
Unstarted == \A a \in Waiters : tries[a].pending = 0 /\ tries[a].doing = "guest" /\ tries[a].stored = 0
PoolInv == GuestsInv /\ Unstarted
Waiting == {"look", "evict", "add", "wait"}

LEMMA GrownSelf == ASSUME NEW p \in PoolType PROVE Grown(p, p)
<1>1. \A n \in {0} : p.live + n = p.live /\ p.starting + n = p.starting /\ p.asking + n = p.asking
  BY DEF PoolType
<1>2. 0 \in Nat /\ p.live = p.live + 0 /\ p.starting = p.starting + 0 /\ p.asking = p.asking + 0 BY <1>1
<1> QED BY <1>2 DEF Grown, Extends

LEMMA IdlingType == Idling \in TryType
BY DEF TryType, Grants, Idling, Places, Keys

\* The state is well typed when one attempt takes a step.
LEMMA TryTypes ==
    ASSUME GuestsTypeOK, Unstarted, NEW a \in Attempts, NEW t \in TryType,
           t.at \in Waiting => t.pending = 0 /\ t.doing = "guest" /\ t.stored = 0,
           tries' = [tries EXCEPT ![a] = t], pool' \in PoolType, pool'.size = pool.size,
           broker' \in BrokerType, process' \in [ProcessIds -> ProcessType], arriving' \in SUBSET Nat,
           woken' \in SUBSET Attempts, made' \in Nat
    PROVE  GuestsTypeOK' /\ Unstarted'
<1>1. tries \in [Attempts -> TryType] BY DEF GuestsTypeOK
<1>2. tries' \in [Attempts -> TryType] BY <1>1
<1>3. ProcessIds' = ProcessIds BY DEF ProcessIds
<1>4. GuestsTypeOK' BY <1>2, <1>3 DEF GuestsTypeOK
<1>5. Unstarted'
  <2> SUFFICES ASSUME NEW b \in Attempts, tries'[b].at \in Waiting
               PROVE  tries'[b].pending = 0 /\ tries'[b].doing = "guest" /\ tries'[b].stored = 0
    BY DEF Unstarted, Waiters, Waiting
  <2>1. tries'[b] = IF b = a THEN t ELSE tries[b] BY <1>1
  <2> QED BY <2>1 DEF Unstarted, Waiters, Waiting
<1> QED BY <1>4, <1>5

LEMMA RequestKeeps ==
    ASSUME PoolInv, NEW a \in Attempts, NEW offer \in Offers, Request(a, offer[1], offer[2])
    PROVE  PoolInv'
<1> USE DEF PoolInv
<1> DEFINE key == Isolation(offer[1], offer[2])
           t == [Idling EXCEPT !.at = "look", !.key = key, !.grant = offer[2], !.ahead = pool.waiting + 1]
<1>1. /\ tries[a].at \in {"idle", "done"} /\ made' = made + 1 /\ pool' = [pool EXCEPT !.waiting = @ + 1]
      /\ tries' = [tries EXCEPT ![a] = t] /\ woken' = woken \ {a} /\ UNCHANGED <<broker, process, arriving>>
  BY DEF Request, Try
<1>2. GuestsTypeOK /\ pool \in PoolType /\ pool.waiting + 1 \in Int BY DEF GuestsInv, GuestsTypeOK, PoolType
<1>3. key \in Keys /\ key # NoWorker BY GuestsAssumption DEF Isolation, Keys
<1>4. offer[2] \in Grants BY GuestsAssumption DEF Grants
<1> HIDE DEF key
<1>5. t \in TryType BY <1>2, <1>3, <1>4 DEF TryType, Idling, Places, Keys
<1>6. /\ t.worker = NoWorker /\ t.at = "look" /\ t.key = key /\ Credit(t) = 0 /\ Honest(t)
      /\ t.pending = 0 /\ t.doing = "guest" /\ t.stored = 0
  BY DEF Idling, Credit, Honest
<1> HIDE DEF t
<1> DEFINE waiting == pool.waiting + 1
<1>7. pool' = [pool EXCEPT !.waiting = waiting] /\ waiting \in Int BY <1>1, <1>2 DEF PoolType
<1> HIDE DEF waiting
<1>8. pool' \in PoolType /\ pool'.size = pool.size BY <1>2, <1>7 DEF PoolType
<1>9. Grown([pool EXCEPT !.waiting = waiting], pool') BY <1>7, <1>8, GrownSelf
<1>10. GuestsTypeOK' /\ Unstarted'
  <2>1. made' \in Nat /\ woken' \in SUBSET Attempts BY <1>1 DEF GuestsInv, GuestsTypeOK
  <2> QED BY <1>1, <1>2, <1>5, <1>6, <1>8, <2>1, TryTypes DEF GuestsTypeOK
<1>11. WaitShape(a, t)
  <2>1. HOST_CALLS \in Nat BY GuestsAssumption
  <2>2. Credit(t) <= HOST_CALLS BY <1>6, <2>1
  <2> QED BY <1>1, <1>3, <1>6, <1>7, <1>9, <2>2 DEF WaitShape, Working, Uninformed
<1> QED BY <1>10, <1>11, WaitKeeps

\* An attempt that keeps its key while it looks for a worker.
LEMMA WaiterMoves ==
    ASSUME PoolInv, NEW a \in Attempts, NEW at \in Waiting, tries[a].at \in Waiting,
           tries' = [tries EXCEPT ![a] = [tries[a] EXCEPT !.at = at]],
           pool' \in PoolType, Grown(pool, pool'), woken \ {a} \subseteq woken', woken' \in SUBSET Attempts,
           at \in Uninformed /\ a \notin woken' => Suitable(pool, tries[a].key) = {},
           UNCHANGED <<broker, process, arriving, made>>
    PROVE  PoolInv'
<1> USE DEF PoolInv
<1> DEFINE t == [tries[a] EXCEPT !.at = at]
<1>1. GuestsTypeOK /\ tries[a] \in TryType /\ pool \in PoolType /\ pool.waiting \in Int
  BY DEF GuestsInv, GuestsTypeOK, PoolType
<1>2. /\ t.at = at /\ t.key = tries[a].key /\ t.worker = tries[a].worker /\ t.pending = tries[a].pending
      /\ t.doing = tries[a].doing /\ t.stored = tries[a].stored /\ t.calls = tries[a].calls
      /\ t.over = tries[a].over
  BY <1>1 DEF TryType
<1>3. t \in TryType BY <1>1 DEF TryType, Places, Waiting
<1> HIDE DEF t
<1>4. at \notin Working /\ tries[a].at \notin Working /\ at \notin {"idle", "done"} /\ at # "asked"
      /\ tries[a].at \notin {"idle", "done"} /\ tries[a].at # "asked"
  BY DEF Waiting, Working
<1>5. t.pending = 0 /\ t.doing = "guest" /\ t.stored = 0 BY <1>2 DEF Unstarted, Waiters, Waiting
<1>6. pool'.size = pool.size BY DEF Grown
<1>7. GuestsTypeOK' /\ Unstarted' BY <1>1, <1>3, <1>5, <1>6, TryTypes DEF t, GuestsTypeOK
<1>8. t.worker = NoWorker /\ t.key # NoWorker BY <1>2, <1>4 DEF GuestsInv, HeldOnce, Isolated
<1>9. Credit(t) <= HOST_CALLS /\ Honest(t)
  <2>1. Credit(t) = Credit(tries[a]) BY <1>2, <1>4 DEF Credit
  <2>2. ~tries[a].over BY DEF GuestsInv, BudgetInv, Honest
  <2> QED BY <1>2, <1>4, <2>1, <2>2 DEF GuestsInv, BudgetInv, Honest
<1> DEFINE waiting == pool.waiting
<1>10. [pool EXCEPT !.waiting = waiting] = pool BY <1>1 DEF PoolType
<1>11. Grown([pool EXCEPT !.waiting = waiting], pool') /\ waiting \in Int BY <1>1, <1>10
<1> HIDE DEF waiting
<1>12. WaitShape(a, t) BY <1>2, <1>4, <1>8, <1>9, <1>11 DEF WaitShape, t
<1> QED BY <1>7, <1>12, WaitKeeps

LEMMA LookKeeps == ASSUME PoolInv, NEW a \in Attempts, Look(a) PROVE PoolInv'
<1> USE DEF PoolInv
<1> DEFINE found == Suitable(pool, tries[a].key)
           i == CHOOSE j \in found : \A k \in found : j <= k
<1>1. GuestsTypeOK /\ tries[a] \in TryType /\ pool \in PoolType /\ pool.waiting \in Int
      /\ pool.idle \in Seq(IdleWorker) /\ made \in Nat
  BY DEF GuestsInv, GuestsTypeOK, PoolType
<1>2. tries[a].at = "look" /\ woken' = woken \ {a} /\ UNCHANGED <<broker, arriving, made>> BY DEF Look
<1>3. CASE found = {}
  <2> DEFINE at == IF pool.starting < tries[a].ahead THEN "evict" ELSE "wait"
  <2>1. tries' = [tries EXCEPT ![a] = [tries[a] EXCEPT !.at = at]] /\ UNCHANGED <<pool, process>>
    BY <1>3 DEF Look, Try
  <2>2. at \in Waiting /\ tries[a].at \in Waiting BY <1>2 DEF Waiting
  <2>3. pool' \in PoolType /\ Grown(pool, pool') BY <1>1, <2>1, GrownSelf
  <2>4. woken' \in SUBSET Attempts /\ woken \ {a} \subseteq woken' BY <1>1, <1>2 DEF GuestsTypeOK
  <2> HIDE DEF at
  <2> QED BY <1>2, <1>3, <2>1, <2>2, <2>3, <2>4, WaiterMoves
<1>4. CASE found # {}
  <2>1. found \in SUBSET Nat
    <3>1. DOMAIN pool.idle \subseteq Nat BY <1>1
    <3> QED BY <3>1 DEF Suitable, Unassigned
  <2>2. i \in found BY <1>4, <2>1, LeastIndex
  <2> DEFINE e == pool.idle[i]
             t == [tries[a] EXCEPT !.at = "running", !.worker = e.id, !.served = e.served,
                                   !.calls = HOST_CALLS, !.own = HOST_CALLS]
             stamp == IF tries[a].key = Single THEN <<Single, made, a>> ELSE <<tries[a].key, 0, 0>>
             waiting == pool.waiting - 1
             rest == SwapRemoved(pool.idle, i)
             p == [pool EXCEPT !.idle = rest, !.waiting = waiting]
  <2>3. /\ pool' = Warmed([pool EXCEPT !.idle = SwapRemoved(@, i), !.waiting = @ - 1])
        /\ tries' = [tries EXCEPT ![a] = t]
        /\ process' = [process EXCEPT ![e.id].runs = @ + 1, ![e.id].seen = @ \cup {stamp}]
    BY <1>4 DEF Look, Try
  <2>4. i \in DOMAIN pool.idle BY <2>2 DEF Suitable, Unassigned
  <2>5. e \in IdleWorker BY <1>1, <2>4
  <2>6. e.id \in ProcessIds BY <2>4, ProcessRange DEF GuestsInv
  <2>7. HOST_CALLS \in Nat BY GuestsAssumption
  <2>8. [pool EXCEPT !.idle = SwapRemoved(@, i), !.waiting = @ - 1] = p BY <1>1 DEF PoolType
  <2> HIDE DEF i
  <2>9. rest \in Seq(IdleWorker) BY <1>1, <2>4, SwapRemovedIdle DEF GuestsInv, HeldOnce
  <2>10. waiting \in Int BY <1>1
  <2> HIDE DEF rest, waiting
  <2>11. p \in PoolType /\ p.size = pool.size BY <1>1, <2>9, <2>10 DEF PoolType
  <2>12. pool' = Warmed(p) BY <2>3, <2>8
  <2> HIDE DEF p
  <2>13. Grown(p, pool') BY <2>11, <2>12, WarmedGrows
  <2>14. pool' \in PoolType /\ pool'.size = pool.size BY <2>11, <2>13 DEF Grown
  <2>15. t \in TryType /\ t.at = "running"
    <3>1. e.id \in Nat /\ e.served \in Nat BY <2>5 DEF IdleWorker
    <3> HIDE DEF e
    <3> QED BY <1>1, <2>7, <3>1 DEF TryType, Places
  <2>16. process' \in [ProcessIds -> ProcessType]
    <3>1. process[e.id] \in ProcessType BY <2>6, ProcessRange DEF GuestsInv
    <3>2. stamp \in Stamps BY <1>1 DEF Stamps, TryType, Keys
    <3> HIDE DEF stamp
    <3> DEFINE old == process[e.id]
               new == [old EXCEPT !.runs = @ + 1, !.seen = @ \cup {stamp}]
    <3>3. old.runs + 1 \in Nat /\ old.seen \cup {stamp} \in SUBSET Stamps BY <3>1, <3>2 DEF ProcessType
    <3>4. new \in ProcessType BY <3>1, <3>3 DEF ProcessType
    <3>5. process \in [ProcessIds -> ProcessType] BY <1>1 DEF GuestsTypeOK
    <3>6. process' = [process EXCEPT ![e.id] = new] BY <2>3, <2>6, <3>5
    <3> HIDE DEF new, old
    <3> QED BY <3>4, <3>5, <3>6
  <2>17. GuestsTypeOK' /\ Unstarted'
    <3>1. woken' \in SUBSET Attempts /\ made' \in Nat /\ arriving' \in SUBSET Nat /\ broker' \in BrokerType
      BY <1>1, <1>2 DEF GuestsTypeOK
    <3>2. t.at \notin Waiting BY <2>15 DEF Waiting
    <3> HIDE DEF t
    <3> QED BY <1>1, <2>3, <2>14, <2>15, <2>16, <3>1, <3>2, TryTypes
  <2>18. TakeShape(a, i)
    <3>1. tries[a].pending = 0 /\ tries[a].doing = "guest" /\ tries[a].stored = 0
      BY <1>2 DEF Unstarted, Waiters
    <3>2. \E w \in Int : Grown([pool EXCEPT !.idle = SwapRemoved(@, i), !.waiting = w], pool')
      <4>1. [pool EXCEPT !.idle = SwapRemoved(@, i), !.waiting = waiting] = p BY <1>1 DEF PoolType, p, rest
      <4> QED BY <2>10, <2>13, <4>1
    <3> QED BY <1>2, <2>2, <2>3, <3>1, <3>2 DEF TakeShape
  <2> QED BY <2>17, <2>18, TakeKeeps
<1> QED BY <1>3, <1>4

LEMMA EvictKeepsPool == ASSUME PoolInv, NEW a \in Attempts, Evict(a) PROVE PoolInv'
<1> USE DEF PoolInv
<1> DEFINE at == "add"
<1>1. /\ tries[a].at = "evict" /\ tries' = [tries EXCEPT ![a] = [tries[a] EXCEPT !.at = at]]
      /\ UNCHANGED <<broker, process, arriving, woken, made>>
  BY DEF Evict, Try
<1>2. GuestsTypeOK /\ tries[a] \in TryType /\ pool \in PoolType /\ woken \in SUBSET Attempts
  BY DEF GuestsInv, GuestsTypeOK
<1>3. CASE pool.live < pool.size \/ pool.idle = << >>
  <2>1. pool' = pool BY <1>3 DEF Evict
  <2>2. pool' \in PoolType /\ Grown(pool, pool') BY <1>2, <2>1, GrownSelf
  <2>3. a \notin woken' => Suitable(pool, tries[a].key) = {} BY <1>1 DEF GuestsInv, Informed, Uninformed
  <2>4. at \in Waiting /\ tries[a].at \in Waiting BY <1>1 DEF Waiting
  <2> HIDE DEF at
  <2> QED BY <1>1, <1>2, <2>2, <2>3, <2>4, WaiterMoves
<1>4. CASE ~(pool.live < pool.size \/ pool.idle = << >>)
  <2> DEFINE w == Head(pool.idle).id
             k == Killed(pool, w)
             t == [tries[a] EXCEPT !.at = "add"]
  <2>1. pool.idle # << >> /\ pool' = [k EXCEPT !.idle = Tail(pool.idle), !.live = @ - 1] BY <1>4 DEF Evict
  <2>2. EvictShape(a) BY <1>1, <2>1 DEF EvictShape
  <2>3. pool.idle \in Seq(IdleWorker) BY <1>2 DEF PoolType
  <2>4. w \in Nat /\ Tail(pool.idle) \in Seq(IdleWorker)
    <3>1. Head(pool.idle) \in IdleWorker BY <2>1, <2>3
    <3> QED BY <2>1, <2>3, <3>1 DEF IdleWorker
  <2>5. k \in PoolType /\ k.size = pool.size
    <3>1. k \in PoolType /\ k = [pool EXCEPT !.sent = k.sent] BY <1>2, <2>4, KilledSends
    <3> HIDE DEF k
    <3>2. [pool EXCEPT !.sent = k.sent].size = pool.size BY <1>2 DEF PoolType
    <3> QED BY <3>1, <3>2
  <2> HIDE DEF k
  <2>6. pool' \in PoolType /\ pool'.size = pool.size
    <3>1. k.live - 1 \in Int BY <2>5 DEF PoolType
    <3> DEFINE rest == Tail(pool.idle)
               live == k.live - 1
    <3>2. pool' = [k EXCEPT !.idle = rest, !.live = live] BY <2>1, <2>5 DEF PoolType
    <3>3. rest \in Seq(IdleWorker) /\ live \in Int BY <2>4, <3>1
    <3> HIDE DEF rest, live
    <3> QED BY <2>5, <3>2, <3>3 DEF PoolType
  <2>7. t \in TryType /\ t.pending = tries[a].pending /\ t.doing = tries[a].doing /\ t.stored = tries[a].stored
    BY <1>2 DEF TryType, Places
  <2>8. t.pending = 0 /\ t.doing = "guest" /\ t.stored = 0 BY <1>1, <2>7 DEF Unstarted, Waiters
  <2> HIDE DEF t
  <2>9. GuestsTypeOK' /\ Unstarted' BY <1>1, <1>2, <2>6, <2>7, <2>8, TryTypes DEF GuestsTypeOK, t
  <2> QED BY <2>2, <2>9, EvictKeeps
<1> QED BY <1>3, <1>4

LEMMA ReinforceKeeps == ASSUME PoolInv, NEW a \in Attempts, Reinforce(a) PROVE PoolInv'
<1> USE DEF PoolInv
<1> DEFINE at == "wait"
<1>1. /\ tries[a].at = "add" /\ tries' = [tries EXCEPT ![a] = [tries[a] EXCEPT !.at = at]]
      /\ pool' = Added(pool, 1) /\ UNCHANGED <<broker, process, arriving, woken, made>>
  BY DEF Reinforce, Try
<1>2. GuestsTypeOK /\ pool \in PoolType /\ woken \in SUBSET Attempts BY DEF GuestsInv, GuestsTypeOK
<1>3. Grown(pool, pool') /\ pool' \in PoolType BY <1>1, <1>2, AddedGrows DEF Grown
<1>4. a \notin woken' => Suitable(pool, tries[a].key) = {} BY <1>1 DEF GuestsInv, Informed, Uninformed
<1>5. at \in Waiting /\ tries[a].at \in Waiting BY <1>1 DEF Waiting
<1> HIDE DEF at
<1> QED BY <1>1, <1>2, <1>3, <1>4, <1>5, WaiterMoves

LEMMA WakeKeeps == ASSUME PoolInv, NEW a \in Attempts, Wake(a) PROVE PoolInv'
<1> USE DEF PoolInv
<1> DEFINE at == "look"
<1>1. /\ tries[a].at = "wait" /\ tries' = [tries EXCEPT ![a] = [tries[a] EXCEPT !.at = at]]
      /\ UNCHANGED <<pool, broker, process, arriving, woken, made>>
  BY DEF Wake, Try
<1>2. pool \in PoolType /\ woken \in SUBSET Attempts BY DEF GuestsInv, GuestsTypeOK
<1>3. Grown(pool, pool') /\ pool' \in PoolType BY <1>1, <1>2, GrownSelf
<1>4. at \in Waiting /\ tries[a].at \in Waiting /\ at \notin Uninformed BY <1>1 DEF Waiting, Uninformed
<1> HIDE DEF at
<1> QED BY <1>1, <1>2, <1>3, <1>4, WaiterMoves

\* A waiting attempt is answered or dropped.
LEMMA WaiterGoes ==
    ASSUME PoolInv, NEW a \in Attempts, tries[a].at = "wait", NEW result \in {"deadline", "gone"},
           tries' = [tries EXCEPT ![a] = Gone(result)], NEW waiting \in Int,
           pool' = [pool EXCEPT !.waiting = waiting], UNCHANGED <<broker, process, arriving, woken, made>>
    PROVE  PoolInv'
<1> USE DEF PoolInv
<1> DEFINE t == Gone(result)
<1>1. GuestsTypeOK /\ pool \in PoolType BY DEF GuestsInv, GuestsTypeOK
<1>2. t \in TryType
  <2>1. t = [Idling EXCEPT !.at = "done", !.result = result] BY DEF Gone
  <2> HIDE DEF t
  <2> QED BY <2>1, IdlingType DEF TryType, Places
<1>3. t.worker = NoWorker /\ t.at = "done" /\ Credit(t) = 0 /\ Honest(t) BY DEF Gone, Idling, Credit, Honest
<1> HIDE DEF t
<1>4. pool' \in PoolType /\ pool'.size = pool.size BY <1>1 DEF PoolType
<1>5. Grown([pool EXCEPT !.waiting = waiting], pool') BY <1>4, GrownSelf
<1>6. GuestsTypeOK' /\ Unstarted' BY <1>1, <1>2, <1>3, <1>4, TryTypes DEF GuestsTypeOK, t, Waiting
<1>7. WaitShape(a, t)
  <2>1. HOST_CALLS \in Nat BY GuestsAssumption
  <2>2. Credit(t) <= HOST_CALLS BY <1>3, <2>1
  <2> QED BY <1>3, <1>5, <2>2 DEF WaitShape, Working, Uninformed, t
<1> QED BY <1>6, <1>7, WaitKeeps

LEMMA ExpireKeeps == ASSUME PoolInv, NEW a \in Attempts, Expire(a) PROVE PoolInv'
<1> USE DEF PoolInv
<1> DEFINE waiting == pool.waiting - 1
<1>1. pool \in PoolType BY DEF GuestsInv, GuestsTypeOK
<1>2. waiting \in Int /\ pool' = [pool EXCEPT !.waiting = waiting] BY <1>1 DEF PoolType, Expire
<1>3. /\ tries[a].at = "wait" /\ tries' = [tries EXCEPT ![a] = Gone("deadline")]
      /\ UNCHANGED <<broker, process, arriving, woken, made>>
  BY DEF Expire, Try
<1> HIDE DEF waiting
<1> QED BY <1>2, <1>3, WaiterGoes

\* The worker of a busy attempt is killed as the attempt ends.
LEMMA DropAttemptKeeps == ASSUME PoolInv, NEW a \in Attempts, DropAttempt(a) PROVE PoolInv'
<1> USE DEF PoolInv
<1>1. /\ tries[a].at \in {"wait", "running", "asked"} /\ tries' = [tries EXCEPT ![a] = Gone("gone")]
      /\ UNCHANGED <<broker, process, arriving, woken, made>>
  BY DEF DropAttempt, Try
<1>2. GuestsTypeOK /\ pool \in PoolType BY DEF GuestsInv, GuestsTypeOK
<1>3. CASE tries[a].at = "wait"
  <2> DEFINE waiting == pool.waiting
  <2>1. pool' = pool BY <1>3 DEF DropAttempt
  <2>2. waiting \in Int /\ pool' = [pool EXCEPT !.waiting = waiting] BY <1>2, <2>1 DEF PoolType
  <2> HIDE DEF waiting
  <2> QED BY <1>1, <1>3, <2>2, WaiterGoes
<1>4. CASE tries[a].at # "wait"
  <2> DEFINE w == tries[a].worker
             t == Gone("gone")
  <2>1. pool' = Killed(pool, w) BY <1>4 DEF DropAttempt
  <2>2. a \in Busy /\ w \in Nat
    <3>1. a \in Busy BY <1>1, <1>4 DEF GuestsInv, HeldOnce, Working, Busy
    <3> QED BY <3>1, ProcessRange DEF GuestsInv
  <2>3. /\ pool' \in PoolType /\ pool' = [pool EXCEPT !.sent = pool'.sent] /\ Extends(pool'.sent, pool.sent)
        /\ broker.alive => \E i \in DOMAIN pool'.sent : pool'.sent[i] = <<"KILL", w>>
    BY <1>2, <2>1, <2>2, KilledSends
  <2>4. t \in TryType /\ t.worker = NoWorker /\ t.at = "done" /\ Credit(t) = 0 /\ Honest(t)
    <3>1. t = [Idling EXCEPT !.at = "done", !.result = "gone"] BY DEF Gone
    <3>2. t.worker = NoWorker /\ t.at = "done" /\ Credit(t) = 0 /\ Honest(t)
      BY DEF Gone, Idling, Credit, Honest
    <3> HIDE DEF t
    <3>3. t \in TryType BY <3>1, IdlingType DEF TryType, Places
    <3> QED BY <3>2, <3>3
  <2> HIDE DEF t, w
  <2> DEFINE live == pool.live
             sent == pool'.sent
  <2>5. /\ sent \in Seq(Message) /\ live \in {pool.live, pool.live - 1}
        /\ [pool EXCEPT !.live = live, !.sent = sent] = pool' /\ pool'.size = pool.size
    BY <1>2, <2>3 DEF PoolType
  <2>6. Grown([pool EXCEPT !.live = live, !.sent = sent], pool') BY <2>3, <2>5, GrownSelf
  <2> HIDE DEF live, sent
  <2>7. GuestsTypeOK' /\ Unstarted' BY <1>1, <1>2, <2>3, <2>4, <2>5, TryTypes DEF GuestsTypeOK, t, Waiting
  <2>8. DropShape(a, t)
    <3>1. HOST_CALLS \in Nat BY GuestsAssumption
    <3>2. Credit(t) <= HOST_CALLS BY <2>4, <3>1
    <3> QED BY <1>1, <2>2, <2>3, <2>4, <2>5, <2>6, <3>2 DEF DropShape, t, w
  <2> QED BY <2>7, <2>8, DropKeeps
<1> QED BY <1>3, <1>4

Results == {"page", "deadline", "failed"}

\* run after the exchange, whatever the worker said: the worker is parked or
\* discarded, and no more calls are left than the server counted.
LEMMA ConcludedKeeps ==
    ASSUME PoolInv, NEW a \in Attempts, tries[a].at \in Working, NEW kept \in BOOLEAN, NEW budget \in Nat,
           budget <= tries[a].calls, NEW result \in Results, Concluded(a, kept, budget, result)
    PROVE  PoolInv'
<1> USE DEF PoolInv
<1> DEFINE w == tries[a].worker
           told == IF tries[a].failure THEN "failed" ELSE result
           t == [Ended(a, told) EXCEPT !.calls = budget]
<1>1. tries' = [tries EXCEPT ![a] = t] /\ UNCHANGED <<broker, process, arriving, made>>
  BY DEF Concluded, Try
<1>2. /\ GuestsTypeOK /\ pool \in PoolType /\ tries[a] \in TryType /\ HOST_CALLS \in Nat
      /\ tries[a].failure \in BOOLEAN /\ tries[a].stored \in Nat /\ tries[a].calls \in Nat
  BY GuestsAssumption DEF GuestsInv, GuestsTypeOK, TryType
<1>3. a \in Busy /\ w \in Nat
  <2>1. a \in Busy BY DEF GuestsInv, HeldOnce, Busy
  <2> QED BY <2>1, ProcessRange DEF GuestsInv
<1>4. told \in Results /\ (tries[a].failure => told # "page") BY DEF Results
<1> HIDE DEF told
<1>5. /\ t.at = "done" /\ t.worker = NoWorker /\ t.failure = tries[a].failure /\ t.result = told
      /\ t.calls = budget /\ t.stored = tries[a].stored /\ ~t.over
  BY DEF Ended, Idling
<1>6. t \in TryType
  <2> DEFINE storing == tries[a].stored
             s == [Idling EXCEPT !.at = "done", !.result = told, !.calls = budget, !.stored = storing]
  <2>1. storing \in Nat BY <1>2
  <2>2. t = [s EXCEPT !.failure = tries[a].failure] BY DEF Ended, Idling
  <2> HIDE DEF storing
  <2>3. s \in TryType
    <3> DEFINE r == [Idling EXCEPT !.at = "done", !.result = told]
    <3>1. told \in {"none", "page", "deadline", "failed", "gone"} BY <1>4 DEF Results
    <3>2. r = [Idling EXCEPT !.at = "done", !.result = told] OBVIOUS
    <3>3. s = [r EXCEPT !.calls = budget, !.stored = storing] OBVIOUS
    <3> HIDE DEF r, s
    <3>4. r \in TryType
      <4> DEFINE q == [Idling EXCEPT !.at = "done"]
      <4>1. q \in TryType BY IdlingType DEF TryType, Places
      <4>2. r = [q EXCEPT !.result = told] BY <3>2
      <4> HIDE DEF q
      <4> QED BY <3>1, <4>1, <4>2 DEF TryType
    <3> QED BY <2>1, <3>3, <3>4 DEF TryType
  <2> HIDE DEF s, t
  <2>4. CASE tries[a].failure = TRUE BY <2>2, <2>3, <2>4 DEF TryType
  <2>5. CASE tries[a].failure = FALSE BY <2>2, <2>3, <2>5 DEF TryType
  <2> QED BY <1>2, <2>4, <2>5
<1> HIDE DEF t
<1>7. Honest(t) BY <1>4, <1>5 DEF Honest
<1>8. Credit(t) <= HOST_CALLS
  <2>1. Credit(t) = tries[a].stored + budget BY <1>2, <1>5 DEF Credit
  <2>2. tries[a].stored + tries[a].calls <= HOST_CALLS
    <3>1. Credit(tries[a]) <= HOST_CALLS BY DEF GuestsInv, BudgetInv
    <3> QED BY <1>2, <3>1 DEF Credit
  <2> QED BY <1>2, <2>1, <2>2
<1>9. CASE Reusable(a, kept)
  <2> DEFINE e == [id |-> w, served |-> tries[a].served + 1, key |-> tries[a].key]
             idle == Append(pool.idle, e)
  <2>1. pool' = [pool EXCEPT !.idle = Append(@, e)] /\ Bump BY <1>9 DEF Concluded
  <2>2. e \in IdleWorker BY <1>2, <1>3 DEF IdleWorker, TryType
  <2>3. pool' = [pool EXCEPT !.idle = idle] BY <1>2, <2>1 DEF PoolType
  <2> HIDE DEF e
  <2>4. idle \in Seq(IdleWorker) BY <1>2, <2>2 DEF PoolType
  <2> HIDE DEF idle
  <2>5. pool' \in PoolType /\ pool'.size = pool.size BY <1>2, <2>3, <2>4 DEF PoolType
  <2>6. woken' \in SUBSET Attempts BY <2>1 DEF Bump, Waiters
  <2>7. GuestsTypeOK' /\ Unstarted' BY <1>1, <1>2, <1>5, <1>6, <2>5, <2>6, TryTypes DEF GuestsTypeOK, Waiting
  <2>8. KeepShape(a, t) BY <1>1, <1>3, <1>5, <1>7, <1>8, <1>9, <2>1 DEF KeepShape, Reusable, e
  <2> QED BY <2>7, <2>8, KeepKeeps
<1>10. CASE ~Reusable(a, kept)
  <2>1. pool' = Discarded(pool, w) /\ UNCHANGED woken BY <1>10 DEF Concluded
  <2> DEFINE k == Killed(pool, w)
             live == pool.live - 1
             sent == k.sent
  <2>2. /\ Grown([pool EXCEPT !.live = @ - 1, !.sent = k.sent], pool') /\ Extends(pool'.sent, pool.sent)
        /\ broker.alive => \E i \in DOMAIN pool'.sent : pool'.sent[i] = <<"KILL", w>>
    BY <1>2, <1>3, <2>1, DiscardedLetsGo
  <2>3. sent \in Seq(Message)
    <3>1. k \in PoolType BY <1>2, <1>3, KilledSends
    <3> HIDE DEF k
    <3> QED BY <3>1 DEF PoolType
  <2>4. [pool EXCEPT !.live = @ - 1, !.sent = k.sent] = [pool EXCEPT !.live = live, !.sent = sent]
    BY <1>2 DEF PoolType
  <2>5. Grown([pool EXCEPT !.live = live, !.sent = sent], pool') BY <2>2, <2>4
  <2>6. live \in {pool.live, pool.live - 1} OBVIOUS
  <2> HIDE DEF w, k, live, sent
  <2>7. pool' \in PoolType /\ pool'.size = pool.size
    <3>1. [pool EXCEPT !.live = live, !.sent = sent].size = pool.size BY <1>2 DEF PoolType
    <3> QED BY <2>5, <3>1 DEF Grown
  <2>8. GuestsTypeOK' /\ Unstarted' BY <1>1, <1>2, <1>5, <1>6, <2>1, <2>7, TryTypes DEF GuestsTypeOK, Waiting
  <2>9. DropShape(a, t) BY <1>1, <1>3, <1>5, <1>7, <1>8, <2>1, <2>2, <2>3, <2>5, <2>6 DEF DropShape, w
  <2> QED BY <2>8, <2>9, DropKeeps
<1> QED BY <1>9, <1>10

-----------------------------------------------------------------------------
(* The exchange.                                                           *)

\* What the exchange knows of an attempt and its worker.
LEMMA ExchangeFacts ==
    ASSUME PoolInv, NEW a \in Attempts, tries[a].at \in Working
    PROVE  /\ tries[a] \in TryType /\ tries[a].worker \in ProcessIds
           /\ process[tries[a].worker] \in ProcessType
           /\ ~(tries[a].worker > broker.next) /\ Credit(tries[a]) <= HOST_CALLS /\ ~tries[a].over
           /\ Affordable(tries[a], process[tries[a].worker])
<1> USE DEF PoolInv, GuestsInv
<1>1. a \in Busy BY DEF HeldOnce, Busy
<1>2. tries[a].worker \in ProcessIds /\ tries[a].worker \in BusyIds BY <1>1, ProcessRange DEF BusyIds
<1>3. tries[a].worker \in 1 .. broker.next /\ broker.next \in Nat
  BY <1>2 DEF HeldKnown, GuestsTypeOK, BrokerType
<1>4. ~(tries[a].worker > broker.next) BY <1>3
<1>5. tries[a] \in TryType BY DEF GuestsTypeOK
<1>6. Credit(tries[a]) <= HOST_CALLS /\ ~tries[a].over BY DEF BudgetInv, Honest
<1>7. Affordable(tries[a], process[tries[a].worker]) BY DEF BudgetInv
<1> QED BY <1>2, <1>4, <1>5, <1>6, <1>7, ProcessRange

\* The attempt's own record changes, and perhaps its worker.
LEMMA TalkMoves ==
    ASSUME PoolInv, NEW a \in Attempts, tries[a].at \in Working, NEW t \in TryType, t.at \in Working,
           t.worker = tries[a].worker, t.key = tries[a].key, t.served = tries[a].served,
           Credit(t) <= Credit(tries[a]), ~t.over, Affordable(t, process'[t.worker]),
           tries' = [tries EXCEPT ![a] = t], AllTame, process' \in [ProcessIds -> ProcessType],
           UNCHANGED <<pool, broker, arriving, woken, made>>
    PROVE  PoolInv'
<1> USE DEF PoolInv
<1>1. GuestsTypeOK BY DEF GuestsInv
<1>2. t.at \notin Waiting BY DEF Waiting, Working
<1>3. GuestsTypeOK' /\ Unstarted' BY <1>1, <1>2, TryTypes DEF GuestsTypeOK
<1>4. Honest(t) BY DEF Honest, Working
<1>5. Credit(t) <= HOST_CALLS
  <2>1. tries[a] \in TryType /\ HOST_CALLS \in Nat BY <1>1, GuestsAssumption DEF GuestsTypeOK
  <2>2. Credit(t) \in Int /\ Credit(tries[a]) \in Int BY <2>1 DEF Credit, TryType
  <2>3. Credit(tries[a]) <= HOST_CALLS BY ExchangeFacts
  <2> QED BY <2>1, <2>2, <2>3
<1>6. TalkShape(a, t) BY <1>4, <1>5 DEF TalkShape
<1> QED BY <1>3, <1>6, TalkKeeps

LEMMA InnerMoves ==
    ASSUME PoolInv, NEW a \in Attempts, tries[a].at \in Working, NEW t \in TryType, t.at \in Working,
           t.worker = tries[a].worker, t.key = tries[a].key, t.served = tries[a].served,
           Credit(t) <= Credit(tries[a]), ~t.over, Affordable(t, process[t.worker]), Inner(a, t)
    PROVE  PoolInv'
<1>1. tries' = [tries EXCEPT ![a] = t] /\ UNCHANGED <<pool, broker, process, arriving, woken, made>>
  BY DEF Inner, Try
<1>2. AllTame
  <2>1. GuestsTypeOK /\ HeldKnown BY DEF PoolInv, GuestsInv
  <2> QED BY <1>1, <2>1, ProcessRange DEF AllTame, Tame, Unused, ProcessType
<1>3. process' \in [ProcessIds -> ProcessType] BY <1>1 DEF PoolInv, GuestsInv, GuestsTypeOK
<1> QED BY <1>1, <1>2, <1>3, TalkMoves

\* charge: an import is paid from the worker's own budget first.
LEMMA GuestImportKeeps ==
    ASSUME PoolInv, NEW a \in Attempts, GuestLocal(a) \/ GuestSource(a) \/ GuestAsk(a) PROVE PoolInv'
<1> DEFINE p == process[tries[a].worker]
<1>1. tries[a].at = "running" /\ tries[a].at \in Working /\ tries[a].doing = "guest" /\ tries[a].own > 0
      /\ p.alive /\ ~p.escaped
  BY DEF GuestLocal, GuestSource, GuestAsk, InStep, Going, Escaped, Working
<1>2. tries[a] \in TryType /\ ~tries[a].over /\ Owed(tries[a]) <= tries[a].calls
  BY <1>1, ExchangeFacts DEF Affordable
<1>3. tries[a].own + tries[a].pending <= tries[a].calls BY <1>1, <1>2 DEF Owed, TryType
<1> DEFINE own == tries[a].own - 1
<1>4. own \in Nat /\ own + tries[a].pending + 1 <= tries[a].calls BY <1>1, <1>2, <1>3 DEF TryType
<1>5. ASSUME NEW pending \in {tries[a].pending, tries[a].pending + 1}, NEW doing \in {"guest", "flush"},
             NEW next \in {"report", "ask"}, doing = "flush" => pending = tries[a].pending,
             Inner(a, [tries[a] EXCEPT !.own = own, !.pending = pending, !.doing = doing, !.next = next])
      PROVE  PoolInv'
  <2> DEFINE t == [tries[a] EXCEPT !.own = own, !.pending = pending, !.doing = doing, !.next = next]
  <2>1. pending \in Nat /\ own \in Nat BY <1>2, <1>4 DEF TryType
  <2> HIDE DEF own
  <2>2. /\ t.own = own /\ t.pending = pending /\ t.doing = doing /\ t.next = next /\ t.at = tries[a].at
        /\ t.worker = tries[a].worker /\ t.key = tries[a].key /\ t.served = tries[a].served
        /\ t.calls = tries[a].calls /\ t.stored = tries[a].stored /\ t.over = tries[a].over
    BY <1>2 DEF TryType
  <2> DEFINE s == tries[a]
  <2>3. t \in TryType
    <3>1. s \in TryType /\ t = [s EXCEPT !.own = own, !.pending = pending, !.doing = doing, !.next = next]
      BY <1>2
    <3> HIDE DEF s, t
    <3> QED BY <2>1, <3>1 DEF TryType
  <2> HIDE DEF t
  <2>4. Credit(t) <= Credit(s)
    <3>1. Credit(t) = Credit(s) /\ Credit(s) \in Int BY <1>2, <2>2 DEF Credit, TryType
    <3> QED BY <3>1
  <2>5. Affordable(t, process[t.worker])
    <3>1. s.pending \in Nat /\ s.calls \in Nat BY <1>2 DEF TryType
    <3>2. Owed(t) <= t.calls BY <1>4, <2>1, <2>2, <1>5, <3>1 DEF Owed
    <3> QED BY <3>2 DEF Affordable
  <2>6. Inner(a, t) BY <1>5 DEF t
  <2> QED BY <1>1, <1>2, <2>2, <2>3, <2>4, <2>5, <2>6, InnerMoves
<1> HIDE DEF own
<1>6. CASE GuestLocal(a)
  <2>1. Inner(a, [tries[a] EXCEPT !.own = own]) BY <1>6 DEF GuestLocal, own
  <2>2. tries[a].next \in {"report", "ask"} BY <1>2 DEF TryType
  <2>3. [tries[a] EXCEPT !.own = own] = [tries[a] EXCEPT !.own = own, !.pending = tries[a].pending,
                                             !.doing = "guest", !.next = tries[a].next]
    BY <1>1, <1>2 DEF TryType
  <2> QED BY <1>5, <2>1, <2>2, <2>3
<1>7. CASE GuestSource(a)
  <2>1. Inner(a, [tries[a] EXCEPT !.own = own, !.pending = @ + 1]) BY <1>7 DEF GuestSource, own
  <2>2. tries[a].next \in {"report", "ask"} BY <1>2 DEF TryType
  <2>3. [tries[a] EXCEPT !.own = own, !.pending = @ + 1]
        = [tries[a] EXCEPT !.own = own, !.pending = tries[a].pending + 1, !.doing = "guest", !.next = tries[a].next]
    BY <1>1, <1>2 DEF TryType
  <2> QED BY <1>5, <2>1, <2>2, <2>3
<1>8. CASE GuestAsk(a)
  <2>1. Inner(a, [tries[a] EXCEPT !.own = own, !.doing = "flush", !.next = "ask"]) BY <1>8 DEF GuestAsk, own
  <2>2. [tries[a] EXCEPT !.own = own, !.doing = "flush", !.next = "ask"]
        = [tries[a] EXCEPT !.own = own, !.pending = tries[a].pending, !.doing = "flush", !.next = "ask"]
    BY <1>2 DEF TryType
  <2> QED BY <1>5, <2>1, <2>2
<1> QED BY <1>6, <1>7, <1>8

\* The guest ends, or the worker's deadline ends it: it owes no more than before.
LEMMA GuestStopsKeeps ==
    ASSUME PoolInv, NEW a \in Attempts,
           \/ \E outcome \in {"Output", "Failed"} : GuestEnds(a, outcome)
           \/ GuestDeadline(a)
    PROVE  PoolInv'
<1> DEFINE s == tries[a]
<1>1. s.at \in Working BY DEF GuestEnds, GuestDeadline, InStep, Going, Working
<1>2. /\ s \in TryType /\ ~s.over /\ Affordable(s, process[s.worker])
      /\ s.own \in Nat /\ s.pending \in Nat /\ s.calls \in Nat
  BY <1>1, ExchangeFacts DEF TryType
<1>3. ASSUME NEW outcome \in {"Output", "Failed", "Deadline"}, NEW pending \in {0, s.pending}, NEW left \in BOOLEAN,
             Inner(a, [s EXCEPT !.doing = "flush", !.next = "report", !.outcome = outcome, !.pending = pending,
                                !.left = left])
      PROVE  PoolInv'
  <2> DEFINE r == [s EXCEPT !.doing = "flush", !.next = "report", !.outcome = outcome, !.pending = pending]
             t == [r EXCEPT !.left = left]
  <2>1. pending \in Nat /\ pending <= s.pending BY <1>2, <1>3
  <2>2. /\ t.own = s.own /\ t.pending = pending /\ t.doing = "flush" /\ t.next = "report" /\ t.at = s.at
        /\ t.worker = s.worker /\ t.key = s.key /\ t.served = s.served
        /\ t.calls = s.calls /\ t.stored = s.stored /\ t.over = s.over
    BY <1>2 DEF TryType
  <2>3. Inner(a, t) BY <1>2, <1>3 DEF TryType
  <2>4. r = [s EXCEPT !.doing = "flush", !.next = "report", !.outcome = outcome, !.pending = pending] OBVIOUS
  <2>5. t = [r EXCEPT !.left = left] OBVIOUS
  <2> HIDE DEF s, r, t
  <2>6. r \in TryType BY <1>2, <2>1, <2>4 DEF TryType
  <2>7. t \in TryType
    <3>1. CASE left = TRUE BY <2>5, <2>6, <3>1 DEF TryType
    <3>2. CASE left = FALSE BY <2>5, <2>6, <3>2 DEF TryType
    <3> QED BY <3>1, <3>2
  <2>8. Credit(t) <= Credit(s)
    <3>1. Credit(t) = Credit(s) /\ Credit(s) \in Int BY <1>2, <2>2 DEF Credit, TryType
    <3> QED BY <3>1
  <2>9. Affordable(t, process[t.worker])
    <3>1. Owed(t) = s.own + pending /\ s.own + s.pending <= Owed(s) BY <1>2, <2>1, <2>2 DEF Owed
    <3>2. Owed(s) \in Int BY <1>2 DEF Owed
    <3>3. Owed(s) <= s.calls => Owed(t) <= t.calls BY <1>2, <2>1, <2>2, <3>1, <3>2
    <3> QED BY <1>2, <2>2, <3>3 DEF Affordable
  <2> QED BY <1>1, <1>2, <2>2, <2>3, <2>7, <2>8, <2>9, InnerMoves DEF s
<1>4. ASSUME NEW outcome \in {"Output", "Failed"}, GuestEnds(a, outcome) PROVE PoolInv'
  <2>1. Inner(a, [s EXCEPT !.doing = "flush", !.next = "report", !.outcome = outcome]) BY <1>4 DEF GuestEnds
  <2>2. s.left \in BOOLEAN BY <1>2 DEF TryType
  <2>3. [s EXCEPT !.doing = "flush", !.next = "report", !.outcome = outcome]
        = [s EXCEPT !.doing = "flush", !.next = "report", !.outcome = outcome, !.pending = s.pending, !.left = s.left]
    BY <1>2 DEF TryType
  <2> QED BY <1>3, <2>1, <2>2, <2>3
<1>5. CASE GuestDeadline(a)
  <2> DEFINE pending == IF s.pending > 0 /\ s.doing = "flush" THEN 0 ELSE s.pending
             left == s.at = "asked"
  <2>1. Inner(a, [s EXCEPT !.outcome = "Deadline", !.doing = "flush", !.next = "report",
                           !.pending = IF @ > 0 /\ tries[a].doing = "flush" THEN 0 ELSE @, !.left = tries[a].at = "asked"])
    BY <1>5 DEF GuestDeadline
  <2>2. [s EXCEPT !.outcome = "Deadline", !.doing = "flush", !.next = "report",
                  !.pending = IF @ > 0 /\ tries[a].doing = "flush" THEN 0 ELSE @, !.left = tries[a].at = "asked"]
        = [s EXCEPT !.doing = "flush", !.next = "report", !.outcome = "Deadline", !.pending = pending, !.left = left]
    BY <1>2 DEF TryType
  <2>3. pending \in {0, s.pending} /\ left \in BOOLEAN OBVIOUS
  <2> HIDE DEF pending, left
  <2>4. Inner(a, [s EXCEPT !.doing = "flush", !.next = "report", !.outcome = "Deadline", !.pending = pending, !.left = left])
    BY <2>1, <2>2
  <2> QED BY <1>3, <2>3, <2>4
<1> QED BY <1>4, <1>5

\* granted: a call within the budget is counted, and made if the server allows it.
LEMMA StorageCounts ==
    ASSUME NEW a, NEW s \in TryType, s.calls > 0
    PROVE  LET t == Storage(a, s) IN
           /\ t \in TryType /\ t.calls = s.calls - 1 /\ t.worker = s.worker /\ t.key = s.key
           /\ t.served = s.served /\ t.own = s.own /\ t.pending = s.pending /\ t.doing = s.doing
           /\ t.next = s.next /\ t.over = s.over /\ t.stored = s.stored /\ t.outcome = s.outcome
           /\ t.at \in {s.at, "asked"}
<1> DEFINE budget == s.calls - 1
           t == Storage(a, s)
<1>1. budget \in Nat /\ s.calls # 0 /\ s.calls \in Nat BY DEF TryType
<1>2. CASE StorageAllowed(s.grant)
  <2>1. t = [s EXCEPT !.calls = budget, !.at = "asked"] BY <1>1, <1>2 DEF Storage, TryType
  <2> HIDE DEF t, budget
  <2>2. t \in TryType BY <1>1, <2>1 DEF TryType, Places
  <2>3. /\ t.calls = budget /\ t.worker = s.worker /\ t.key = s.key
        /\ t.served = s.served /\ t.own = s.own /\ t.pending = s.pending /\ t.doing = s.doing
        /\ t.next = s.next /\ t.over = s.over /\ t.stored = s.stored /\ t.outcome = s.outcome /\ t.at = "asked"
    BY <2>1 DEF TryType
  <2> QED BY <2>2, <2>3 DEF t, budget
<1>3. CASE ~StorageAllowed(s.grant)
  <2>1. t = [s EXCEPT !.calls = budget, !.failure = TRUE] BY <1>1, <1>3 DEF Storage, TryType
  <2> HIDE DEF t, budget
  <2>2. t \in TryType BY <1>1, <2>1 DEF TryType
  <2>3. /\ t.calls = budget /\ t.worker = s.worker /\ t.key = s.key
        /\ t.served = s.served /\ t.own = s.own /\ t.pending = s.pending /\ t.doing = s.doing
        /\ t.next = s.next /\ t.over = s.over /\ t.stored = s.stored /\ t.outcome = s.outcome /\ t.at = s.at
    BY <2>1 DEF TryType
  <2> QED BY <2>2, <2>3 DEF t, budget
<1> QED BY <1>2, <1>3

\* flush: a source owed is paid from the calls the server counts.
LEMMA FlushSourceKeeps == ASSUME PoolInv, NEW a \in Attempts, FlushSource(a) PROVE PoolInv'
<1> DEFINE s == tries[a]
           t == Storage(a, s)
<1>1. /\ s.at = "running" /\ s.at \in Working /\ s.doing = "flush" /\ s.pending > 0
      /\ process[s.worker].alive /\ ~process[s.worker].escaped
  BY DEF FlushSource, InStep, Going, Escaped, Working
<1>2. /\ s \in TryType /\ ~s.over /\ Affordable(s, process[s.worker])
      /\ s.own \in Nat /\ s.pending \in Nat /\ s.calls \in Nat /\ s.stored \in Nat
  BY <1>1, ExchangeFacts DEF TryType
<1>3. Owed(s) <= s.calls /\ s.own + s.pending <= Owed(s) /\ Owed(s) \in Int
  BY <1>1, <1>2 DEF Affordable, Owed
<1>4. s.calls > 0 /\ s.own + s.pending <= s.calls BY <1>1, <1>2, <1>3
<1>5. PICK ok \in BOOLEAN :
         Inner(a, IF t.at = "asked" /\ ok
                  THEN [t EXCEPT !.at = "running", !.pending = @ - 1, !.stored = @ + 1]
                  ELSE [t EXCEPT !.at = "running", !.failure = TRUE, !.pending = 0, !.next = "report",
                                 !.outcome = IF @ = "Deadline" THEN @ ELSE "Failed"])
  BY DEF FlushSource
<1>6. /\ t \in TryType /\ t.calls = s.calls - 1 /\ t.worker = s.worker /\ t.key = s.key
      /\ t.served = s.served /\ t.own = s.own /\ t.pending = s.pending /\ t.doing = s.doing
      /\ t.next = s.next /\ t.over = s.over /\ t.stored = s.stored /\ t.outcome = s.outcome
  BY <1>2, <1>4, StorageCounts
<1>7. Credit(s) = s.stored + s.calls BY <1>1, <1>2 DEF Credit
<1> HIDE DEF t
<1>8. CASE t.at = "asked" /\ ok
  <2> DEFINE pending == t.pending - 1
             storing == t.stored + 1
             u == [t EXCEPT !.at = "running", !.pending = pending, !.stored = storing]
  <2>1. Inner(a, u) BY <1>5, <1>6, <1>8 DEF TryType
  <2>2. pending \in Nat /\ storing \in Nat /\ pending = s.pending - 1 /\ storing = s.stored + 1 BY <1>1, <1>2, <1>6
  <2> HIDE DEF pending, storing
  <2>3. u \in TryType BY <1>6, <2>2 DEF TryType, Places
  <2>4. /\ u.at = "running" /\ u.calls = s.calls - 1 /\ u.worker = s.worker /\ u.key = s.key
        /\ u.served = s.served /\ u.own = s.own /\ u.pending = s.pending - 1 /\ u.doing = s.doing
        /\ u.next = s.next /\ u.over = s.over /\ u.stored = s.stored + 1
    BY <1>6, <2>2 DEF TryType
  <2> HIDE DEF u
  <2>5. Credit(u) <= Credit(s) BY <1>2, <1>7, <2>4 DEF Credit
  <2>6. Owed(u) = Owed(s) - 1 BY <1>2, <2>4 DEF Owed
  <2>7. Owed(u) <= u.calls BY <1>2, <1>3, <2>4, <2>6
  <2>8. Affordable(u, process[u.worker]) BY <2>7 DEF Affordable
  <2>9. u.at \in Working /\ ~u.over BY <1>2, <2>4 DEF Working
  <2> QED BY <1>1, <2>1, <2>3, <2>4, <2>5, <2>8, <2>9, InnerMoves
<1>9. CASE ~(t.at = "asked" /\ ok)
  <2> DEFINE outcome == IF t.outcome = "Deadline" THEN t.outcome ELSE "Failed"
             u == [t EXCEPT !.at = "running", !.failure = TRUE, !.pending = 0, !.next = "report", !.outcome = outcome]
  <2>1. Inner(a, u) BY <1>5, <1>6, <1>9 DEF TryType
  <2>2. outcome \in {"Deadline", "Failed"} OBVIOUS
  <2> HIDE DEF outcome
  <2>3. u \in TryType BY <1>6, <2>2 DEF TryType, Places
  <2>4. /\ u.at = "running" /\ u.calls = s.calls - 1 /\ u.worker = s.worker /\ u.key = s.key
        /\ u.served = s.served /\ u.own = s.own /\ u.pending = 0 /\ u.next = "report"
        /\ u.over = s.over /\ u.stored = s.stored
    BY <1>6 DEF TryType
  <2> HIDE DEF u
  <2>5. Credit(u) <= Credit(s) BY <1>2, <1>7, <2>4 DEF Credit
  <2>6. Owed(u) = s.own BY <1>2, <2>4 DEF Owed
  <2>7. Owed(u) <= u.calls BY <1>1, <1>2, <1>4, <2>4, <2>6
  <2>8. Affordable(u, process[u.worker]) BY <2>7 DEF Affordable
  <2>9. u.at \in Working /\ ~u.over BY <1>2, <2>4 DEF Working
  <2> QED BY <1>1, <2>1, <2>3, <2>4, <2>5, <2>8, <2>9, InnerMoves
<1> QED BY <1>8, <1>9

\* A question put to the host is a call counted before it is made.
LEMMA AskKeeps == ASSUME PoolInv, NEW a \in Attempts, Ask(a) PROVE PoolInv'
<1> DEFINE s == tries[a]
           t == Storage(a, s)
<1>1. /\ s.at = "running" /\ s.at \in Working /\ s.doing = "flush" /\ s.next = "ask" /\ s.pending = 0
      /\ process[s.worker].alive /\ ~process[s.worker].escaped
      /\ Inner(a, IF t.at = "asked" THEN [t EXCEPT !.doing = "ask"]
                  ELSE [t EXCEPT !.doing = "flush", !.next = "report", !.outcome = "Failed"])
  BY DEF Ask, InStep, Going, Escaped, Working
<1>2. /\ s \in TryType /\ ~s.over /\ Affordable(s, process[s.worker])
      /\ s.own \in Nat /\ s.pending \in Nat /\ s.calls \in Nat /\ s.stored \in Nat
  BY <1>1, ExchangeFacts DEF TryType
<1>3. s.own + 1 <= s.calls /\ s.calls > 0 BY <1>1, <1>2 DEF Affordable, Owed
<1>4. /\ t \in TryType /\ t.calls = s.calls - 1 /\ t.worker = s.worker /\ t.key = s.key
      /\ t.served = s.served /\ t.own = s.own /\ t.pending = s.pending /\ t.doing = s.doing
      /\ t.next = s.next /\ t.over = s.over /\ t.stored = s.stored /\ t.at \in {s.at, "asked"}
  BY <1>2, <1>3, StorageCounts
<1>5. Credit(s) = s.stored + s.calls BY <1>1, <1>2 DEF Credit
<1> HIDE DEF t
<1> DEFINE u == IF t.at = "asked" THEN [t EXCEPT !.doing = "ask"]
                ELSE [t EXCEPT !.doing = "flush", !.next = "report", !.outcome = "Failed"]
<1>6. Inner(a, u) BY <1>1
<1>7. /\ u \in TryType /\ u.at = t.at /\ u.calls = s.calls - 1 /\ u.worker = s.worker /\ u.key = s.key
      /\ u.served = s.served /\ u.own = s.own /\ u.pending = 0
      /\ (u.doing = "ask" \/ u.next = "report") /\ u.over = s.over /\ u.stored = s.stored
  <2>1. CASE t.at = "asked" BY <1>1, <1>4, <2>1 DEF TryType
  <2>2. CASE t.at # "asked" BY <1>1, <1>4, <2>2 DEF TryType
  <2> QED BY <2>1, <2>2
<1> HIDE DEF u
<1>8. Credit(u) <= Credit(s) BY <1>2, <1>5, <1>7 DEF Credit
<1>9. Owed(u) = s.own BY <1>2, <1>7 DEF Owed
<1>10. Owed(u) <= u.calls BY <1>2, <1>3, <1>7, <1>9
<1>11. Affordable(u, process[u.worker]) BY <1>10 DEF Affordable
<1>12. u.at \in Working /\ ~u.over BY <1>1, <1>2, <1>4, <1>7 DEF Working
<1> QED BY <1>1, <1>6, <1>7, <1>8, <1>11, <1>12, InnerMoves

\* The host's answer: what was asked is done, and a worker that gave up has a
\* reply it will not read.
LEMMA HostAnswersKeeps == ASSUME PoolInv, NEW a \in Attempts, HostAnswers(a) PROVE PoolInv'
<1> DEFINE s == tries[a]
<1>1. s.at = "asked" /\ s.at \in Working BY DEF HostAnswers, Working
<1>2. /\ s \in TryType /\ ~s.over /\ Affordable(s, process[s.worker]) /\ s.failure \in BOOLEAN /\ s.left \in BOOLEAN
      /\ s.own \in Nat /\ s.pending \in Nat /\ s.calls \in Nat /\ s.stored \in Nat
      /\ s.worker \in ProcessIds /\ process[s.worker] \in ProcessType /\ ~(s.worker > broker.next)
  BY <1>1, ExchangeFacts DEF TryType
<1>3. PICK ok \in BOOLEAN :
         LET t == [s EXCEPT !.at = "running", !.failure = @ \/ ~ok, !.stored = @ + 1] IN
         /\ Try(a, IF t.left \/ Escaped(a) THEN t
                   ELSE IF ok THEN [t EXCEPT !.doing = "guest"]
                   ELSE [t EXCEPT !.doing = "flush", !.next = "report", !.outcome = "Failed"])
         /\ process' = IF t.left THEN [process EXCEPT ![t.worker].stale = @ + 1] ELSE process
  BY DEF HostAnswers
<1>4. UNCHANGED <<pool, broker, arriving, woken, made>> BY DEF HostAnswers
<1> DEFINE storing == s.stored + 1
           failure == s.failure \/ ~ok
           r == [s EXCEPT !.at = "running", !.stored = storing]
           t == [r EXCEPT !.failure = failure]
<1>5. t = [s EXCEPT !.at = "running", !.failure = @ \/ ~ok, !.stored = @ + 1] BY <1>2 DEF TryType
<1>6. t \in TryType
  <2>1. failure \in BOOLEAN /\ storing \in Nat BY <1>2
  <2>2. r = [s EXCEPT !.at = "running", !.stored = storing] /\ t = [r EXCEPT !.failure = failure] OBVIOUS
  <2> HIDE DEF s, failure, storing, r, t
  <2>3. r \in TryType BY <1>2, <2>1, <2>2 DEF TryType, Places
  <2>4. CASE failure = TRUE BY <2>2, <2>3, <2>4 DEF TryType
  <2>5. CASE failure = FALSE BY <2>2, <2>3, <2>5 DEF TryType
  <2> QED BY <2>1, <2>4, <2>5
<1>7. /\ t.at = "running" /\ t.calls = s.calls /\ t.worker = s.worker /\ t.key = s.key
      /\ t.served = s.served /\ t.own = s.own /\ t.pending = s.pending /\ t.doing = s.doing
      /\ t.next = s.next /\ t.over = s.over /\ t.stored = s.stored + 1 /\ t.left = s.left
  BY <1>2 DEF TryType
<1> DEFINE u == IF t.left \/ Escaped(a) THEN t
                ELSE IF ok THEN [t EXCEPT !.doing = "guest"]
                ELSE [t EXCEPT !.doing = "flush", !.next = "report", !.outcome = "Failed"]
<1>8. tries' = [tries EXCEPT ![a] = u] BY <1>3, <1>5 DEF Try
<1>9. process' = IF s.left THEN [process EXCEPT ![s.worker].stale = @ + 1] ELSE process BY <1>3, <1>5, <1>7
<1> HIDE DEF t
<1>10. /\ u \in TryType /\ u.at = "running" /\ u.calls = s.calls /\ u.worker = s.worker /\ u.key = s.key
       /\ u.served = s.served /\ u.own = s.own /\ u.pending = s.pending /\ u.over = s.over /\ u.stored = s.stored + 1
       /\ (u.doing = s.doing /\ u.next = s.next) \/ u.doing = "guest" \/ u.next = "report"
  <2>1. CASE t.left \/ Escaped(a) BY <1>6, <1>7, <2>1
  <2>2. CASE ~(t.left \/ Escaped(a)) /\ ok BY <1>6, <1>7, <2>2 DEF TryType
  <2>3. CASE ~(t.left \/ Escaped(a)) /\ ~ok BY <1>6, <1>7, <2>3 DEF TryType
  <2> QED BY <2>1, <2>2, <2>3
<1> HIDE DEF u
<1>11. Credit(u) <= Credit(s) BY <1>1, <1>2, <1>10 DEF Credit
<1> DEFINE p == process[s.worker]
           q == process'[s.worker]
<1>12. /\ q \in ProcessType /\ q.alive = p.alive /\ q.escaped = p.escaped /\ q.runs = p.runs /\ q.seen = p.seen
       /\ \A id \in ProcessIds : id # s.worker => process'[id] = process[id]
       /\ process' \in [ProcessIds -> ProcessType]
  <2>1. process \in [ProcessIds -> ProcessType] BY DEF PoolInv, GuestsInv, GuestsTypeOK
  <2>2. CASE ~s.left BY <1>2, <1>9, <2>1, <2>2
  <2>3. CASE s.left
    <3> DEFINE stale == p.stale + 1
               new == [p EXCEPT !.stale = stale]
    <3>1. stale \in Nat BY <1>2 DEF ProcessType
    <3>2. process' = [process EXCEPT ![s.worker] = new] BY <1>2, <1>9, <2>1, <2>3 DEF ProcessType
    <3> HIDE DEF stale
    <3>3. new \in ProcessType /\ new.alive = p.alive /\ new.escaped = p.escaped /\ new.runs = p.runs /\ new.seen = p.seen
      BY <1>2, <3>1 DEF ProcessType
    <3> HIDE DEF new
    <3> QED BY <1>2, <2>1, <3>2, <3>3
  <2> QED BY <2>2, <2>3
<1>13. AllTame
  <2> SUFFICES ASSUME NEW id \in ProcessIds PROVE Tame(id) BY DEF AllTame
  <2>1. process[id] \in ProcessType BY ProcessRange DEF PoolInv, GuestsInv
  <2>2. CASE id = s.worker BY <1>2, <1>12, <2>2 DEF Tame, Unused, ProcessType
  <2>3. CASE id # s.worker BY <1>12, <2>1, <2>3 DEF Tame, Unused, ProcessType
  <2> QED BY <2>2, <2>3
<1>14. Affordable(u, process'[u.worker])
  <2>1. Owed(u) <= Owed(s) BY <1>2, <1>10 DEF Owed
  <2>2. Owed(u) \in Int /\ Owed(s) \in Int BY <1>2, <1>10 DEF Owed
  <2>3. Owed(s) <= s.calls => Owed(u) <= u.calls BY <1>2, <1>10, <2>1, <2>2
  <2> QED BY <1>2, <1>10, <1>12, <2>3 DEF Affordable
<1>15. u.at \in Working /\ ~u.over BY <1>2, <1>10 DEF Working
<1> QED BY <1>1, <1>4, <1>8, <1>10, <1>11, <1>12, <1>13, <1>14, <1>15, TalkMoves

LEMMA ResultsOf == \A outcome \in {"Output", "Failed", "Deadline"} : ResultOf(outcome) \in Results
BY DEF ResultOf, Results

\* Done: the figure of the worker is held against the server's own.
LEMMA ReportKeeps ==
    ASSUME PoolInv, NEW a \in Attempts,
           \/ Report(a)
           \/ \E claim \in 0 .. HOST_CALLS + 1 : HostileDone(a, claim)
    PROVE  PoolInv'
<1>1. tries[a].at \in Working BY DEF Report, HostileDone, Working
<1>2. /\ tries[a] \in TryType /\ tries[a].own \in Nat /\ tries[a].calls \in Nat
      /\ tries[a].outcome \in {"Output", "Failed", "Deadline"} /\ HOST_CALLS \in Nat
  BY <1>1, ExchangeFacts, GuestsAssumption DEF TryType
<1>3. \A claim \in Nat : Counted(a, claim) \in Nat /\ Counted(a, claim) <= tries[a].calls BY <1>2 DEF Counted
<1>4. PICK claim \in Nat, outcome \in {"Output", "Failed", "Deadline"} :
         Concluded(a, TRUE, Counted(a, claim), ResultOf(outcome))
  <2>1. CASE Report(a)
    <3>1. Concluded(a, TRUE, Counted(a, tries[a].own), ResultOf(tries[a].outcome)) BY <2>1 DEF Report
    <3> QED BY <1>2, <3>1
  <2>2. CASE \E claim \in 0 .. HOST_CALLS + 1 : HostileDone(a, claim)
    <3>1. PICK claim \in 0 .. HOST_CALLS + 1 : HostileDone(a, claim) BY <2>2
    <3>2. PICK outcome \in {"Output", "Failed"} : Concluded(a, TRUE, Counted(a, claim), ResultOf(outcome))
      BY <3>1 DEF HostileDone
    <3>3. claim \in Nat BY <1>2, <3>1
    <3> QED BY <3>2, <3>3
  <2> QED BY <2>1, <2>2
<1>5. ResultOf(outcome) \in Results BY ResultsOf
<1> DEFINE budget == Counted(a, claim)
           result == ResultOf(outcome)
           kept == TRUE
<1>6. /\ budget \in Nat /\ budget <= tries[a].calls /\ result \in Results /\ kept \in BOOLEAN
      /\ Concluded(a, kept, budget, result)
  BY <1>3, <1>4, <1>5
<1> HIDE DEF budget, result, kept
<1> QED BY <1>1, <1>6, ConcludedKeeps

LEMMA BrokenKeeps == ASSUME PoolInv, NEW a \in Attempts, Broken(a) PROVE PoolInv'
<1>1. tries[a].at \in Working BY DEF Broken, Working
<1> DEFINE kept == FALSE
           budget == tries[a].calls
<1>2. PICK result \in {"failed", "deadline"} : Concluded(a, kept, budget, result) BY DEF Broken
<1>3. result \in Results /\ kept \in BOOLEAN BY DEF Results
<1>4. budget \in Nat /\ budget <= tries[a].calls BY <1>1, ExchangeFacts DEF TryType
<1> HIDE DEF kept, budget
<1> QED BY <1>1, <1>2, <1>3, <1>4, ConcludedKeeps

\* An escaped guest asks for storage: a call too many ends the exchange.
LEMMA HostileCallKeeps == ASSUME PoolInv, NEW a \in Attempts, HostileCall(a) PROVE PoolInv'
<1> DEFINE s == tries[a]
           t == Storage(a, s)
<1>1. s.at = "running" /\ s.at \in Working /\ process[s.worker].escaped
  BY DEF HostileCall, Working, Escaped
<1>2. /\ s \in TryType /\ ~s.over /\ s.calls \in Nat /\ s.stored \in Nat BY <1>1, ExchangeFacts DEF TryType
<1>3. CASE s.calls = 0
  <2> DEFINE kept == FALSE
             budget == 0
             result == "failed"
  <2>1. Concluded(a, kept, budget, result) BY <1>3 DEF HostileCall, Exceeds
  <2>2. kept \in BOOLEAN /\ budget \in Nat /\ budget <= s.calls /\ result \in Results BY <1>3 DEF Results
  <2> HIDE DEF kept, budget, result
  <2> QED BY <1>1, <2>1, <2>2, ConcludedKeeps
<1>4. CASE s.calls # 0
  <2>1. Inner(a, t) BY <1>4 DEF HostileCall, Exceeds
  <2>2. /\ t \in TryType /\ t.calls = s.calls - 1 /\ t.worker = s.worker /\ t.key = s.key
        /\ t.served = s.served /\ t.over = s.over /\ t.stored = s.stored /\ t.at \in {s.at, "asked"}
    BY <1>2, <1>4, StorageCounts
  <2> HIDE DEF t
  <2>3. Credit(t) <= Credit(s) BY <1>1, <1>2, <2>2 DEF Credit
  <2>4. Affordable(t, process[t.worker]) BY <1>1, <2>2 DEF Affordable
  <2>5. t.at \in Working /\ ~t.over BY <1>1, <1>2, <2>2 DEF Working
  <2> QED BY <1>1, <2>1, <2>2, <2>3, <2>4, <2>5, InnerMoves
<1> QED BY <1>3, <1>4

\* A guest escapes: its worker owes nothing it could be held to.
LEMMA EscapeKeeps == ASSUME PoolInv, NEW a \in Attempts, Escape(a) PROVE PoolInv'
<1> DEFINE s == tries[a]
           t == [s EXCEPT !.own = 0, !.pending = 0]
           p == process[s.worker]
           new == [p EXCEPT !.escaped = TRUE]
<1>1. /\ s.at = "running" /\ s.at \in Working /\ tries' = [tries EXCEPT ![a] = t]
      /\ process' = [process EXCEPT ![s.worker].escaped = TRUE]
      /\ UNCHANGED <<pool, broker, arriving, woken, made>>
  BY DEF Escape, InStep, Going, Try, Working
<1>2. /\ s \in TryType /\ ~s.over /\ s.calls \in Nat /\ s.stored \in Nat
      /\ s.worker \in ProcessIds /\ p \in ProcessType
  BY <1>1, ExchangeFacts DEF TryType
<1>3. /\ t \in TryType /\ t.at = s.at /\ t.calls = s.calls /\ t.worker = s.worker /\ t.key = s.key
      /\ t.served = s.served /\ t.over = s.over /\ t.stored = s.stored
  BY <1>2 DEF TryType
<1>4. process \in [ProcessIds -> ProcessType] BY DEF PoolInv, GuestsInv, GuestsTypeOK
<1>5. /\ new \in ProcessType /\ new.escaped /\ new.alive = p.alive /\ new.runs = p.runs /\ new.seen = p.seen
  BY <1>2 DEF ProcessType
<1>6. process' = [process EXCEPT ![s.worker] = new] BY <1>1, <1>2, <1>4
<1> HIDE DEF t, new
<1>7. process' \in [ProcessIds -> ProcessType] /\ process'[s.worker] = new
      /\ \A id \in ProcessIds : id # s.worker => process'[id] = process[id]
  BY <1>2, <1>4, <1>5, <1>6
<1>8. AllTame
  <2> SUFFICES ASSUME NEW id \in ProcessIds PROVE Tame(id) BY DEF AllTame
  <2>1. process[id] \in ProcessType BY <1>4
  <2>2. CASE id = s.worker
    <3>1. ~(s.worker > broker.next) BY <1>1, ExchangeFacts
    <3> QED BY <1>2, <1>5, <1>7, <2>2, <3>1 DEF Tame, Unused, ProcessType
  <2>3. CASE id # s.worker BY <1>7, <2>1, <2>3 DEF Tame, Unused, ProcessType
  <2> QED BY <2>2, <2>3
<1>9. Credit(t) <= Credit(s) BY <1>2, <1>3, <1>1 DEF Credit
<1>10. Affordable(t, process'[t.worker]) BY <1>3, <1>5, <1>7 DEF Affordable
<1>11. t.at \in Working /\ ~t.over BY <1>1, <1>2, <1>3
<1> QED BY <1>1, <1>3, <1>7, <1>8, <1>9, <1>10, <1>11, TalkMoves

\* The state is well typed when no attempt takes a step.
LEMMA StillTypes ==
    ASSUME GuestsTypeOK, Unstarted, tries' = tries, made' = made, pool' \in PoolType, pool'.size = pool.size,
           broker' \in BrokerType, process' \in [ProcessIds -> ProcessType], arriving' \in SUBSET Nat,
           woken' \in SUBSET Attempts
    PROVE  GuestsTypeOK' /\ Unstarted'
<1>1. ProcessIds' = ProcessIds BY DEF ProcessIds
<1>2. GuestsTypeOK' BY <1>1 DEF GuestsTypeOK
<1>3. Unstarted' BY DEF Unstarted, Waiters
<1> QED BY <1>2, <1>3

LEMMA UnbornType == Unborn \in ProcessType /\ Unborn.runs = 0 /\ Unborn.seen = {} /\ ~Unborn.alive
BY DEF Unborn, ProcessType

\* A process ends by itself.
LEMMA FadesAway ==
    ASSUME PoolInv, NEW w \in ProcessIds, w > broker.next => process[w] = Unborn,
           process' = [process EXCEPT ![w] = Unborn], UNCHANGED <<pool, broker, arriving, tries, woken, made>>
    PROVE  PoolInv'
<1>1. GuestsTypeOK /\ process \in [ProcessIds -> ProcessType] BY DEF PoolInv, GuestsInv, GuestsTypeOK
<1>2. process' \in [ProcessIds -> ProcessType] BY <1>1, UnbornType
<1>3. \A id \in ProcessIds : process'[id] = IF id = w THEN Unborn ELSE process[id] BY <1>1
<1>4. AllTame
  <2> SUFFICES ASSUME NEW id \in ProcessIds PROVE Tame(id) BY DEF AllTame
  <2>1. process[id] \in ProcessType BY <1>1
  <2>2. CASE id = w BY <1>3, <2>1, <2>2, UnbornType DEF Tame, Unused, ProcessType
  <2>3. CASE id # w BY <1>3, <2>1, <2>3 DEF Tame, Unused, ProcessType
  <2> QED BY <2>2, <2>3
<1>5. GuestsTypeOK' /\ Unstarted'
  <2>1. pool' \in PoolType /\ broker' \in BrokerType /\ arriving' \in SUBSET Nat /\ woken' \in SUBSET Attempts
    BY <1>1 DEF GuestsTypeOK
  <2> QED BY <1>1, <1>2, <2>1, StillTypes DEF PoolInv
<1> QED BY <1>4, <1>5, FadeKeeps DEF PoolInv

LEMMA OutOfStepKeeps == ASSUME PoolInv, NEW a \in Attempts, OutOfStep(a) PROVE PoolInv'
<1>1. tries[a].at \in Working BY DEF OutOfStep, Going, Working
<1> DEFINE w == tries[a].worker
<1>2. w \in ProcessIds /\ ~(w > broker.next) BY <1>1, ExchangeFacts
<1>3. process' = [process EXCEPT ![w] = Unborn] /\ UNCHANGED <<pool, broker, arriving, tries, woken, made>>
  BY DEF OutOfStep
<1> HIDE DEF w
<1> QED BY <1>2, <1>3, FadesAway

LEMMA ExitsKeeps == ASSUME PoolInv, NEW id \in ProcessIds, Exits(id) PROVE PoolInv'
<1>1. id > broker.next => process[id] = Unborn BY DEF PoolInv, GuestsInv, Isolated
<1>2. process' = [process EXCEPT ![id] = Unborn] /\ UNCHANGED <<pool, broker, arriving, tries, woken, made>>
  BY DEF Exits
<1> QED BY <1>1, <1>2, FadesAway

LEMMA StartAnsweredSteps == ASSUME PoolInv, StartAnswered PROVE PoolInv'
<1> USE DEF PoolInv
<1> DEFINE replies == broker.replies
           ready == replies # << >> /\ Head(replies)[1] = "READY"
<1>1. /\ GuestsTypeOK /\ pool \in PoolType /\ broker \in BrokerType /\ replies \in Seq(Reply)
      /\ process \in [ProcessIds -> ProcessType] /\ arriving \in SUBSET Nat /\ woken \in SUBSET Attempts
  BY DEF GuestsInv, GuestsTypeOK, BrokerType
<1>2. /\ tries' = tries /\ process' = process /\ made' = made
      /\ broker' = IF replies # << >> THEN [broker EXCEPT !.replies = Tail(@)] ELSE broker
  BY DEF StartAnswered
<1>3. broker' \in BrokerType
  <2> DEFINE rest == Tail(replies)
  <2>1. CASE replies = << >> BY <1>1, <1>2, <2>1
  <2>2. CASE replies # << >>
    <3>1. rest \in Seq(Reply) /\ broker' = [broker EXCEPT !.replies = rest] BY <1>1, <1>2, <2>2 DEF BrokerType
    <3> HIDE DEF rest
    <3> QED BY <1>1, <3>1 DEF BrokerType
  <2> QED BY <2>1, <2>2
<1>4. \E live \in Int : pool' = [pool EXCEPT !.asking = @ - 1, !.starting = @ - 1, !.live = live]
  <2>1. CASE ready
    <3>1. pool' = [pool EXCEPT !.asking = @ - 1, !.starting = @ - 1] BY <2>1 DEF StartAnswered
    <3>2. pool' = [pool EXCEPT !.asking = @ - 1, !.starting = @ - 1, !.live = pool.live] BY <1>1, <3>1 DEF PoolType
    <3>3. pool.live \in Int BY <1>1 DEF PoolType
    <3> QED BY <3>2, <3>3
  <2>2. CASE ~ready
    <3>1. pool' = [[pool EXCEPT !.asking = @ - 1, !.starting = @ - 1] EXCEPT !.live = @ - 1]
      BY <2>2 DEF StartAnswered
    <3>2. pool' = [pool EXCEPT !.asking = @ - 1, !.starting = @ - 1, !.live = pool.live - 1]
      BY <1>1, <3>1 DEF PoolType
    <3>3. pool.live - 1 \in Int BY <1>1 DEF PoolType
    <3> QED BY <3>2, <3>3
  <2> QED BY <2>1, <2>2
<1>5. pool' \in PoolType /\ pool'.size = pool.size
  <2>1. PICK live \in Int : pool' = [pool EXCEPT !.asking = @ - 1, !.starting = @ - 1, !.live = live] BY <1>4
  <2>2. pool.asking - 1 \in Int /\ pool.starting - 1 \in Int BY <1>1 DEF PoolType
  <2> QED BY <1>1, <2>1, <2>2 DEF PoolType
<1>6. arriving' \in SUBSET Nat
  <2>1. CASE ready
    <3>1. Head(replies) \in Reply BY <1>1, <2>1
    <3>2. Head(replies)[2] \in Nat BY <3>1 DEF Reply
    <3>3. arriving' = arriving \cup {Head(replies)[2]} BY <2>1 DEF StartAnswered
    <3> QED BY <1>1, <3>2, <3>3
  <2>2. CASE ~ready BY <1>1, <2>2 DEF StartAnswered
  <2> QED BY <2>1, <2>2
<1>7. woken' \in SUBSET Attempts BY <1>1 DEF StartAnswered, Bump, Waiters
<1>8. process' \in [ProcessIds -> ProcessType] BY <1>1, <1>2
<1>9. GuestsTypeOK' /\ Unstarted' BY <1>1, <1>2, <1>3, <1>5, <1>6, <1>7, <1>8, StillTypes
<1> QED BY <1>9, StartAnsweredKeeps

LEMMA ArrivedSteps == ASSUME PoolInv, NEW id \in ProcessIds, Arrived(id) PROVE PoolInv'
<1> USE DEF PoolInv
<1> DEFINE e == [id |-> id, served |-> 0, key |-> NoWorker]
           idle == Append(pool.idle, e)
<1>1. /\ GuestsTypeOK /\ pool \in PoolType /\ broker \in BrokerType /\ pool.idle \in Seq(IdleWorker)
      /\ process \in [ProcessIds -> ProcessType] /\ arriving \in SUBSET Nat
  BY DEF GuestsInv, GuestsTypeOK, PoolType
<1>2. /\ id \in arriving /\ arriving' = arriving \ {id} /\ Bump /\ UNCHANGED <<broker, process, tries, made>>
      /\ pool' = [pool EXCEPT !.idle = Append(@, e)]
  BY DEF Arrived
<1>3. e \in IdleWorker BY <1>1, <1>2 DEF IdleWorker, Keys
<1>4. pool' = [pool EXCEPT !.idle = idle] BY <1>1, <1>2 DEF PoolType
<1> HIDE DEF e
<1>5. idle \in Seq(IdleWorker) BY <1>1, <1>3
<1> HIDE DEF idle
<1>6. pool' \in PoolType /\ pool'.size = pool.size BY <1>1, <1>4, <1>5 DEF PoolType
<1>7. woken' \in SUBSET Attempts BY <1>2 DEF Bump, Waiters
<1>8. GuestsTypeOK' /\ Unstarted'
  <2>1. arriving' \in SUBSET Nat BY <1>1, <1>2
  <2> QED BY <1>1, <1>2, <1>6, <1>7, <2>1, StillTypes
<1> QED BY <1>8, ArrivedKeeps

LEMMA BrokerReadsSteps == ASSUME PoolInv, BrokerReads PROVE PoolInv'
<1> USE DEF PoolInv
<1> DEFINE sent == Tail(pool.sent)
           swept == Alive(broker.children)
           next == broker.next + 1
           w == Head(pool.sent)[2]
<1>1. /\ GuestsTypeOK /\ pool \in PoolType /\ broker \in BrokerType /\ pool.sent \in Seq(Message)
      /\ process \in [ProcessIds -> ProcessType] /\ arriving \in SUBSET Nat /\ woken \in SUBSET Attempts
      /\ broker.children \in SUBSET Nat /\ broker.starting \in SUBSET Nat /\ broker.next \in Nat
      /\ broker.replies \in Seq(Reply)
  BY DEF GuestsInv, GuestsTypeOK, PoolType, BrokerType
<1>2. /\ pool.sent # << >> /\ pool' = [pool EXCEPT !.sent = Tail(@)]
      /\ UNCHANGED <<arriving, tries, woken, made>>
  BY DEF BrokerReads
<1>3. pool' \in PoolType /\ pool'.size = pool.size
  <2>1. sent \in Seq(Message) /\ pool' = [pool EXCEPT !.sent = sent] BY <1>1, <1>2 DEF PoolType
  <2> HIDE DEF sent
  <2> QED BY <1>1, <2>1 DEF PoolType
<1>4. swept \in SUBSET Nat /\ swept \ {w} \in SUBSET Nat /\ next \in Nat BY <1>1 DEF Alive
<1>5. CASE Head(pool.sent)[1] = "START"
  <2> DEFINE full == Cardinality(swept) + Cardinality(broker.starting) >= 2 * pool.size
             e == <<"FAILED", next>>
             replies == Append(broker.replies, e)
             starting == broker.starting \cup {next}
  <2>1. /\ process' = process
        /\ broker' = IF full THEN [broker EXCEPT !.next = next, !.children = swept, !.replies = Append(@, e)]
                     ELSE [broker EXCEPT !.next = next, !.children = swept, !.starting = @ \cup {next}]
    BY <1>5 DEF BrokerReads
  <2>2. e \in Reply BY <1>4 DEF Reply
  <2> HIDE DEF full, swept, next, e
  <2>3. replies \in Seq(Reply) /\ starting \in SUBSET Nat BY <1>1, <1>4, <2>2
  <2>4. broker' \in BrokerType
    <3>1. CASE full
      <4>1. broker' = [broker EXCEPT !.next = next, !.children = swept, !.replies = replies]
        BY <1>1, <2>1, <3>1 DEF BrokerType
      <4> HIDE DEF replies
      <4> QED BY <1>1, <1>4, <2>3, <4>1 DEF BrokerType
    <3>2. CASE ~full
      <4>1. broker' = [broker EXCEPT !.next = next, !.children = swept, !.starting = starting]
        BY <1>1, <2>1, <3>2 DEF BrokerType
      <4> HIDE DEF starting
      <4> QED BY <1>1, <1>4, <2>3, <4>1 DEF BrokerType
    <3> QED BY <3>1, <3>2
  <2>5. GuestsTypeOK' /\ Unstarted' BY <1>1, <1>2, <1>3, <2>1, <2>4, StillTypes
  <2> QED BY <1>5, <2>5, BrokerStartReadKeeps
<1>6. CASE Head(pool.sent)[1] # "START"
  <2>1. /\ broker' = [broker EXCEPT !.children = Alive(@) \ {w}]
        /\ process' = IF w \in broker.children THEN [process EXCEPT ![w] = Unborn] ELSE process
    BY <1>6 DEF BrokerReads
  <2> DEFINE children == swept \ {w}
  <2>2. broker' = [broker EXCEPT !.children = children] BY <1>1, <2>1 DEF BrokerType
  <2> HIDE DEF w
  <2>3. process' \in [ProcessIds -> ProcessType] BY <1>1, <2>1, UnbornType
  <2>4. children \in SUBSET Nat BY <1>4
  <2> HIDE DEF children
  <2>5. broker' \in BrokerType BY <1>1, <2>2, <2>4 DEF BrokerType
  <2>6. GuestsTypeOK' /\ Unstarted' BY <1>1, <1>2, <1>3, <2>3, <2>5, StillTypes
  <2> QED BY <1>6, <2>6, BrokerKillReadKeeps
<1> QED BY <1>5, <1>6

LEMMA BrokerStartsSteps == ASSUME PoolInv, NEW id \in ProcessIds, BrokerStarts(id) \/ BrokerReports(id) PROVE PoolInv'
<1> USE DEF PoolInv
<1>1. /\ GuestsTypeOK /\ pool \in PoolType /\ broker \in BrokerType /\ process \in [ProcessIds -> ProcessType]
      /\ arriving \in SUBSET Nat /\ woken \in SUBSET Attempts /\ broker.replies \in Seq(Reply)
      /\ broker.children \in SUBSET Nat /\ broker.starting \in SUBSET Nat
  BY DEF GuestsInv, GuestsTypeOK, BrokerType
<1>2. /\ broker.alive /\ id \in broker.starting /\ id \in Nat /\ UNCHANGED <<pool, arriving, tries, woken, made>>
  BY <1>1 DEF BrokerStarts, BrokerReports
<1>3. \A b : /\ Staged(b, id, 1) = [b EXCEPT !.children = @ \cup {id}]
             /\ Staged(b, id, 2) = [b EXCEPT !.replies = Append(@, <<"READY", id>>)]
  BY DEF Staged, StartStages
<1>4. ASSUME ~process[id].alive, process' = [process EXCEPT ![id].alive = TRUE],
             broker' = [broker EXCEPT !.children = @ \cup {id}]
      PROVE  PoolInv'
  <2> DEFINE p == process[id]
             new == [p EXCEPT !.alive = TRUE]
             children == broker.children \cup {id}
  <2>1. process' = [process EXCEPT ![id] = new] BY <1>1, <1>4
  <2>2. new \in ProcessType BY <1>1 DEF ProcessType
  <2>3. broker' = [broker EXCEPT !.children = children] BY <1>1, <1>4 DEF BrokerType
  <2>4. children \in SUBSET Nat BY <1>1, <1>2
  <2> HIDE DEF new, children
  <2>5. process' \in [ProcessIds -> ProcessType] /\ broker' \in BrokerType
    BY <1>1, <2>1, <2>2, <2>3, <2>4 DEF BrokerType
  <2>6. GuestsTypeOK' /\ Unstarted' BY <1>1, <1>2, <2>5, StillTypes
  <2> QED BY <1>2, <1>4, <2>6, BrokerListsKeeps
<1>5. ASSUME NEW kind \in {"READY", "FAILED"}, kind = "FAILED" => ~process[id].alive, process' = process,
             broker' = [broker EXCEPT !.starting = @ \ {id}, !.replies = Append(@, <<kind, id>>)]
      PROVE  PoolInv'
  <2> DEFINE e == <<kind, id>>
             replies == Append(broker.replies, e)
             starting == broker.starting \ {id}
  <2>1. broker' = [broker EXCEPT !.starting = starting, !.replies = replies] BY <1>1, <1>5 DEF BrokerType
  <2>2. e \in Reply BY <1>2 DEF Reply
  <2> HIDE DEF e
  <2>3. replies \in Seq(Reply) /\ starting \in SUBSET Nat BY <1>1, <2>2
  <2> HIDE DEF replies, starting
  <2>4. broker' \in BrokerType BY <1>1, <2>1, <2>3 DEF BrokerType
  <2>5. GuestsTypeOK' /\ Unstarted' BY <1>1, <1>2, <1>5, <2>4, StillTypes
  <2> QED BY <1>2, <1>5, <2>5, BrokerAnswersKeeps
<1>6. CASE BrokerStarts(id)
  <2>1. CASE process' = [process EXCEPT ![id].alive = TRUE] /\ broker' = Staged(broker, id, 1)
    BY <1>3, <1>4, <1>6, <2>1 DEF BrokerStarts
  <2>2. CASE /\ broker' = [broker EXCEPT !.starting = @ \ {id}, !.replies = Append(@, <<"FAILED", id>>)]
             /\ UNCHANGED process
    BY <1>5, <1>6, <2>2 DEF BrokerStarts
  <2> QED BY <1>6, <2>1, <2>2 DEF BrokerStarts
<1>7. CASE BrokerReports(id)
  <2>1. process' = process /\ broker' = [Staged(broker, id, 2) EXCEPT !.starting = @ \ {id}]
    BY <1>7 DEF BrokerReports
  <2>2. broker' = [broker EXCEPT !.starting = @ \ {id}, !.replies = Append(@, <<"READY", id>>)]
    BY <1>1, <1>3, <2>1 DEF BrokerType
  <2> QED BY <1>5, <2>1, <2>2
<1> QED BY <1>6, <1>7

LEMMA BrokerDiesSteps == ASSUME PoolInv, BrokerDies PROVE PoolInv'
<1> USE DEF PoolInv
<1>1. /\ GuestsTypeOK /\ pool \in PoolType /\ broker \in BrokerType /\ process \in [ProcessIds -> ProcessType]
      /\ arriving \in SUBSET Nat /\ woken \in SUBSET Attempts
  BY DEF GuestsInv, GuestsTypeOK
<1>2. /\ broker' = [broker EXCEPT !.alive = FALSE, !.starting = {}, !.children = {}]
      /\ pool' = [pool EXCEPT !.sent = << >>] /\ UNCHANGED <<process, arriving, tries, woken, made>>
  BY DEF BrokerDies
<1>3. broker' \in BrokerType BY <1>1, <1>2 DEF BrokerType
<1>4. pool' \in PoolType /\ pool'.size = pool.size
  <2>1. << >> \in Seq(Message) OBVIOUS
  <2> QED BY <1>1, <1>2, <2>1 DEF PoolType
<1>5. GuestsTypeOK' /\ Unstarted' BY <1>1, <1>2, <1>3, <1>4, StillTypes
<1> QED BY <1>5, BrokerDiesKeeps

LEMMA PoolNext == ASSUME PoolInv, [GuestsNext]_guestVars PROVE PoolInv'
<1>1. CASE UNCHANGED guestVars
  <2>1. UNCHANGED <<pool, broker, process, arriving, tries, woken, made>> BY <1>1 DEF guestVars
  <2>2. /\ GuestsTypeOK /\ pool \in PoolType /\ broker \in BrokerType /\ process \in [ProcessIds -> ProcessType]
        /\ arriving \in SUBSET Nat /\ woken \in SUBSET Attempts
    BY DEF PoolInv, GuestsInv, GuestsTypeOK
  <2>3. GuestsTypeOK' /\ Unstarted' BY <2>1, <2>2, StillTypes DEF PoolInv
  <2>4. AllTame
    <3>1. GuestsTypeOK /\ HeldKnown BY DEF PoolInv, GuestsInv
    <3> QED BY <2>1, <3>1, ProcessRange DEF AllTame, Tame, Unused, ProcessType
  <2> QED BY <2>1, <2>3, <2>4, FadeKeeps DEF PoolInv
<1>2. ASSUME NEW a \in Attempts, NEW offer \in Offers, Request(a, offer[1], offer[2]) PROVE PoolInv'
  BY <1>2, RequestKeeps
<1>3. ASSUME NEW a \in Attempts, Checkout(a) PROVE PoolInv'
  BY <1>3, LookKeeps, EvictKeepsPool, ReinforceKeeps, WakeKeeps, ExpireKeeps, DropAttemptKeeps DEF Checkout
<1>4. ASSUME NEW a \in Attempts, Exchange(a) PROVE PoolInv'
  <2>1. CASE Broken(a) \/ OutOfStep(a) \/ Escape(a) \/ HostileCall(a)
    BY <2>1, BrokenKeeps, OutOfStepKeeps, EscapeKeeps, HostileCallKeeps
  <2>2. CASE GuestLocal(a) \/ GuestSource(a) \/ GuestAsk(a) BY <2>2, GuestImportKeeps
  <2>3. CASE GuestEnds(a, "Output") \/ GuestEnds(a, "Failed") \/ GuestDeadline(a) BY <2>3, GuestStopsKeeps
  <2>4. CASE FlushSource(a) \/ Ask(a) \/ HostAnswers(a) BY <2>4, FlushSourceKeeps, AskKeeps, HostAnswersKeeps
  <2>5. CASE Report(a) \/ \E claim \in 0 .. HOST_CALLS + 1 : HostileDone(a, claim) BY <2>5, ReportKeeps
  <2> QED BY <1>4, <2>1, <2>2, <2>3, <2>4, <2>5 DEF Exchange
<1>5. CASE StartAnswered BY <1>5, StartAnsweredSteps
<1>6. ASSUME NEW id \in ProcessIds, Arrived(id) \/ Exits(id) PROVE PoolInv' BY <1>6, ArrivedSteps, ExitsKeeps
<1>7. CASE Brokerage BY <1>7, BrokerReadsSteps, BrokerStartsSteps DEF Brokerage
<1>8. CASE BrokerDies BY <1>8, BrokerDiesSteps
<1> QED BY <1>1, <1>2, <1>3, <1>4, <1>5, <1>6, <1>7, <1>8 DEF GuestsNext

\* The server starts with its warm workers idle, and every attempt to come.
LEMMA PoolStarts == GuestsInit => PoolInv
<1> SUFFICES ASSUME GuestsInit PROVE PoolInv OBVIOUS
<1>1. PICK size \in Concurrencies :
         /\ pool = [size |-> size, idle |-> [i \in 1 .. Warm(size) |-> [id |-> i, served |-> 0, key |-> NoWorker]],
                    live |-> Warm(size), starting |-> 0, waiting |-> 0, asking |-> 0, sent |-> << >>]
         /\ broker = [alive |-> TRUE, replies |-> << >>, starting |-> {}, children |-> 1 .. Warm(size),
                      next |-> Warm(size)]
         /\ process = [i \in 1 .. MaxStarts[size] |-> [Unborn EXCEPT !.alive = i <= Warm(size)]]
  BY DEF GuestsInit
<1>2. arriving = {} /\ tries = [a \in Attempts |-> Idling] /\ woken = {} /\ made = 0 BY DEF GuestsInit
<1> DEFINE warm == Warm(size)
           idle == [i \in 1 .. warm |-> [id |-> i, served |-> 0, key |-> NoWorker]]
<1>3. /\ warm \in Nat /\ warm <= size /\ warm <= MaxStarts[size] /\ MaxStarts[size] \in Nat /\ size \in Nat
      /\ HOST_CALLS \in Nat /\ RETIRE_AFTER \in Nat /\ RETIRE_AFTER > 0
  BY GuestsAssumption, SizeType DEF Warm
<1> HIDE DEF warm
<1>4. \A i \in 1 .. warm : [id |-> i, served |-> 0, key |-> NoWorker] \in IdleWorker BY <1>3 DEF IdleWorker, Keys
<1>5. idle \in Seq(IdleWorker) /\ Len(idle) = warm /\ DOMAIN idle = 1 .. warm
  BY <1>3, <1>4, SeqDef
<1>6. \A i \in 1 .. warm : idle[i].id = i /\ idle[i].served = 0 /\ idle[i].key = NoWorker OBVIOUS
<1>7. /\ pool.size = size /\ pool.idle = idle /\ pool.live = warm /\ pool.starting = 0 /\ pool.waiting = 0
      /\ pool.asking = 0 /\ pool.sent = << >>
      /\ pool = [size |-> size, idle |-> idle, live |-> warm, starting |-> 0, waiting |-> 0, asking |-> 0,
                 sent |-> << >>]
  BY <1>1 DEF warm
<1> HIDE DEF idle
<1>8. /\ broker.alive = TRUE /\ broker.replies = << >> /\ broker.starting = {} /\ broker.children = 1 .. warm
      /\ broker.next = warm
      /\ broker = [alive |-> TRUE, replies |-> << >>, starting |-> {}, children |-> 1 .. warm, next |-> warm]
  BY <1>1 DEF warm
<1>9. ProcessIds = 1 .. MaxStarts[size] /\ process = [i \in ProcessIds |-> [Unborn EXCEPT !.alive = i <= warm]]
  BY <1>1, <1>7 DEF ProcessIds, warm
<1>10. \A i \in ProcessIds : /\ process[i].runs = 0 /\ process[i].seen = {} /\ (process[i].alive => i <= warm)
  BY <1>9 DEF Unborn
<1>11. \A i \in ProcessIds : i > warm => process[i] = Unborn
  <2> SUFFICES ASSUME NEW i \in ProcessIds, i > warm PROVE process[i] = Unborn OBVIOUS
  <2>1. (i <= warm) = FALSE BY <1>3, <1>9
  <2>2. process[i] = [Unborn EXCEPT !.alive = FALSE] BY <1>9, <2>1
  <2> QED BY <2>2 DEF Unborn
<1>12. \A a \in Attempts : tries[a] = Idling BY <1>2
<1>13. /\ Idling.worker = NoWorker /\ Idling.at = "idle" /\ Idling.result = "none" /\ Idling.over = FALSE
       /\ Idling.stored = 0 /\ Idling.calls = 0
  BY DEF Idling
<1>14. GuestsTypeOK
  <2>1. pool \in PoolType
    <3>1. << >> \in Seq(Message) OBVIOUS
    <3> QED BY <1>3, <1>5, <1>7, <3>1 DEF PoolType
  <2>2. broker \in BrokerType
    <3>1. << >> \in Seq(Reply) /\ 1 .. warm \subseteq Nat BY <1>3
    <3> QED BY <1>3, <1>8, <3>1 DEF BrokerType
  <2>3. process \in [ProcessIds -> ProcessType]
    <3>1. \A i \in ProcessIds : (i <= warm) \in BOOLEAN OBVIOUS
    <3>2. \A b \in BOOLEAN : [Unborn EXCEPT !.alive = b] \in ProcessType
      <4> SUFFICES ASSUME NEW b \in BOOLEAN PROVE [Unborn EXCEPT !.alive = b] \in ProcessType OBVIOUS
      <4>1. CASE b = TRUE BY <4>1, UnbornType DEF ProcessType
      <4>2. CASE b = FALSE BY <4>2, UnbornType DEF ProcessType
      <4> QED BY <4>1, <4>2
    <3>3. \A i \in ProcessIds : [Unborn EXCEPT !.alive = i <= warm] \in ProcessType BY <3>1, <3>2, Zenon
    <3> DEFINE new(i) == [Unborn EXCEPT !.alive = i <= warm]
    <3>4. process = [i \in ProcessIds |-> new(i)] /\ \A i \in ProcessIds : new(i) \in ProcessType BY <1>9, <3>3
    <3> HIDE DEF new
    <3> QED BY <3>4
  <2>4. tries \in [Attempts -> TryType] BY <1>2, IdlingType
  <2> QED BY <1>2, <2>1, <2>2, <2>3, <2>4 DEF GuestsTypeOK
<1>15. Busy = {} /\ BusyIds = {} BY <1>12, <1>13 DEF Busy, BusyIds
<1>16. ReplyIds = {} /\ Coming = {} BY <1>2, <1>8 DEF ReplyIds, Answered, Coming
<1>17. IdleIds = 1 .. warm BY <1>5, <1>6, <1>7 DEF IdleIds, IdsOf, idle
<1>18. HeldOnce
  <2>1. Distinct(pool.idle) BY <1>5, <1>6, <1>7 DEF Distinct, idle
  <2>2. AnsweredOnce(broker.replies) BY <1>8 DEF AnsweredOnce
  <2>3. \A a \in Attempts : tries[a].at \in Working <=> tries[a].worker # NoWorker
    BY <1>12, <1>13 DEF Working
  <2> QED BY <1>15, <2>1, <2>2, <2>3 DEF HeldOnce
<1>19. HeldApart BY <1>2, <1>8, <1>15, <1>16 DEF HeldApart
<1>20. HeldKnown BY <1>2, <1>3, <1>7, <1>8, <1>15, <1>16, <1>17 DEF HeldKnown
<1>21. Isolated
  <2>1. \A i \in DOMAIN pool.idle : IdleFits(pool.idle[i], process[pool.idle[i].id])
    <3> SUFFICES ASSUME NEW i \in DOMAIN pool.idle PROVE IdleFits(pool.idle[i], process[pool.idle[i].id]) OBVIOUS
    <3>1. i \in ProcessIds BY <1>3, <1>5, <1>7, <1>9
    <3>2. pool.idle[i].id = i /\ pool.idle[i].served = 0 /\ pool.idle[i].key = NoWorker
      BY <1>5, <1>6, <1>7 DEF idle
    <3> QED BY <1>3, <1>10, <3>1, <3>2 DEF IdleFits
  <2>2. \A id \in ProcessIds : process[id].runs <= RETIRE_AFTER /\ \E x : process[id].seen \subseteq {x}
    BY <1>3, <1>10
  <2> QED BY <1>8, <1>11, <1>12, <1>13, <1>15, <1>16, <2>1, <2>2 DEF Isolated
<1>22. SlotsCovered
  <2>1. SlotsUsed = warm + 0 + 0 + 0 BY <1>2, <1>5, <1>7, <1>15, FS_EmptySet DEF SlotsUsed
  <2> QED BY <1>3, <1>7, <2>1 DEF SlotsCovered
<1>23. \A id \in ProcessIds : process[id].alive => id \in 1 .. warm
  <2>1. ProcessIds = 1 .. MaxStarts[size] BY <1>9
  <2>2. \A id \in ProcessIds : id \in 1 .. warm \/ id > warm BY <1>3, <2>1
  <2> QED BY <1>11, <2>2, UnbornType
<1>24. Listed BY <1>8, <1>23 DEF Listed
<1>25. KillsFind BY <1>17, <1>23 DEF KillsFind, HeldIds, IdleIds, IdsOf
<1>26. Informed BY <1>12, <1>13 DEF Informed, Uninformed
<1>27. BudgetInv BY <1>3, <1>12, <1>13 DEF BudgetInv, Credit, Honest, Working
<1>28. Unstarted BY <1>12, <1>13 DEF Unstarted, Waiters
<1> QED BY <1>14, <1>18, <1>19, <1>20, <1>21, <1>22, <1>24, <1>25, <1>26, <1>27, <1>28 DEF PoolInv, GuestsInv

\* The inductive invariant of the pool, its broker and its workers: who holds
\* which process, what each process has seen, what is owed and what is known.
THEOREM PoolInvariant == GuestsSpec => []PoolInv
<1>1. GuestsInit => PoolInv BY PoolStarts
<1>2. PoolInv /\ [GuestsNext]_guestVars => PoolInv' BY PoolNext
<1> QED BY <1>1, <1>2, PTL DEF GuestsSpec

\* take, park and discard: whatever workers are parked, taken, evicted and lost,
\* no process serves two isolation keys of `isolation`, two single-use requests, or
\* more requests than RETIRE_AFTER.  (An anonymous request that carries nothing has
\* the key of the anonymous pages, a submission too.)
THEOREM WorkersServeOneKey == GuestsSpec => []WorkerIsolated
<1>1. PoolInv => WorkerIsolated
  <2> SUFFICES ASSUME PoolInv, NEW id \in ProcessIds
               PROVE  Cardinality(process[id].seen) <= 1 /\ process[id].runs <= RETIRE_AFTER
    BY DEF WorkerIsolated
  <2>1. PICK x : process[id].seen \subseteq {x} BY DEF PoolInv, GuestsInv, Isolated
  <2>2. IsFiniteSet({x}) /\ Cardinality({x}) = 1 BY FS_Singleton
  <2>3. Cardinality(process[id].seen) <= 1 BY <2>1, <2>2, FS_Subset
  <2> QED BY <2>3 DEF PoolInv, GuestsInv, Isolated
<1> QED BY <1>1, PoolInvariant, PTL

\* add_worker, discard, drop, evict_one, the broker and the storage calls of a
\* guest: slots are covered, budgets are the server's, no wakeup is lost, and
\* every process let go of is killed.
THEOREM PoolStaysSound == GuestsSpec => []PoolSound
<1>1. PoolInv => PoolSound
  <2> SUFFICES ASSUME PoolInv PROVE PoolSound OBVIOUS
  <2> USE DEF PoolInv, GuestsInv
  <2>1. NoLostWakeup BY DEF NoLostWakeup, Informed, Uninformed
  <2>2. BudgetKept
    <3> SUFFICES ASSUME NEW a \in Attempts
                 PROVE  /\ tries[a].stored + tries[a].calls <= HOST_CALLS
                        /\ tries[a].at = "done" /\ tries[a].result = "page" => ~tries[a].failure
                        /\ ~tries[a].over
      BY DEF BudgetKept
    <3>1. Credit(tries[a]) <= HOST_CALLS /\ Honest(tries[a]) BY DEF BudgetInv
    <3>2. tries[a] \in TryType /\ HOST_CALLS \in Nat BY GuestsAssumption DEF GuestsTypeOK
    <3>3. tries[a].stored \in Nat /\ tries[a].calls \in Nat BY <3>2 DEF TryType
    <3> QED BY <3>1, <3>2, <3>3 DEF Credit, Honest
  <2> QED BY <2>1, <2>2 DEF PoolSound
<1> QED BY <1>1, PoolInvariant, PTL
=============================================================================
