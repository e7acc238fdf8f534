-------------------------- MODULE RecurrenceProofs --------------------------
(***************************************************************************)
(* Proofs about recurring schedules, for every set of schedules and        *)
(* services, every page size and every number of records: no occurrence    *)
(* has two jobs, a scan emits nothing younger than itself, a scan that     *)
(* completes has left nothing out, and a schedule that may be taken is     *)
(* always granted.                                                         *)
(*                                                                         *)
(* What ties a poll to the polls before it is the cursor.  While a scan is *)
(* under way its row carries the instant and the creation sequence at      *)
(* which it began, and every record that it owes is either emitted or      *)
(* still ahead of the cursor.                                              *)
(***************************************************************************)
EXTENDS Recurrence, FiniteSetTheorems, WellFoundedInduction, TLAPS

-----------------------------------------------------------------------------
(* The invariant.                                                          *)

\* What makes the occurrence of a job, as occurrence_key made it then.
KeyOf(e) ==
    IF e.schedule \in Repairing
    THEN <<e.schedule, e.gen, e.record, e.expiry>>
    ELSE <<e.schedule, e.gen, e.record, e.start, e.began>>

\* The stored keys are those of the jobs emitted, and of nothing else.
Keyed == occurrences = {KeyOf(e) : e \in emitted}

\* A scan under way keeps the cutoffs it began with, and what it owes its query
\* lists, and it has emitted or has it ahead.
Underway(s) ==
    /\ s \in Selecting
    /\ rows[s].cutoff = scans[s].start
    /\ rows[s].cutoffSeq = scans[s].began
    /\ rows[s].cutoffSeq <= created
    /\ \A i \in scans[s].owed :
        /\ i \in 1 .. rows[s].cutoffSeq
        /\ status[i] = "eligible"
        /\ s \in Repairing => expiry[i] <= rows[s].cutoff
        /\ \/ Emitted(s, i, emitted)
           \/ rows[s].cursor = StartFrontier
           \/ Precedes(s, rows[s].cursor, i)

ScanPlaced(s) == rows[s].cursor # NoCursor => Underway(s)

ScansPlaced == \A s \in Schedules : ScanPlaced(s)

RecurrenceInv ==
    /\ TypeOK
    /\ ActiveGranted
    /\ Keyed
    /\ ScansPlaced
    /\ CutoffKept
    /\ EmittedOnce
    /\ ScanComplete

-----------------------------------------------------------------------------
(* The page.  A selection reads the records behind its cursor in the order *)
(* of the list and stops after cap of them; what it leaves lies behind the *)
(* last one it has read.                                                   *)

\* A nonempty set of naturals has a least element.
LEMMA LeastElement ==
    ASSUME NEW S \in SUBSET Nat, S # {}
    PROVE  \E x \in S : \A y \in S : x <= y
<1>1. PICK x \in S : \A y \in S : <<y, x>> \notin OpToRel(<, Nat)
  BY WFMin, NatLessThanWellFounded, Zenon
<1>2. \A y \in S : ~ (y < x)
  BY <1>1, Zenon DEF OpToRel
<1> QED BY <1>2

\* A nonempty set of naturals with a bound has a greatest element.
LEMMA GreatestElement ==
    ASSUME NEW n \in Nat, NEW S \in SUBSET (0 .. n), S # {}
    PROVE  \E x \in S : \A y \in S : y <= x
<1> DEFINE M == {m \in Nat : n - m \in S}
<1>1. PICK x \in S : TRUE
  OBVIOUS
<1>2. n - x \in M
  BY <1>1
<1>3. PICK m \in M : \A k \in M : m <= k
  BY <1>2, LeastElement
<1>4. \A y \in S : n - y \in M
  OBVIOUS
<1>5. \A y \in S : y <= n - m
  BY <1>3, <1>4
<1> QED BY <1>3, <1>5

\* The order of a list is total, and it has a first and a last element of every
\* nonempty set of records.
LEMMA FirstAndLast ==
    ASSUME NEW s, NEW n \in Nat, NEW S \in SUBSET (0 .. n), S # {}
    PROVE  /\ \E x \in S : \A y \in S : y = x \/ Precedes(s, x, y)
           /\ \E x \in S : \A y \in S : y = x \/ Precedes(s, y, x)
<1>1. PICK a \in S : \A y \in S : a <= y
  BY LeastElement
<1>2. PICK z \in S : \A y \in S : y <= z
  BY GreatestElement
<1>3. \A y \in S : (y = a \/ a < y) /\ (y = z \/ y < z)
  BY <1>1, <1>2
<1>4. CASE s \in Descending
  BY <1>1, <1>2, <1>3, <1>4 DEF Precedes
<1>5. CASE s \notin Descending
  BY <1>1, <1>2, <1>3, <1>5 DEF Precedes
<1> QED BY <1>4, <1>5

\* What the native query returns is finite and within the scan.
LEMMA ListedFinite ==
    ASSUME NEW s, NEW p, p.seq \in Nat
    PROVE  /\ Listed(s, p) \in SUBSET (1 .. p.seq)
           /\ IsFiniteSet(Listed(s, p))
<1>1. Listed(s, p) \in SUBSET (1 .. p.seq)
  BY DEF Listed
<1>2. IsFiniteSet(1 .. p.seq)
  BY FS_Interval
<1> QED BY <1>1, <1>2, FS_Subset

\* The listed records before one of them, by number.
LEMMA BeforeCounted ==
    ASSUME NEW s, NEW p, p.seq \in Nat, NEW i
    PROVE  LET B == {j \in Listed(s, p) : Precedes(s, j, i)}
           IN  /\ IsFiniteSet(B)
               /\ Cardinality(B) \in Nat
               /\ Cardinality(B) <= Cardinality(Listed(s, p))
<1> DEFINE B == {j \in Listed(s, p) : Precedes(s, j, i)}
<1>1. B \in SUBSET Listed(s, p)
  OBVIOUS
<1>2. IsFiniteSet(B) /\ Cardinality(B) <= Cardinality(Listed(s, p))
  <2> HIDE DEF B
  <2> QED BY <1>1, ListedFinite, FS_Subset
<1>3. Cardinality(B) \in Nat
  <2> HIDE DEF B
  <2> QED BY <1>2, FS_CardinalityType
<1> QED BY <1>2, <1>3

\* A stream that ends before its limit has been read whole.
LEMMA ExhaustedWhole ==
    ASSUME NEW s, NEW p, p.seq \in Nat, NEW cap \in Nat, Exhausted(s, p, cap)
    PROVE  PageWindow(s, p, cap) = Listed(s, p)
<1>1. Cardinality(Listed(s, p)) \in Nat
  BY ListedFinite, FS_CardinalityType
<1>2. ASSUME NEW i \in Listed(s, p)
      PROVE  Cardinality({j \in Listed(s, p) : Precedes(s, j, i)}) < cap
  <2> DEFINE n == Cardinality({j \in Listed(s, p) : Precedes(s, j, i)})
  <2>1. n \in Nat /\ n <= Cardinality(Listed(s, p))
    BY BeforeCounted
  <2>2. Cardinality(Listed(s, p)) < cap
    BY DEF Exhausted
  <2> HIDE DEF n
  <2>3. n < cap
    BY <1>1, <2>1, <2>2
  <2> QED BY <2>3 DEF n
<1> QED BY <1>2 DEF PageWindow

\* Otherwise it has read something.
LEMMA WindowRead ==
    ASSUME NEW s, NEW p, p.seq \in Nat, NEW cap \in Nat \ {0},
           ~ Exhausted(s, p, cap)
    PROVE  PageWindow(s, p, cap) # {}
<1> DEFINE C == Listed(s, p)
<1>1. C \in SUBSET (1 .. p.seq) /\ IsFiniteSet(C)
  BY ListedFinite
<1>2. C # {}
  BY FS_EmptySet DEF Exhausted
<1>3. C \in SUBSET (0 .. p.seq)
  BY <1>1
<1>4. PICK x \in C : \A y \in C : y = x \/ Precedes(s, x, y)
  <2> HIDE DEF C
  <2> QED BY <1>2, <1>3, FirstAndLast
<1>5. {j \in C : Precedes(s, j, x)} = {}
  <2>1. \A j \in C : ~ Precedes(s, j, x)
    <3> HIDE DEF C
    <3> QED BY <1>1, <1>4 DEF Precedes
  <2> QED BY <2>1
<1>6. Cardinality({j \in C : Precedes(s, j, x)}) = 0
  BY <1>5, FS_EmptySet
<1>7. Cardinality({j \in C : Precedes(s, j, x)}) < cap
  BY <1>6
<1> QED BY <1>4, <1>7 DEF PageWindow

\* What a page leaves lies behind everything it has read.
LEMMA WindowFirst ==
    ASSUME NEW s, NEW p, p.seq \in Nat, NEW cap \in Nat,
           NEW i \in Listed(s, p) \ PageWindow(s, p, cap),
           NEW k \in PageWindow(s, p, cap)
    PROVE  Precedes(s, k, i)
<1> DEFINE C == Listed(s, p)
           Before(x) == {j \in C : Precedes(s, j, x)}
<1>1. C \in SUBSET (1 .. p.seq) /\ IsFiniteSet(C)
  BY ListedFinite
<1>2. i \in C /\ k \in C
  BY DEF PageWindow
<1>3. Cardinality(Before(k)) < cap /\ ~ (Cardinality(Before(i)) < cap)
  BY DEF PageWindow
<1>4. IsFiniteSet(Before(k)) /\ Cardinality(Before(k)) \in Nat
  BY BeforeCounted
<1>5. Cardinality(Before(i)) \in Nat
  BY BeforeCounted
<1>6. SUFFICES ASSUME Precedes(s, i, k) PROVE FALSE
  <2>1. i # k
    <3> HIDE DEF Before
    <3> QED BY <1>3
  <2> HIDE DEF C
  <2> QED BY <1>1, <1>2, <2>1 DEF Precedes
<1>7. Before(i) \in SUBSET Before(k)
  <2>1. \A j \in C : Precedes(s, j, i) => Precedes(s, j, k)
    <3> HIDE DEF C
    <3> QED BY <1>1, <1>2, <1>6 DEF Precedes
  <2> QED BY <2>1
<1> HIDE DEF Before
<1>8. Cardinality(Before(i)) <= Cardinality(Before(k))
  BY <1>4, <1>7, FS_Subset
<1> QED BY <1>3, <1>4, <1>5, <1>8

\* The cursor that a page leaves: none when the stream has ended, and otherwise a
\* record of the page that everything left of the list lies behind.
LEMMA CursorLeft ==
    ASSUME NEW s, NEW p, p.seq \in Nat, NEW cap \in Nat \ {0}
    PROVE  LET c == NextCursor(s, p, cap)
           IN  \/ c = NoCursor /\ PageWindow(s, p, cap) = Listed(s, p)
               \/ /\ c \in 1 .. p.seq
                  /\ \A i \in Listed(s, p) \ PageWindow(s, p, cap) :
                        Precedes(s, c, i)
<1> DEFINE W == PageWindow(s, p, cap)
<1>1. CASE Exhausted(s, p, cap)
  BY <1>1, ExhaustedWhole DEF NextCursor
<1>2. CASE ~ Exhausted(s, p, cap)
  <2>1. W # {}
    BY <1>2, WindowRead
  <2>2. W \in SUBSET Listed(s, p)
    BY DEF PageWindow
  <2>3. W \in SUBSET (1 .. p.seq)
    <3> HIDE DEF W
    <3> QED BY <2>2, ListedFinite
  <2>4. \E x \in W : \A y \in W : y = x \/ Precedes(s, y, x)
    <3> HIDE DEF W
    <3>1. W \in SUBSET (0 .. p.seq)
      BY <2>3
    <3> QED BY <2>1, <3>1, FirstAndLast
  <2>5. NextCursor(s, p, cap) \in W
    <3>1. NextCursor(s, p, cap) =
            CHOOSE x \in W : \A y \in W : y = x \/ Precedes(s, y, x)
      BY <1>2 DEF NextCursor
    <3> HIDE DEF W
    <3> QED BY <2>4, <3>1
  <2>6. \A i \in Listed(s, p) \ W : Precedes(s, NextCursor(s, p, cap), i)
    BY <2>5, WindowFirst
  <2>7. NextCursor(s, p, cap) \in 1 .. p.seq
    BY <2>3, <2>5
  <2> QED BY <2>6, <2>7
<1> QED BY <1>1, <1>2

-----------------------------------------------------------------------------
(* A poll.                                                                 *)

\* Where a scan stands: a poll goes on with the cutoffs of the scan, and what the
\* scan owes is listed, eligible, and emitted or not yet behind the cursor.
LEMMA ScanStands ==
    ASSUME RecurrenceInv, NEW s \in Schedules
    PROVE  LET p == Position(s)
               r == ScanOf(s)
           IN  /\ p.cutoff = r.start /\ p.seq = r.began
               /\ p.cutoff \in Nat /\ p.seq \in Nat /\ p.seq <= created
               /\ r \in Scan
               /\ s \notin Selecting => p.cursor = NoCursor /\ r.owed = {NoRecord}
               /\ s \in Selecting => \A i \in r.owed :
                     /\ i \in 1 .. p.seq
                     /\ status[i] = "eligible"
                     /\ s \in Repairing => expiry[i] <= p.cutoff
                     /\ Emitted(s, i, emitted) \/ p.cursor <= 0
                           \/ Precedes(s, p.cursor, i)
<1>1. /\ now \in Nat /\ created \in Nat
      /\ rows[s].cutoff \in Nat /\ rows[s].cutoffSeq \in Nat
      /\ scans[s] \in Scan
  BY RecurrenceAssumption DEF RecurrenceInv, TypeOK, Row
<1>2. CASE rows[s].cursor = NoCursor
  <2>1. /\ Position(s) = [cutoff |-> now, seq |-> created, cursor |-> NoCursor]
        /\ ScanOf(s) = [start |-> now, began |-> created, owed |-> Owed(s)]
    BY <1>2 DEF Position, ScanOf
  <2>2. Owed(s) \in SUBSET Nat
    BY <1>1 DEF Owed, NoRecord
  <2>3. ScanOf(s) \in Scan
    BY <1>1, <2>1, <2>2 DEF Scan
  <2>4. NoCursor <= 0
    BY DEF NoCursor
  <2> QED BY <1>1, <2>1, <2>3, <2>4 DEF Owed
<1>3. CASE rows[s].cursor # NoCursor
  <2>1. /\ Position(s) = [cutoff |-> rows[s].cutoff, seq |-> rows[s].cutoffSeq,
                          cursor |-> rows[s].cursor]
        /\ ScanOf(s) = scans[s]
    BY <1>3 DEF Position, ScanOf
  <2>2. Underway(s)
    BY <1>3 DEF RecurrenceInv, ScansPlaced, ScanPlaced
  <2> QED BY <1>1, <2>1, <2>2 DEF Underway, StartFrontier
<1> QED BY <1>2, <1>3

\* An occurrence key is stored exactly if its job has been emitted.
LEMMA KeyFound ==
    ASSUME RecurrenceInv, NEW s \in Schedules, NEW i
    PROVE  OccurrenceKey(s, Position(s), i) \in occurrences
              <=> Emitted(s, i, emitted)
<1> DEFINE key == OccurrenceKey(s, Position(s), i)
<1>1. /\ Position(s).cutoff = ScanOf(s).start
      /\ Position(s).seq = ScanOf(s).began
  BY ScanStands
<1>2. ASSUME NEW e \in emitted
      PROVE  KeyOf(e) = key <=>
                /\ e.schedule = s /\ e.gen = runtime.gen /\ e.record = i
                /\ IF s \in Repairing
                   THEN e.expiry = expiry[i]
                   ELSE e.start = ScanOf(s).start /\ e.began = ScanOf(s).began
  <2>1. KeyOf(e)[1] = e.schedule /\ key[1] = s
    BY DEF KeyOf, OccurrenceKey
  <2>2. CASE e.schedule = s /\ s \in Repairing
    BY <2>2 DEF KeyOf, OccurrenceKey
  <2>3. CASE e.schedule = s /\ s \notin Repairing
    BY <1>1, <2>3 DEF KeyOf, OccurrenceKey
  <2> QED BY <2>1, <2>2, <2>3
<1>3. key \in occurrences <=> \E e \in emitted : KeyOf(e) = key
  <2> HIDE DEF key
  <2> QED BY DEF RecurrenceInv, Keyed
<1> HIDE DEF key
<1>4. Emitted(s, i, emitted) <=> \E e \in emitted : KeyOf(e) = key
  BY <1>2 DEF Emitted
<1> QED BY <1>3, <1>4 DEF key

\* The job that a poll emits is the one its key stands for.
LEMMA EmissionFits ==
    ASSUME RecurrenceInv, NEW s \in Schedules, NEW i \in Nat,
           s \in Selecting => i \in Ids
    PROVE  /\ EmissionOf(s, i) \in Emission
           /\ EmissionOf(s, i).record = i
           /\ EmissionOf(s, i).began = Position(s).seq
           /\ KeyOf(EmissionOf(s, i)) = OccurrenceKey(s, Position(s), i)
           /\ \A jobs : EmissionOf(s, i) \in jobs => Emitted(s, i, jobs)
<1>1. /\ Position(s).cutoff = ScanOf(s).start
      /\ Position(s).seq = ScanOf(s).began
      /\ ScanOf(s).start \in Nat /\ ScanOf(s).began \in Nat
  BY ScanStands
<1>2. runtime.gen \in Nat /\ ExpiryOf(s, i) \in Nat
  BY RecurrenceAssumption DEF RecurrenceInv, TypeOK, ExpiryOf
<1>3. EmissionOf(s, i) \in Emission
  BY <1>1, <1>2 DEF EmissionOf, Emission
<1>4. KeyOf(EmissionOf(s, i)) = OccurrenceKey(s, Position(s), i)
  BY <1>1 DEF KeyOf, EmissionOf, OccurrenceKey, ExpiryOf
<1>5. \A jobs : EmissionOf(s, i) \in jobs => Emitted(s, i, jobs)
  BY DEF EmissionOf, Emitted, ExpiryOf
<1> QED BY <1>1, <1>3, <1>4, <1>5 DEF EmissionOf

\* What may be said of a schedule that a step leaves alone.
LEMMA PlaceKept ==
    ASSUME NEW s \in Schedules, ScanPlaced(s),
           created \in Nat, created' \in Nat, created <= created',
           rows[s].cutoffSeq \in Nat,
           \/ rows'[s].cursor = NoCursor
           \/ /\ rows'[s].cursor = rows[s].cursor
              /\ rows'[s].cutoff = rows[s].cutoff
              /\ rows'[s].cutoffSeq = rows[s].cutoffSeq
              /\ runtime'.gen = runtime.gen
              /\ emitted \subseteq emitted'
              /\ scans'[s].start = scans[s].start
              /\ scans'[s].began = scans[s].began
              /\ scans'[s].owed \subseteq scans[s].owed
              /\ \A i \in scans'[s].owed : i \in 1 .. created =>
                    status'[i] = status[i] /\ expiry'[i] = expiry[i]
    PROVE  ScanPlaced(s)'
<1>1. CASE rows'[s].cursor = NoCursor
  BY <1>1 DEF ScanPlaced
<1>2. CASE /\ rows'[s].cursor # NoCursor
           /\ rows'[s].cursor = rows[s].cursor
           /\ rows'[s].cutoff = rows[s].cutoff
           /\ rows'[s].cutoffSeq = rows[s].cutoffSeq
           /\ runtime'.gen = runtime.gen
           /\ emitted \subseteq emitted'
           /\ scans'[s].start = scans[s].start
           /\ scans'[s].began = scans[s].began
           /\ scans'[s].owed \subseteq scans[s].owed
           /\ \A i \in scans'[s].owed : i \in 1 .. created =>
                 status'[i] = status[i] /\ expiry'[i] = expiry[i]
  <2>1. Underway(s)
    BY <1>2 DEF ScanPlaced
  <2>2. ScanOf(s) = scans[s] /\ ScanOf(s)' = scans'[s]
    BY <1>2 DEF ScanOf
  <2>3. ASSUME NEW i \in scans'[s].owed
        PROVE  /\ i \in 1 .. rows[s].cutoffSeq
               /\ status'[i] = status[i] /\ expiry'[i] = expiry[i]
    <3>1. i \in 1 .. rows[s].cutoffSeq /\ rows[s].cutoffSeq <= created
      BY <1>2, <2>1 DEF Underway
    <3>2. i \in 1 .. created
      BY <3>1
    <3> QED BY <1>2, <3>1, <3>2
  <2>4. ASSUME NEW i \in scans'[s].owed, Emitted(s, i, emitted)
        PROVE  Emitted(s, i, emitted)'
    BY <1>2, <2>2, <2>3, <2>4 DEF Emitted
  <2>5. Underway(s)'
    <3>1. /\ s \in Selecting
          /\ rows'[s].cutoff = scans'[s].start
          /\ rows'[s].cutoffSeq = scans'[s].began
          /\ rows'[s].cutoffSeq <= created'
      BY <1>2, <2>1 DEF Underway
    <3>2. ASSUME NEW i \in scans'[s].owed
          PROVE  /\ i \in 1 .. rows'[s].cutoffSeq
                 /\ status'[i] = "eligible"
                 /\ s \in Repairing => expiry'[i] <= rows'[s].cutoff
                 /\ \/ Emitted(s, i, emitted)'
                    \/ rows'[s].cursor = StartFrontier
                    \/ Precedes(s, rows'[s].cursor, i)
      <4>1. /\ status[i] = "eligible"
            /\ s \in Repairing => expiry[i] <= rows[s].cutoff
            /\ \/ Emitted(s, i, emitted)
               \/ rows[s].cursor = StartFrontier
               \/ Precedes(s, rows[s].cursor, i)
        BY <1>2, <2>1 DEF Underway
      <4> QED BY <1>2, <2>3, <2>4, <4>1
    <3> QED BY <3>1, <3>2 DEF Underway
  <2> QED BY <2>5 DEF ScanPlaced
<1> QED BY <1>1, <1>2

\* A batch that keeps within the scan, and covers what the scan owes as far as its
\* cursor goes, keeps the invariant.
LEMMA BatchKeeps ==
    ASSUME RecurrenceInv, NEW s \in Schedules, Authorized(s),
           NEW items \in SUBSET Nat, NEW cursor \in Int,
           EmitAndFinish(s, Position(s), items, cursor),
           UNCHANGED <<now, authority, records>>,
           \A i \in items : i <= Position(s).seq /\ (s \in Selecting => i \in Ids),
           cursor >= NoCursor, cursor # NoCursor => s \in Selecting,
           \A i \in ScanOf(s).owed :
              \/ i \in items
              \/ Emitted(s, i, emitted)
              \/ cursor # NoCursor
                    /\ (cursor = StartFrontier \/ Precedes(s, cursor, i))
    PROVE  RecurrenceInv'
<1> DEFINE p == Position(s)
           fresh == {i \in items : OccurrenceKey(s, p, i) \notin occurrences}
           new == {EmissionOf(s, i) : i \in fresh}
           row == Finished(s, p, cursor)
           scan == ScanOf(s)
<1>t. TypeOK
  BY DEF RecurrenceInv
<1>u. /\ now' = now /\ runtime' = runtime /\ grants' = grants
      /\ created' = created /\ status' = status /\ expiry' = expiry
      /\ edits' = edits
  BY DEF authority, records
<1>1. /\ p.cutoff = scan.start /\ p.seq = scan.began
      /\ p.cutoff \in Nat /\ p.seq \in Nat /\ p.seq <= created
      /\ scan \in Scan
      /\ s \notin Selecting => p.cursor = NoCursor /\ scan.owed = {NoRecord}
      /\ s \in Selecting => \A i \in scan.owed :
            /\ i \in 1 .. p.seq
            /\ status[i] = "eligible"
            /\ s \in Repairing => expiry[i] <= p.cutoff
  BY ScanStands
<1>2. /\ queue + Cardinality(fresh) <= QueueLimit
      /\ queue' = queue + Cardinality(fresh)
      /\ occurrences' = occurrences \cup {OccurrenceKey(s, p, i) : i \in fresh}
      /\ rows' = [rows EXCEPT ![s] = row]
      /\ emitted' = emitted \cup new
      /\ twice' = twice \cup
              {<<s, i>> : i \in {j \in fresh : Emitted(s, j, emitted)}}
      /\ missed' = IF cursor = NoCursor
           THEN missed \cup {<<s, i>> : i \in
                  {j \in scan.owed : ~ Emitted(s, j, emitted \cup new)}}
           ELSE missed
      /\ scans' = [scans EXCEPT ![s] = scan]
  BY DEF EmitAndFinish
<1>3. \A i \in fresh : ~ Emitted(s, i, emitted)
  <2>1. \A i \in fresh : OccurrenceKey(s, p, i) \notin occurrences
    OBVIOUS
  <2> QED BY <2>1, KeyFound
<1>4. \A i \in fresh :
         /\ i \in Nat /\ i <= p.seq
         /\ s \in Selecting => i \in Ids
  OBVIOUS
<1>5. \A i \in fresh :
         /\ EmissionOf(s, i) \in Emission
         /\ EmissionOf(s, i).record = i
         /\ EmissionOf(s, i).began = p.seq
         /\ KeyOf(EmissionOf(s, i)) = OccurrenceKey(s, p, i)
         /\ \A jobs : EmissionOf(s, i) \in jobs => Emitted(s, i, jobs)
  <2> HIDE DEF fresh
  <2> QED BY <1>4, EmissionFits
<1>6. \A i \in items : i \in fresh \/ Emitted(s, i, emitted)
  BY KeyFound
<1>7. IsFiniteSet(fresh) /\ Cardinality(fresh) \in Nat
  <2>1. fresh \in SUBSET Nat /\ \A i \in fresh : i <= p.seq
    OBVIOUS
  <2> HIDE DEF fresh, p
  <2> QED BY <1>1, <2>1, FS_BoundedSetOfNaturals, FS_CardinalityType
<1>8. /\ \A e \in new : e \in Emission /\ e.record <= e.began
      /\ {KeyOf(e) : e \in new} = {OccurrenceKey(s, p, i) : i \in fresh}
  <2> HIDE DEF fresh, p
  <2> QED BY <1>4, <1>5
<1>9. \A i \in scan.owed :
         \/ Emitted(s, i, emitted \cup new)
         \/ cursor # NoCursor
               /\ (cursor = StartFrontier \/ Precedes(s, cursor, i))
  <2>1. \A i \in scan.owed :
           \/ i \in items
           \/ Emitted(s, i, emitted)
           \/ cursor # NoCursor
                 /\ (cursor = StartFrontier \/ Precedes(s, cursor, i))
    OBVIOUS
  <2>2. \A i : Emitted(s, i, emitted) => Emitted(s, i, emitted \cup new)
    BY DEF Emitted
  <2>3. \A i \in fresh : Emitted(s, i, emitted \cup new)
    BY <1>5
  <2> HIDE DEF fresh, new, scan
  <2> QED BY <1>6, <2>1, <2>2, <2>3
<1>10. /\ row \in Row /\ row.cursor = cursor
       /\ row.state = rows[s].state /\ row.epoch = rows[s].epoch
       /\ row.version = rows[s].version
       /\ cursor = NoCursor => row.cutoff = 0 /\ row.cutoffSeq = 0
       /\ cursor # NoCursor => row.cutoff = p.cutoff /\ row.cutoffSeq = p.seq
  <2>1. rows[s] \in Row /\ now + Interval \in Nat
    BY <1>t, RecurrenceAssumption DEF TypeOK
  <2> HIDE DEF p
  <2> QED BY <1>1, <2>1 DEF Finished, Row
<1> HIDE DEF fresh, new, row, scan, p
<1>11. \A t \in Schedules : rows'[t] = IF t = s THEN row ELSE rows[t]
  BY <1>2, <1>t DEF TypeOK
<1>12. \A t \in Schedules : scans'[t] = IF t = s THEN scan ELSE scans[t]
  BY <1>2, <1>t DEF TypeOK
<1>13. twice' = {} /\ missed' = {}
  <2>1. twice = {} /\ missed = {}
    BY DEF RecurrenceInv, EmittedOnce, ScanComplete
  <2> QED BY <1>2, <1>3, <1>9, <2>1
<1>14. TypeOK'
  <2>1. rows' \in [Schedules -> Row] /\ scans' \in [Schedules -> Scan]
    BY <1>1, <1>2, <1>10, <1>t DEF TypeOK
  <2>2. \A t \in Schedules :
          /\ rows'[t].cursor >= NoCursor
          /\ rows'[t].cursor = NoCursor =>
                rows'[t].cutoff = 0 /\ rows'[t].cutoffSeq = 0
    BY <1>10, <1>11, <1>t DEF TypeOK
  <2>3. queue' \in 0 .. QueueLimit
    BY <1>2, <1>7, <1>t, RecurrenceAssumption DEF TypeOK
  <2>4. emitted' \subseteq Emission
    BY <1>2, <1>8, <1>t DEF TypeOK
  <2>5. {missed', twice'} \subseteq SUBSET (Schedules \X Nat)
    BY <1>13
  <2>6. /\ now' \in 0 .. MaxTime
        /\ runtime' \in [gen : Nat, epoch : Nat, state : {"active", "paused"}]
        /\ grants' \in [Services -> [version : Nat, epoch : Nat,
                                     state : {"active", "revoked"}]]
        /\ created' \in 0 .. MaxSeq
        /\ status' \in [Ids -> Status]
        /\ expiry' \in [Ids -> Nat]
        /\ edits' \in 0 .. MaxEdits
    BY <1>u, <1>t DEF TypeOK
  <2> QED BY <2>1, <2>2, <2>3, <2>4, <2>5, <2>6 DEF TypeOK
<1>15. ActiveGranted'
  <2>1. ASSUME NEW t \in Schedules, rows'[t].state = "active"
        PROVE  Authorized(t)'
    <3>1. Authorized(t)
      BY <1>10, <1>11, <2>1 DEF RecurrenceInv, ActiveGranted
    <3>2. rows'[t].epoch = rows[t].epoch /\ rows'[t].version = rows[t].version
      BY <1>10, <1>11
    <3> QED BY <1>u, <3>1, <3>2 DEF Authorized
  <2> QED BY <2>1 DEF ActiveGranted
<1>16. Keyed'
  <2>1. occurrences = {KeyOf(e) : e \in emitted}
    BY DEF RecurrenceInv, Keyed
  <2>2. occurrences' = occurrences \cup {KeyOf(e) : e \in new}
    BY <1>2, <1>8
  <2>3. {KeyOf(e) : e \in emitted'}
           = {KeyOf(e) : e \in emitted} \cup {KeyOf(e) : e \in new}
    BY <1>2
  <2> QED BY <2>1, <2>2, <2>3 DEF Keyed, KeyOf
<1>17. CutoffKept'
  BY <1>2, <1>8 DEF RecurrenceInv, CutoffKept
<1>18. ScansPlaced'
  <2>1. ScanPlaced(s)'
    <3>1. CASE cursor = NoCursor
      BY <1>10, <1>11, <3>1 DEF ScanPlaced
    <3>2. CASE cursor # NoCursor
      <4>1. ScanOf(s)' = scan
        BY <1>10, <1>11, <1>12, <3>2 DEF ScanOf
      <4>2. \A i : Emitted(s, i, emitted \cup new) => Emitted(s, i, emitted)'
        BY <1>2, <1>u, <4>1 DEF Emitted, scan
      <4>3. Underway(s)'
        <5>1. /\ rows'[s].cutoff = p.cutoff /\ rows'[s].cutoffSeq = p.seq
              /\ rows'[s].cursor = cursor /\ scans'[s] = scan
          BY <1>10, <1>11, <1>12, <3>2
        <5> QED BY <1>1, <1>9, <1>u, <3>2, <4>2, <5>1 DEF Underway
      <4> QED BY <4>3 DEF ScanPlaced
    <3> QED BY <3>1, <3>2
  <2>2. ASSUME NEW t \in Schedules, t # s
        PROVE  ScanPlaced(t)'
    <3>1. rows'[t] = rows[t] /\ scans'[t] = scans[t]
      BY <1>11, <1>12, <2>2
    <3>2. ScanPlaced(t) /\ created \in Nat /\ rows[t].cutoffSeq \in Nat
      BY RecurrenceAssumption
         DEF RecurrenceInv, ScansPlaced, TypeOK, Row
    <3>3. emitted \subseteq emitted'
      BY <1>2
    <3> QED BY <1>u, <3>1, <3>2, <3>3, PlaceKept
  <2> QED BY <2>1, <2>2 DEF ScansPlaced
<1> QED
  BY <1>13, <1>14, <1>15, <1>16, <1>17, <1>18
     DEF RecurrenceInv, EmittedOnce, ScanComplete

\* A target-free schedule owes its one occurrence, and emits it.
LEMMA TargetFreeKeeps ==
    ASSUME RecurrenceInv, NEW s \in Schedules, TargetFree(s)
    PROVE  RecurrenceInv'
<1>1. /\ Authorized(s) /\ s \notin Selecting
      /\ EmitAndFinish(s, Position(s), {NoRecord}, NoCursor)
      /\ UNCHANGED <<now, authority, records>>
  BY DEF TargetFree
<1>2. ScanOf(s).owed = {NoRecord} /\ Position(s).seq \in Nat
  BY <1>1, ScanStands
<1>3. /\ {NoRecord} \in SUBSET Nat
      /\ \A i \in {NoRecord} : i <= Position(s).seq
  BY <1>2 DEF NoRecord
<1>4. NoCursor \in Int /\ NoCursor >= NoCursor
  BY DEF NoCursor
<1> HIDE DEF NoRecord
<1> QED BY <1>1, <1>2, <1>3, <1>4, BatchKeeps

\* A page emits what it owes of the records it has read, and leaves a cursor that
\* what it has not read lies behind.
LEMMA PageKeeps ==
    ASSUME RecurrenceInv, NEW s \in Schedules, NEW cap \in Caps,
           SelectPage(s, cap)
    PROVE  RecurrenceInv'
<1> DEFINE p == Position(s)
           items == Items(s, p, cap)
           cursor == NextCursor(s, p, cap)
<1>1. /\ Authorized(s) /\ s \in Selecting /\ cap > 0
      /\ EmitAndFinish(s, p, items, cursor)
      /\ UNCHANGED <<now, authority, records>>
  BY DEF SelectPage
<1>2. cap \in Nat \ {0}
  BY <1>1, RecurrenceAssumption
<1>3. /\ p.seq \in Nat /\ p.seq <= created
      /\ \A i \in ScanOf(s).owed :
            /\ i \in 1 .. p.seq
            /\ status[i] = "eligible"
            /\ s \in Repairing => expiry[i] <= p.cutoff
            /\ Emitted(s, i, emitted) \/ p.cursor <= 0
                  \/ Precedes(s, p.cursor, i)
  BY <1>1, ScanStands
<1>4. created \in Nat /\ created <= MaxSeq
  BY RecurrenceAssumption DEF RecurrenceInv, TypeOK
<1>5. p.cursor \in Int
  BY DEF RecurrenceInv, TypeOK, Row, Position, NoCursor
<1>6. \A i \in items : i \in 1 .. p.seq
  BY DEF Items, PageWindow, Listed
<1> HIDE DEF p
<1>7. \A i \in items : i \in Nat /\ i <= p.seq /\ i \in Ids
  <2> HIDE DEF items
  <2> QED BY <1>3, <1>4, <1>6, RecurrenceAssumption DEF Ids
<1>8. items \in SUBSET Nat
  <2> HIDE DEF items
  <2> QED BY <1>7
<1>9. \A i \in ScanOf(s).owed :
         \/ Emitted(s, i, emitted)
         \/ i \in items
         \/ i \in Listed(s, p) \ PageWindow(s, p, cap)
  <2>1. ASSUME NEW i \in ScanOf(s).owed, ~ Emitted(s, i, emitted)
        PROVE  i \in Listed(s, p)
    <3>1. /\ i \in 1 .. p.seq /\ status[i] = "eligible"
          /\ p.cursor <= 0 \/ Precedes(s, p.cursor, i)
      BY <1>3, <2>1
    <3> QED BY <1>5, <3>1 DEF Listed
  <2>2. ASSUME NEW i \in ScanOf(s).owed, i \in PageWindow(s, p, cap)
        PROVE  i \in items
    BY <1>3, <2>2 DEF Items
  <2> QED BY <2>1, <2>2
<1>10. \/ cursor = NoCursor /\ PageWindow(s, p, cap) = Listed(s, p)
       \/ /\ cursor \in 1 .. p.seq
          /\ \A i \in Listed(s, p) \ PageWindow(s, p, cap) :
                Precedes(s, cursor, i)
  BY <1>2, <1>3, CursorLeft
<1> HIDE DEF items, cursor
<1>11. cursor \in Int /\ cursor >= NoCursor
  BY <1>3, <1>10 DEF NoCursor
<1>12. \A i \in ScanOf(s).owed :
          \/ i \in items
          \/ Emitted(s, i, emitted)
          \/ cursor # NoCursor
                /\ (cursor = StartFrontier \/ Precedes(s, cursor, i))
  BY <1>3, <1>9, <1>10 DEF NoCursor
<1>13. /\ EmitAndFinish(s, Position(s), items, cursor)
       /\ \A i \in items : i <= Position(s).seq
                              /\ (s \in Selecting => i \in Ids)
  BY <1>1, <1>7 DEF p
<1> QED BY <1>1, <1>8, <1>11, <1>12, <1>13, BatchKeeps

\* A start frontier has everything ahead of it.
LEMMA OpenKeeps ==
    ASSUME RecurrenceInv, NEW s \in Schedules, OpenScan(s)
    PROVE  RecurrenceInv'
<1>1. /\ Authorized(s) /\ s \in Selecting
      /\ EmitAndFinish(s, Position(s), {}, StartFrontier)
      /\ UNCHANGED <<now, authority, records>>
  BY DEF OpenScan
<1>2. StartFrontier \in Int /\ StartFrontier >= NoCursor
      /\ StartFrontier # NoCursor
  BY DEF StartFrontier, NoCursor
<1> QED BY <1>1, <1>2, BatchKeeps

-----------------------------------------------------------------------------
(* The other steps emit nothing.                                           *)

\* What the history says is kept by every step that leaves it alone.
LEMMA HistoryKept ==
    ASSUME RecurrenceInv, UNCHANGED <<occurrences, emitted, missed, twice>>
    PROVE  Keyed' /\ CutoffKept' /\ EmittedOnce' /\ ScanComplete'
BY DEF RecurrenceInv, Keyed, KeyOf, CutoffKept, EmittedOnce, ScanComplete

\* Schedules that keep their epochs and versions keep their authority.
LEMMA AuthorityKept ==
    ASSUME RecurrenceInv, UNCHANGED authority,
           \A s \in Schedules : /\ rows'[s].state = rows[s].state
                                /\ rows'[s].epoch = rows[s].epoch
                                /\ rows'[s].version = rows[s].version
    PROVE  ActiveGranted'
BY DEF RecurrenceInv, ActiveGranted, Authorized, authority

\* Schedules that keep their place, or start over, stay placed.
LEMMA PlacesKept ==
    ASSUME RecurrenceInv, created' = created, UNCHANGED <<emitted, scans>>,
           UNCHANGED <<status, expiry>>,
           \A s \in Schedules :
              \/ rows'[s].cursor = NoCursor
              \/ /\ rows'[s].cursor = rows[s].cursor
                 /\ rows'[s].cutoff = rows[s].cutoff
                 /\ rows'[s].cutoffSeq = rows[s].cutoffSeq
                 /\ runtime'.gen = runtime.gen
    PROVE  ScansPlaced'
<1>1. ASSUME NEW s \in Schedules PROVE ScanPlaced(s)'
  <2>1. ScanPlaced(s) /\ created \in Nat /\ rows[s].cutoffSeq \in Nat
    BY RecurrenceAssumption DEF RecurrenceInv, ScansPlaced, TypeOK, Row
  <2> QED BY <2>1, PlaceKept
<1> QED BY <1>1 DEF ScansPlaced

\* A row that starts over.
LEMMA InstalledRow ==
    ASSUME NEW epoch \in Nat, NEW version \in Nat,
           NEW state \in {"active", "paused"}
    PROVE  LET r == Installed(epoch, version, state)
           IN  /\ r \in Row
               /\ r.cursor = NoCursor /\ r.cutoff = 0 /\ r.cutoffSeq = 0
               /\ r.epoch = epoch /\ r.version = version /\ r.state = state
BY DEF Installed, Row, NoCursor

\* A row that is paused.
LEMMA PausedRow ==
    ASSUME rows \in [Schedules -> Row], NEW s \in Schedules
    PROVE  LET r == PausedRows[s]
           IN  /\ r \in Row
               /\ r.cursor = rows[s].cursor /\ r.cutoff = rows[s].cutoff
               /\ r.cutoffSeq = rows[s].cutoffSeq
               /\ r.state = "paused"
BY DEF PausedRows, Row

\* The types of the rows, and that those without a cursor have no cutoffs.
RowsTyped ==
    /\ rows \in [Schedules -> Row]
    /\ \A s \in Schedules :
          /\ rows[s].cursor >= NoCursor
          /\ rows[s].cursor = NoCursor =>
                rows[s].cutoff = 0 /\ rows[s].cutoffSeq = 0

\* A scan that is put off keeps its cursor.
LEMMA DeferKeeps ==
    ASSUME RecurrenceInv, NEW s \in Schedules, DeferScan(s)
    PROVE  RecurrenceInv'
<1>1. /\ rows' = [rows EXCEPT ![s] = Deferred(s)]
      /\ UNCHANGED <<now, authority, records, occurrences, queue, history>>
  BY DEF DeferScan
<1>2. /\ TypeOK /\ rows[s] \in Row /\ now \in Nat
  BY RecurrenceAssumption DEF RecurrenceInv, TypeOK
<1>3. /\ Deferred(s) \in Row
      /\ Deferred(s).cursor = rows[s].cursor
      /\ Deferred(s).cutoff = rows[s].cutoff
      /\ Deferred(s).cutoffSeq = rows[s].cutoffSeq
      /\ Deferred(s).state = rows[s].state
      /\ Deferred(s).epoch = rows[s].epoch
      /\ Deferred(s).version = rows[s].version
  BY <1>2 DEF Deferred, Row
<1>4. \A t \in Schedules :
         rows'[t] = IF t = s THEN Deferred(s) ELSE rows[t]
  BY <1>1, <1>2 DEF TypeOK
<1>5. RowsTyped'
  <2>1. rows' \in [Schedules -> Row]
    BY <1>1, <1>2, <1>3 DEF TypeOK
  <2> QED BY <1>2, <1>3, <1>4, <2>1 DEF TypeOK, RowsTyped
<1>6. TypeOK'
  BY <1>1, <1>2, <1>5 DEF TypeOK, RowsTyped, authority, records, history
<1>7. ActiveGranted'
  BY <1>1, <1>3, <1>4, AuthorityKept
<1>8. ScansPlaced'
  BY <1>1, <1>3, <1>4, PlacesKept DEF authority, records, history
<1>9. Keyed' /\ CutoffKept' /\ EmittedOnce' /\ ScanComplete'
  BY <1>1, HistoryKept DEF history
<1> QED BY <1>6, <1>7, <1>8, <1>9 DEF RecurrenceInv

\* A job that leaves the queue touches no scan.
LEMMA SettleKeeps == ASSUME RecurrenceInv, Settle PROVE RecurrenceInv'
<1>1. /\ queue > 0 /\ queue' = queue - 1
      /\ UNCHANGED <<now, authority, rows, records, occurrences, history>>
  BY DEF Settle
<1>2. TypeOK'
  <2>1. queue' \in 0 .. QueueLimit
    BY <1>1, RecurrenceAssumption DEF RecurrenceInv, TypeOK
  <2> QED BY <1>1, <2>1
          DEF RecurrenceInv, TypeOK, authority, records, history
<1>3. ActiveGranted'
  BY <1>1, AuthorityKept
<1>4. ScansPlaced'
  BY <1>1, PlacesKept DEF authority, records, history
<1>5. Keyed' /\ CutoffKept' /\ EmittedOnce' /\ ScanComplete'
  BY <1>1, HistoryKept DEF history
<1> QED BY <1>2, <1>3, <1>4, <1>5 DEF RecurrenceInv

\* Time alone touches no scan.
LEMMA AdvanceKeeps == ASSUME RecurrenceInv, Advance PROVE RecurrenceInv'
<1>1. /\ now < MaxTime /\ now' = now + 1
      /\ UNCHANGED <<authority, rows, records, occurrences, queue, history>>
  BY DEF Advance
<1>2. TypeOK'
  <2>1. now' \in 0 .. MaxTime
    BY <1>1, RecurrenceAssumption DEF RecurrenceInv, TypeOK
  <2> QED BY <1>1, <2>1
          DEF RecurrenceInv, TypeOK, authority, records, history
<1>3. ActiveGranted'
  BY <1>1, AuthorityKept
<1>4. ScansPlaced'
  BY <1>1, PlacesKept DEF authority, records, history
<1>5. Keyed' /\ CutoffKept' /\ EmittedOnce' /\ ScanComplete'
  BY <1>1, HistoryKept DEF history
<1> QED BY <1>2, <1>3, <1>4, <1>5 DEF RecurrenceInv

\* A record that is created lies beyond every scan under way.
LEMMA CreateKeeps == ASSUME RecurrenceInv, Create PROVE RecurrenceInv'
<1> USE RecurrenceAssumption
<1>t. TypeOK /\ created \in Nat /\ created \in 0 .. MaxSeq
  BY DEF RecurrenceInv, TypeOK
<1>1. PICK x \in Expiries : expiry' = [expiry EXCEPT ![created + 1] = x]
  BY DEF Create
<1>2. /\ created < MaxSeq /\ created' = created + 1
      /\ status' = [status EXCEPT ![created + 1] = "eligible"]
      /\ UNCHANGED <<now, authority, rows, edits, occurrences, queue, history>>
  BY DEF Create
<1>3. \A i \in 1 .. created : status'[i] = status[i] /\ expiry'[i] = expiry[i]
  <2>1. \A i \in 1 .. created : i \in Ids /\ i # created + 1
    BY <1>t DEF Ids
  <2> QED BY <1>1, <1>2, <1>t, <2>1 DEF TypeOK
<1>4. TypeOK'
  <2>1. created' \in 0 .. MaxSeq
    BY <1>2, <1>t
  <2>2. expiry' \in [Ids -> Nat] /\ status' \in [Ids -> Status]
    BY <1>1, <1>2, <1>t DEF TypeOK, Status
  <2> QED BY <1>2, <1>t, <2>1, <2>2 DEF TypeOK, authority, history
<1>5. ActiveGranted'
  BY <1>2, AuthorityKept
<1>6. ASSUME NEW s \in Schedules PROVE ScanPlaced(s)'
  <2>1. ScanPlaced(s) /\ rows[s].cutoffSeq \in Nat
    BY DEF RecurrenceInv, ScansPlaced, TypeOK, Row
  <2>2. created' \in Nat /\ created <= created'
    BY <1>2, <1>t
  <2>3. rows' = rows /\ runtime' = runtime /\ scans' = scans
          /\ emitted' = emitted
    BY <1>2 DEF authority, history
  <2> QED BY <1>3, <1>t, <2>1, <2>2, <2>3, PlaceKept
<1>7. Keyed' /\ CutoffKept' /\ EmittedOnce' /\ ScanComplete'
  BY <1>2, HistoryKept DEF history
<1> QED BY <1>4, <1>5, <1>6, <1>7 DEF RecurrenceInv, ScansPlaced

\* A record that is edited is owed by no scan under way.
LEMMA EditKeeps ==
    ASSUME RecurrenceInv, NEW i \in Ids, Edit(i)
    PROVE  RecurrenceInv'
<1> USE RecurrenceAssumption
<1>t. TypeOK /\ created \in Nat
  BY DEF RecurrenceInv, TypeOK
<1>1. PICK st \in Status, x \in Expiries :
         /\ status' = [status EXCEPT ![i] = st]
         /\ expiry' = [expiry EXCEPT ![i] = x]
  BY DEF Edit
<1>2. /\ edits < MaxEdits /\ edits' = edits + 1
      /\ scans' = [s \in Schedules |-> [scans[s] EXCEPT !.owed = @ \ {i}]]
      /\ UNCHANGED <<now, authority, rows, created, occurrences, queue,
                     emitted, missed, twice>>
  BY DEF Edit
<1>3. \A j \in 1 .. created : j # i =>
         status'[j] = status[j] /\ expiry'[j] = expiry[j]
  <2>1. \A j \in 1 .. created : j \in Ids
    BY <1>t DEF TypeOK, Ids
  <2> QED BY <1>1, <1>t, <2>1 DEF TypeOK
<1>4. \A s \in Schedules :
         /\ scans'[s] \in Scan
         /\ scans'[s].start = scans[s].start
         /\ scans'[s].began = scans[s].began
         /\ scans'[s].owed = scans[s].owed \ {i}
  <2> TAKE s \in Schedules
  <2> DEFINE left == scans[s].owed \ {i}
  <2>1. scans[s] \in Scan
    BY <1>t DEF TypeOK
  <2>2. left \in SUBSET Nat
    BY <2>1 DEF Scan
  <2>3. scans'[s] = [scans[s] EXCEPT !.owed = left]
    BY <1>2
  <2>4. /\ scans'[s] \in Scan
        /\ scans'[s].start = scans[s].start
        /\ scans'[s].began = scans[s].began
        /\ scans'[s].owed = left
    <3> HIDE DEF left
    <3> QED BY <2>1, <2>2, <2>3 DEF Scan
  <2> QED BY <2>4
<1>5. TypeOK'
  <2>1. edits' \in 0 .. MaxEdits
    BY <1>2, <1>t DEF TypeOK
  <2>2. expiry' \in [Ids -> Nat] /\ status' \in [Ids -> Status]
    BY <1>1, <1>t DEF TypeOK
  <2>3. scans' \in [Schedules -> Scan]
    BY <1>2, <1>4
  <2> QED BY <1>2, <1>t, <2>1, <2>2, <2>3 DEF TypeOK, authority
<1>6. ActiveGranted'
  BY <1>2, AuthorityKept
<1>7. ASSUME NEW s \in Schedules PROVE ScanPlaced(s)'
  <2>1. ScanPlaced(s) /\ rows[s].cutoffSeq \in Nat
    BY DEF RecurrenceInv, ScansPlaced, TypeOK, Row
  <2>2. created' \in Nat /\ created <= created'
    BY <1>2, <1>t
  <2>3. rows' = rows /\ runtime' = runtime /\ emitted' = emitted
    BY <1>2 DEF authority
  <2>4. \A j \in scans'[s].owed : j \in 1 .. created =>
           status'[j] = status[j] /\ expiry'[j] = expiry[j]
    BY <1>3, <1>4
  <2> QED BY <1>4, <1>t, <2>1, <2>2, <2>3, <2>4, PlaceKept
<1>8. Keyed' /\ CutoffKept' /\ EmittedOnce' /\ ScanComplete'
  BY <1>2, HistoryKept
<1> QED BY <1>5, <1>6, <1>7, <1>8 DEF RecurrenceInv, ScansPlaced

-----------------------------------------------------------------------------
(* Operators and startup.  Whatever withdraws authority pauses the         *)
(* schedules in the same transaction, and whatever resumes a schedule      *)
(* writes it the authority it will be asked for.                           *)

\* Revoking a worker's grant pauses every schedule of the tenant.
LEMMA RevokeKeeps ==
    ASSUME RecurrenceInv, NEW w \in Services, Revoke(w)
    PROVE  RecurrenceInv'
<1>t. TypeOK /\ rows \in [Schedules -> Row]
  BY DEF RecurrenceInv, TypeOK
<1>1. /\ grants' = [grants EXCEPT ![w].state = "revoked"]
      /\ rows' = PausedRows
      /\ UNCHANGED <<now, runtime, records, occurrences, queue, history>>
  BY DEF Revoke
<1>2. \A s \in Schedules :
         /\ rows'[s] \in Row
         /\ rows'[s].cursor = rows[s].cursor /\ rows'[s].cutoff = rows[s].cutoff
         /\ rows'[s].cutoffSeq = rows[s].cutoffSeq
         /\ rows'[s].state = "paused"
  BY <1>1, <1>t, PausedRow
<1>3. RowsTyped'
  <2>1. rows' \in [Schedules -> Row]
    BY <1>1, <1>2 DEF PausedRows
  <2> QED BY <1>2, <1>t, <2>1 DEF RowsTyped, TypeOK
<1>4. TypeOK'
  <2>1. grants' \in [Services -> [version : Nat, epoch : Nat,
                                  state : {"active", "revoked"}]]
    BY <1>1, <1>t DEF TypeOK
  <2> QED BY <1>1, <1>3, <1>t, <2>1 DEF TypeOK, RowsTyped, records, history
<1>5. ActiveGranted'
  BY <1>2 DEF ActiveGranted
<1>6. ScansPlaced'
  BY <1>1, <1>2, PlacesKept DEF records, history
<1>7. Keyed' /\ CutoffKept' /\ EmittedOnce' /\ ScanComplete'
  BY <1>1, HistoryKept DEF history
<1> QED BY <1>4, <1>5, <1>6, <1>7 DEF RecurrenceInv

\* A grant resumes the schedules of its worker with the version that it writes;
\* those of the other workers are active only if the runtime was.
LEMMA GrantKeeps ==
    ASSUME RecurrenceInv, NEW w \in Services, GrantService(w)
    PROVE  RecurrenceInv'
<1> DEFINE version == grants[w].version + 1
           g == [version |-> version, epoch |-> runtime.epoch,
                 state |-> "active"]
           r == Installed(runtime.epoch, version, "active")
<1>t. TypeOK
  BY DEF RecurrenceInv
<1>1. /\ grants' = [grants EXCEPT ![w] = g]
      /\ rows' = [s \in Schedules |-> IF ServiceOf[s] = w THEN r ELSE rows[s]]
      /\ runtime' = [runtime EXCEPT !.state = "active"]
      /\ UNCHANGED <<now, records, occurrences, queue, history>>
  BY DEF GrantService
<1>2. version \in Nat /\ runtime.epoch \in Nat
  BY <1>t DEF TypeOK
<1>3. /\ r \in Row
      /\ r.cursor = NoCursor /\ r.cutoff = 0 /\ r.cutoffSeq = 0
      /\ r.epoch = runtime.epoch /\ r.version = version
  <2> HIDE DEF version
  <2> QED BY <1>2, InstalledRow
<1>4. /\ runtime'.gen = runtime.gen /\ runtime'.epoch = runtime.epoch
      /\ runtime'.state = "active"
      /\ runtime' \in [gen : Nat, epoch : Nat, state : {"active", "paused"}]
  BY <1>1, <1>t DEF TypeOK
<1>5. /\ g \in [version : Nat, epoch : Nat, state : {"active", "revoked"}]
      /\ g.state = "active" /\ g.epoch = runtime.epoch /\ g.version = version
  <2> HIDE DEF version
  <2> QED BY <1>2
<1> HIDE DEF r, g, version
<1>6. \A s \in Schedules :
         rows'[s] = IF ServiceOf[s] = w THEN r ELSE rows[s]
  BY <1>1
<1>7. \A v \in Services : grants'[v] = IF v = w THEN g ELSE grants[v]
  BY <1>1, <1>t DEF TypeOK
<1>8. RowsTyped'
  <2>1. rows' \in [Schedules -> Row]
    BY <1>1, <1>3, <1>t DEF TypeOK
  <2> QED BY <1>3, <1>6, <1>t, <2>1 DEF RowsTyped, TypeOK, NoCursor
<1>9. TypeOK'
  <2>1. grants' \in [Services -> [version : Nat, epoch : Nat,
                                  state : {"active", "revoked"}]]
    BY <1>1, <1>5, <1>t DEF TypeOK
  <2> QED BY <1>1, <1>4, <1>8, <1>t, <2>1
          DEF TypeOK, RowsTyped, records, history
<1>10. ActiveGranted'
  <2>1. ASSUME NEW s \in Schedules, rows'[s].state = "active"
        PROVE  Authorized(s)'
    <3>1. ServiceOf[s] \in Services
      BY RecurrenceAssumption
    <3>2. CASE ServiceOf[s] = w
      <4>1. rows'[s] = r /\ grants'[ServiceOf[s]] = g
        BY <1>6, <1>7, <3>1, <3>2
      <4> QED BY <1>3, <1>4, <1>5, <4>1 DEF Authorized
    <3>3. CASE ServiceOf[s] # w
      <4>1. rows'[s] = rows[s] /\ grants'[ServiceOf[s]] = grants[ServiceOf[s]]
        BY <1>6, <1>7, <3>1, <3>3
      <4>2. Authorized(s)
        BY <2>1, <4>1 DEF RecurrenceInv, ActiveGranted
      <4> QED BY <1>4, <4>1, <4>2 DEF Authorized
    <3> QED BY <3>2, <3>3
  <2> QED BY <2>1 DEF ActiveGranted
<1>11. ScansPlaced'
  BY <1>1, <1>3, <1>4, <1>6, PlacesKept DEF records, history
<1>12. Keyed' /\ CutoffKept' /\ EmittedOnce' /\ ScanComplete'
  BY <1>1, HistoryKept DEF history
<1> QED BY <1>9, <1>10, <1>11, <1>12 DEF RecurrenceInv

\* A fork of the runtime pauses everything.
LEMMA ForkKeeps == ASSUME RecurrenceInv, Fork PROVE RecurrenceInv'
<1> DEFINE epoch == runtime.epoch + 1
<1>t. TypeOK /\ rows \in [Schedules -> Row]
  BY DEF RecurrenceInv, TypeOK
<1>1. /\ runtime' = [runtime EXCEPT !.epoch = epoch, !.state = "paused"]
      /\ grants' = [w \in Services |-> [grants[w] EXCEPT !.state = "revoked"]]
      /\ rows' = PausedRows
      /\ UNCHANGED <<now, records, occurrences, queue, history>>
  BY DEF Fork
<1>2. \A s \in Schedules :
         /\ rows'[s] \in Row
         /\ rows'[s].cursor = rows[s].cursor /\ rows'[s].cutoff = rows[s].cutoff
         /\ rows'[s].cutoffSeq = rows[s].cutoffSeq
         /\ rows'[s].state = "paused"
  BY <1>1, <1>t, PausedRow
<1>3. RowsTyped'
  <2>1. rows' \in [Schedules -> Row]
    BY <1>1, <1>2 DEF PausedRows
  <2> QED BY <1>2, <1>t, <2>1 DEF RowsTyped, TypeOK
<1>4. runtime' \in [gen : Nat, epoch : Nat, state : {"active", "paused"}]
      /\ runtime'.gen = runtime.gen
  <2>1. epoch \in Nat
    BY <1>t DEF TypeOK
  <2> HIDE DEF epoch
  <2> QED BY <1>1, <1>t, <2>1 DEF TypeOK
<1>5. TypeOK'
  <2>1. grants' \in [Services -> [version : Nat, epoch : Nat,
                                  state : {"active", "revoked"}]]
    BY <1>1, <1>t DEF TypeOK
  <2> QED BY <1>1, <1>3, <1>4, <1>t, <2>1
          DEF TypeOK, RowsTyped, records, history
<1>6. ActiveGranted'
  BY <1>2 DEF ActiveGranted
<1>7. ScansPlaced'
  BY <1>1, <1>2, <1>4, PlacesKept DEF records, history
<1>8. Keyed' /\ CutoffKept' /\ EmittedOnce' /\ ScanComplete'
  BY <1>1, HistoryKept DEF history
<1> QED BY <1>5, <1>6, <1>7, <1>8 DEF RecurrenceInv

\* A generation that is bound starts every scan over, under the grants it writes.
LEMMA ActivateKeeps == ASSUME RecurrenceInv, Activate PROVE RecurrenceInv'
<1> DEFINE kept == runtime.state = "paused"
           epoch == runtime.epoch + 1
           g == [version |-> 1, epoch |-> epoch,
                 state |-> IF kept THEN "revoked" ELSE "active"]
           r == Installed(epoch, 1, IF kept THEN "paused" ELSE "active")
<1>t. TypeOK /\ runtime.state \in {"active", "paused"}
  BY DEF RecurrenceInv, TypeOK
<1>1. /\ runtime' = [runtime EXCEPT !.gen = runtime.gen + 1, !.epoch = epoch]
      /\ grants' = [w \in Services |-> g]
      /\ rows' = [s \in Schedules |-> r]
      /\ UNCHANGED <<now, records, occurrences, queue, history>>
  BY DEF Activate
<1>2. epoch \in Nat /\ runtime.gen + 1 \in Nat
  BY <1>t DEF TypeOK
<1>3. /\ r \in Row
      /\ r.cursor = NoCursor /\ r.cutoff = 0 /\ r.cutoffSeq = 0
      /\ r.epoch = epoch /\ r.version = 1
      /\ r.state = IF kept THEN "paused" ELSE "active"
  <2>1. (IF kept THEN "paused" ELSE "active") \in {"active", "paused"}
    OBVIOUS
  <2> HIDE DEF epoch, kept
  <2> QED BY <1>2, <2>1, InstalledRow
<1>4. /\ g \in [version : Nat, epoch : Nat, state : {"active", "revoked"}]
      /\ g.epoch = epoch /\ g.version = 1
      /\ g.state = IF kept THEN "revoked" ELSE "active"
  <2> HIDE DEF epoch, kept
  <2> QED BY <1>2
<1>5. /\ runtime' \in [gen : Nat, epoch : Nat, state : {"active", "paused"}]
      /\ runtime'.epoch = epoch /\ runtime'.state = runtime.state
  <2> HIDE DEF epoch
  <2> QED BY <1>1, <1>2, <1>t DEF TypeOK
<1> HIDE DEF r, g, epoch
<1>6. RowsTyped'
  BY <1>1, <1>3 DEF RowsTyped, NoCursor
<1>7. TypeOK'
  <2>1. grants' \in [Services -> [version : Nat, epoch : Nat,
                                  state : {"active", "revoked"}]]
    BY <1>1, <1>4
  <2> QED BY <1>1, <1>5, <1>6, <1>t, <2>1
          DEF TypeOK, RowsTyped, records, history
<1>8. ActiveGranted'
  <2>1. ASSUME NEW s \in Schedules, rows'[s].state = "active"
        PROVE  Authorized(s)'
    <3>1. ServiceOf[s] \in Services
      BY RecurrenceAssumption
    <3>2. rows'[s] = r /\ grants'[ServiceOf[s]] = g
      BY <1>1, <3>1
    <3>3. runtime.state = "active" /\ g.state = "active"
      BY <1>3, <1>4, <1>t, <2>1, <3>2
    <3> QED BY <1>3, <1>4, <1>5, <3>2, <3>3 DEF Authorized
  <2> QED BY <2>1 DEF ActiveGranted
<1>9. ScansPlaced'
  BY <1>1, <1>3, PlacesKept DEF records, history
<1>10. Keyed' /\ CutoffKept' /\ EmittedOnce' /\ ScanComplete'
  BY <1>1, HistoryKept DEF history
<1> QED BY <1>7, <1>8, <1>9, <1>10 DEF RecurrenceInv

-----------------------------------------------------------------------------
(* The invariant is inductive.                                             *)

\* Initially no scan is under way.
LEMMA InitRecurrence == ASSUME Init PROVE RecurrenceInv
<1>1. \A s \in Schedules :
         /\ rows[s] \in Row
         /\ rows[s].cursor = NoCursor /\ rows[s].cutoff = 0
         /\ rows[s].cutoffSeq = 0
         /\ rows[s].epoch = 1 /\ rows[s].version = 1
  BY InstalledRow DEF Init
<1>2. TypeOK
  <2>1. rows \in [Schedules -> Row]
    <3>1. rows = [s \in Schedules |-> Installed(1, 1, "active")]
      BY DEF Init
    <3>2. Installed(1, 1, "active") \in Row
      BY InstalledRow
    <3> QED BY <3>1, <3>2
  <2>2. /\ status \in [Ids -> Status]
        /\ expiry \in [Ids -> Nat]
        /\ scans \in [Schedules -> Scan]
    BY DEF Init, Status, Scan
  <2>3. /\ runtime \in [gen : Nat, epoch : Nat, state : {"active", "paused"}]
        /\ grants \in [Services -> [version : Nat, epoch : Nat,
                                    state : {"active", "revoked"}]]
    BY DEF Init
  <2>4. /\ now \in 0 .. MaxTime /\ created \in 0 .. MaxSeq
        /\ edits \in 0 .. MaxEdits /\ queue \in 0 .. QueueLimit
    BY RecurrenceAssumption DEF Init
  <2>5. emitted = {} /\ missed = {} /\ twice = {}
    BY DEF Init
  <2> QED BY <1>1, <2>1, <2>2, <2>3, <2>4, <2>5 DEF TypeOK, NoCursor
<1>3. ActiveGranted
  <2>1. \A s \in Schedules : ServiceOf[s] \in Services
    BY RecurrenceAssumption
  <2> QED BY <1>1, <2>1 DEF ActiveGranted, Authorized, Init
<1>4. ScansPlaced
  BY <1>1 DEF ScansPlaced, ScanPlaced
<1> QED BY <1>2, <1>3, <1>4
        DEF RecurrenceInv, Init, Keyed, CutoffKept, EmittedOnce, ScanComplete

\* Every step keeps the invariant.
LEMMA StepRecurrence == ASSUME RecurrenceInv, [Next]_vars PROVE RecurrenceInv'
<1>1. CASE Poll
  <2>1. PICK s \in Schedules :
          \/ TargetFree(s)
          \/ \E cap \in Caps : SelectPage(s, cap)
          \/ OpenScan(s)
          \/ DeferScan(s)
    BY <1>1 DEF Poll
  <2> QED BY <2>1, TargetFreeKeeps, PageKeeps, OpenKeeps, DeferKeeps
<1>2. CASE Settle
  BY <1>2, SettleKeeps
<1>3. CASE Create
  BY <1>3, CreateKeeps
<1>4. CASE \E i \in Ids : Edit(i)
  BY <1>4, EditKeeps
<1>5. CASE Advance
  BY <1>5, AdvanceKeeps
<1>6. CASE \E w \in Services : Revoke(w) \/ GrantService(w)
  BY <1>6, RevokeKeeps, GrantKeeps
<1>7. CASE Fork
  BY <1>7, ForkKeeps
<1>8. CASE Activate
  BY <1>8, ActivateKeeps
<1>9. CASE UNCHANGED vars
  <2> USE <1>9 DEF vars
  <2>1. TypeOK'
    BY DEF RecurrenceInv, TypeOK
  <2>2. ActiveGranted'
    BY AuthorityKept DEF authority
  <2>3. ScansPlaced'
    BY PlacesKept
  <2>4. Keyed' /\ CutoffKept' /\ EmittedOnce' /\ ScanComplete'
    BY HistoryKept
  <2> QED BY <2>1, <2>2, <2>3, <2>4 DEF RecurrenceInv
<1> QED BY <1>1, <1>2, <1>3, <1>4, <1>5, <1>6, <1>7, <1>8, <1>9 DEF Next

\* The invariant holds in every reachable state.
LEMMA RecurrenceInvariant == Spec => []RecurrenceInv
BY InitRecurrence, StepRecurrence, PTL DEF Spec

-----------------------------------------------------------------------------
(* What is proved.                                                         *)

\* No occurrence gets two jobs (occurrence_key, INSERT OR IGNORE of
\* emit_recurrence): a record that one scan has emitted is not emitted again by the
\* same scan, nor by a scan that an operator or a startup made begin again, nor, for
\* an expiry repair, by any later scan while the field is unchanged.
THEOREM NoOccurrenceTwice == Spec => []EmittedOnce
<1>1. RecurrenceInv => EmittedOnce
  BY DEF RecurrenceInv
<1> QED BY <1>1, RecurrenceInvariant, PTL

\* A scan works under current authority, emits nothing created after it began, and
\* when it ends has emitted every record that was eligible when it began and was not
\* changed since, however its pages, creations, edits, restarts and grants
\* interleave (begin_recurrence, select_recurring, finish_recurrence).
THEOREM ScansAreSound == Spec => []ScanSound
<1>1. RecurrenceInv => ScanSound
  BY DEF RecurrenceInv, ScanSound
<1> QED BY <1>1, RecurrenceInvariant, PTL
=============================================================================
