---------------------------- MODULE BlobsProofs ----------------------------
(***************************************************************************)
(* Proofs about Blobs: what the database says of the store directory       *)
(* survives a power loss, a native worker has its object to itself, and    *)
(* the counters of the quotas are what the rows owe.                       *)
(*                                                                         *)
(* The argument is about one slot at a time.  A worker that runs is known  *)
(* by an unstopped witness of the row's generation, so a stopped witness   *)
(* of that generation proves that nobody writes the object any more; a row *)
(* changes hands only on such a proof, or because its process is gone and  *)
(* its workers with it.  Every system call of a worker then starts from    *)
(* what the call before it left on the disk (Progress), and a worker that  *)
(* ends without failing has made its last one.                             *)
(*                                                                         *)
(* The counters are sums over the rows, and a row is moved with a charge   *)
(* that is the difference of what it owes before and after (Moves).        *)
(***************************************************************************)
EXTENDS Blobs, FiniteSetTheorems, TLAPS

-----------------------------------------------------------------------------
(* The inductive invariant. *)

Rows == [state : States, gen : Nat, process : Nat, reserved : {0, Limit},
         bytes : {0} \cup Sizes]
JobSteps == {"begin", "sync", "rename", "syncObjects", "syncPartial", "unlinkPartial",
             "unlinkFinal", "syncFinal", "done"}
JobRecords == [key : Slots, kind : {"upload", "remove"}, gen : Nat, step : JobSteps,
               cancelled : {"no", "late", "yes"}]
Items == [slot : Slots, row : Rows, late : BOOLEAN]
Places == {"idle", "batch", "row", "claim", "dispatch", "remove", "ended"}
Pages == [pc : Places, batch : SUBSET Keys, complete : BOOLEAN, queue : Seq(Items),
          kind : Claims \cup {"none"}, deleted : Nat]

TypeInv ==
    /\ TypeOK
    /\ process \in Nat
    /\ jobs \subseteq JobRecords
    /\ rec \in Pages

On(s) == {j \in jobs : j.key = s}

\* The generation tells how often a row has moved.
RowSound(s) ==
    /\ rows[s].process <= process
    /\ rows[s].state = "none" => rows[s] = NoRow
    /\ rows[s].state = "uploading" =>
          rows[s].gen = 1 /\ rows[s].reserved = Limit /\ rows[s].bytes = 0
    /\ rows[s].state \notin {"none", "uploading"} => rows[s].gen >= 2

Whole(s) == disk[s] = {"final"} /\ may[s] = {{"final"}}
Gone(s) == disk[s] = {} /\ may[s] = {{}}

\* What the row alone says of the disk.
DiskSound(s) ==
    /\ disk[s] \in may[s]
    /\ rows[s].state \in {"staged", "attached", "unreferenced"} => Whole(s)
    /\ rows[s].state \in {"none", "deleted"} => Gone(s)

\* A request that holds a reservation has not started its worker.
RequestSound(s) ==
    /\ requests[s] # "idle" => rows[s].state # "none"
    /\ requests[s] = "prepared" =>
          /\ rows[s].state = "uploading" /\ rows[s].process = process
          /\ workers[s].gen = 1 /\ ~workers[s].stopped
          /\ On(s) = {} /\ Gone(s)

\* What the calls of a worker have left on the disk, before the one it is at.
Progress(j) ==
    LET d == disk[j.key]
        m == may[j.key]
    IN /\ j.kind = "upload" =>
          /\ j.step \in {"begin", "sync", "rename", "syncObjects", "syncPartial", "done"}
          /\ j.step = "begin" => d = {} /\ m \subseteq {{}}
          /\ j.step = "sync" => d = {"partial"} /\ m \subseteq {{}, {"partial"}}
          /\ j.step = "rename" => d = {"sealed"} /\ m \subseteq {{}, {"sealed"}}
          /\ j.step = "syncObjects" =>
                d = {"final"} /\ m \subseteq {{}, {"sealed"}, {"final"}, {"sealed", "final"}}
          /\ j.step = "syncPartial" =>
                d = {"final"} /\ m \subseteq {{"final"}, {"sealed", "final"}}
          /\ j.step = "done" => d = {"final"} /\ m \subseteq {{"final"}}
       /\ j.kind = "remove" =>
          /\ j.step \in {"unlinkPartial", "syncPartial", "unlinkFinal", "syncFinal", "done"}
          /\ j.step = "syncPartial" => d \cap Temporary = {}
          /\ j.step = "unlinkFinal" => \A x \in m : x \cap Temporary = {}
          /\ j.step = "syncFinal" => d = {} /\ \A x \in m : x \cap Temporary = {}
          /\ j.step = "done" => d = {} /\ m \subseteq {{}}

\* A running worker belongs to the row's generation and is known not to have stopped.
JobSound(s, j) ==
    /\ rows[s].gen = j.gen /\ rows[s].process = process
    /\ rows[s].state = IF j.kind = "upload" THEN "uploading" ELSE "deleting"
    /\ workers[s].gen = j.gen /\ ~workers[s].stopped
    /\ undispatched[s].gen # j.gen
    /\ Progress(j)

\* A witness of the row's generation that stopped without failing did all its calls.
WitnessSound(s) ==
    /\ undispatched[s].gen # 1
    /\ undispatched[s].stopped => undispatched[s].failed
    /\ workers[s].gen <= rows[s].gen
    /\ workers[s].gen = rows[s].gen /\ workers[s].stopped /\ ~workers[s].failed =>
          /\ rows[s].state = "uploading" => Whole(s)
          /\ rows[s].state = "deleting" => Gone(s)

SlotSound(s) ==
    /\ RowSound(s) /\ DiskSound(s) /\ RequestSound(s) /\ WitnessSound(s)
    /\ \A j \in On(s) : JobSound(s, j)
    /\ \A i, j \in On(s) : i = j

\* A row that the page read has not changed unless its generation has.
ItemSound(item) ==
    LET r == rows[item.slot]
    IN /\ item.row.state # "none"
       /\ item.row.gen <= r.gen
       /\ item.row.gen = r.gen \/ item.row.state = "deleted" => r = item.row

\* Nobody writes the object, or will before the row is claimed.
Claimable(s) ==
    /\ rows[s].state \in {"uploading", "staged", "unreferenced", "deleting"}
    /\ On(s) = {} /\ requests[s] # "prepared"

\* The row in hand.
InHand(item) ==
    LET s == item.slot
    IN /\ rec.pc = "claim" /\ rows[s].gen = item.row.gen => Claimable(s)
       /\ rec.pc \in {"dispatch", "remove"} =>
             rows[s].state = "deleting" /\ rows[s].gen = item.row.gen + 1
       /\ rec.pc = "dispatch" => rows[s].process = process /\ On(s) = {}
       /\ rec.pc = "remove" => workers[s].gen = item.row.gen + 1

PageSound ==
    /\ \A item \in Range(rec.queue) : ItemSound(item)
    /\ rec.pc \in {"row", "claim", "dispatch", "remove"} => rec.queue # <<>>
    /\ \A item \in Range(rec.queue) : item = Item => InHand(item)

PairSound ==
    /\ PairedMarkerDurable
    /\ phase = "acknowledge" => marker = "durable"

BlobsInv == TypeInv /\ PairSound /\ PageSound /\ \A s \in Slots : SlotSound(s)

-----------------------------------------------------------------------------
(* Types. *)

\* A row that a transaction stores can be read back.
RowOK(r) == r \in Rows /\ (r = NoRow \/ Parsed(r))

LEMMA StoredRows ==
    ASSUME TypeInv
    PROVE  \A s \in Slots : RowOK(rows[s])
BY DEF TypeInv, TypeOK, RowOK, Rows

\* The rows stay typed when one of them is replaced by a row that can be read.
LEMMA RowStored ==
    ASSUME TypeInv, NEW s \in Slots, NEW r, RowOK(r), rows' = [rows EXCEPT ![s] = r]
    PROVE  /\ rows' \in [Slots -> Rows]
           /\ \A t \in Slots : rows'[t] = IF t = s THEN r ELSE rows[t]
           /\ \A t \in Slots : rows'[t] = NoRow \/ Parsed(rows'[t])
<1>1. rows \in [Slots -> Rows] BY DEF TypeInv, TypeOK, Rows
<1>2. \A t \in Slots : rows'[t] = IF t = s THEN r ELSE rows[t] BY <1>1
<1>3. rows' \in [Slots -> Rows] BY <1>1 DEF RowOK
<1>4. \A t \in Slots : rows'[t] = NoRow \/ Parsed(rows'[t])
  BY <1>2, StoredRows DEF RowOK
<1> QED BY <1>2, <1>3, <1>4

\* The moves of a row are rows, each a generation further.
LEMMA MovedRow ==
    ASSUME NEW r \in Rows, NEW state \in States
    PROVE  /\ Moved(r, state) \in Rows
           /\ Moved(r, state).state = state
           /\ Moved(r, state).gen = r.gen + 1
           /\ Moved(r, state).process = r.process
           /\ Moved(r, state).reserved = r.reserved
           /\ Moved(r, state).bytes = r.bytes
<1>1. Moved(r, state) = [r EXCEPT !.state = state, !.gen = r.gen + 1] BY DEF Moved, Rows
<1>2. r.gen + 1 \in Nat BY DEF Rows
<1> QED BY <1>1, <1>2 DEF Rows

LEMMA ReservedRow ==
    ASSUME process \in Nat
    PROVE  RowOK(Reserved) /\ Reserved # NoRow
<1>1. Reserved \in Rows BY DEF Reserved, Rows, States
<1>2. Parsed(Reserved) BY BlobAssumption DEF Reserved, Parsed
<1> QED BY <1>1, <1>2 DEF RowOK, Reserved, NoRow

LEMMA StagedRowOK ==
    ASSUME NEW r \in Rows, NEW size \in Sizes
    PROVE  /\ RowOK(StagedRow(r, size))
           /\ StagedRow(r, size).state = "staged"
           /\ StagedRow(r, size).gen = r.gen + 1
           /\ StagedRow(r, size).process = r.process
<1> DEFINE t == Moved(r, "staged")
<1>1. t \in Rows /\ t.state = "staged" /\ t.gen = r.gen + 1 /\ t.process = r.process
  BY MovedRow DEF States
<1>2. StagedRow(r, size) = [t EXCEPT !.reserved = 0, !.bytes = size] BY DEF StagedRow
<1> HIDE DEF t
<1>3. /\ StagedRow(r, size) \in Rows /\ StagedRow(r, size).state = "staged"
      /\ StagedRow(r, size).gen = r.gen + 1 /\ StagedRow(r, size).process = r.process
      /\ StagedRow(r, size).reserved = 0 /\ StagedRow(r, size).bytes = size
  BY <1>1, <1>2 DEF Rows
<1>4. Parsed(StagedRow(r, size)) BY <1>3, BlobAssumption DEF Parsed
<1> QED BY <1>3, <1>4 DEF RowOK

LEMMA AttachedRowOK ==
    ASSUME NEW r, RowOK(r), r.state = "staged"
    PROVE  /\ RowOK(AttachedRow(r))
           /\ AttachedRow(r).state = "attached"
           /\ AttachedRow(r).gen = r.gen + 1
           /\ AttachedRow(r).process = r.process
<1>1. r \in Rows /\ Parsed(r) BY DEF RowOK, NoRow
<1>2. Moved(r, "attached").state = "attached" /\ AttachedRow(r) = Moved(r, "attached")
  BY <1>1, MovedRow DEF States, AttachedRow
<1>3. AttachedRow(r).reserved = r.reserved /\ AttachedRow(r).bytes = r.bytes
  BY <1>1, <1>2, MovedRow DEF States
<1>4. Parsed(AttachedRow(r)) BY <1>1, <1>2, <1>3 DEF Parsed
<1> QED BY <1>1, <1>2, <1>4, MovedRow DEF States, RowOK

LEMMA UnreferencedRowOK ==
    ASSUME NEW r, RowOK(r), r.state = "attached"
    PROVE  /\ RowOK(UnreferencedRow(r))
           /\ UnreferencedRow(r).state = "unreferenced"
           /\ UnreferencedRow(r).gen = r.gen + 1
           /\ UnreferencedRow(r).process = r.process
<1>1. r \in Rows /\ Parsed(r) BY DEF RowOK, NoRow
<1>2. UnreferencedRow(r) = Moved(r, "unreferenced") BY DEF UnreferencedRow
<1>3. /\ UnreferencedRow(r).reserved = r.reserved /\ UnreferencedRow(r).bytes = r.bytes
      /\ UnreferencedRow(r).state = "unreferenced"
  BY <1>1, <1>2, MovedRow DEF States
<1>4. Parsed(UnreferencedRow(r)) BY <1>1, <1>3 DEF Parsed
<1> QED BY <1>1, <1>2, <1>4, MovedRow DEF States, RowOK

LEMMA ClaimedRowOK ==
    ASSUME NEW r, RowOK(r), process \in Nat,
           r.state \in {"uploading", "staged", "unreferenced", "deleting"}
    PROVE  /\ RowOK(ClaimedRow(r))
           /\ ClaimedRow(r).state = "deleting"
           /\ ClaimedRow(r).gen = r.gen + 1
           /\ ClaimedRow(r).process = process
<1> DEFINE t == Moved(r, "deleting")
<1>1. r \in Rows /\ Parsed(r) BY DEF RowOK, NoRow
<1>2. /\ t \in Rows /\ t.state = "deleting" /\ t.gen = r.gen + 1
      /\ t.reserved = r.reserved /\ t.bytes = r.bytes
  BY <1>1, MovedRow DEF States
<1>3. ClaimedRow(r) = [t EXCEPT !.process = process] BY DEF ClaimedRow
<1> HIDE DEF t
<1>4. /\ ClaimedRow(r) \in Rows /\ ClaimedRow(r).state = "deleting"
      /\ ClaimedRow(r).gen = r.gen + 1 /\ ClaimedRow(r).process = process
      /\ ClaimedRow(r).reserved = r.reserved /\ ClaimedRow(r).bytes = r.bytes
  BY <1>2, <1>3 DEF Rows
<1>5. r.reserved = 0 \/ r.bytes = 0 BY <1>1 DEF Parsed
<1>6. Parsed(ClaimedRow(r)) BY <1>1, <1>4, <1>5 DEF Parsed
<1> QED BY <1>4, <1>6 DEF RowOK

LEMMA DeletedRowOK ==
    ASSUME NEW r \in Rows
    PROVE  /\ RowOK(DeletedRow(r))
           /\ DeletedRow(r).state = "deleted"
           /\ DeletedRow(r).gen = r.gen + 1
           /\ DeletedRow(r).process = r.process
<1> DEFINE t == Moved(r, "deleted")
<1>1. t \in Rows /\ t.state = "deleted" /\ t.gen = r.gen + 1 /\ t.process = r.process
  BY MovedRow DEF States
<1>2. DeletedRow(r) = [t EXCEPT !.reserved = 0, !.bytes = 0] BY DEF DeletedRow
<1> HIDE DEF t
<1>3. /\ DeletedRow(r) \in Rows /\ DeletedRow(r).state = "deleted"
      /\ DeletedRow(r).gen = r.gen + 1 /\ DeletedRow(r).process = r.process
      /\ DeletedRow(r).reserved = 0 /\ DeletedRow(r).bytes = 0
  BY <1>1, <1>2 DEF Rows
<1>4. Parsed(DeletedRow(r)) BY <1>3, BlobAssumption DEF Parsed
<1> QED BY <1>3, <1>4 DEF RowOK

-----------------------------------------------------------------------------
(* Frames. *)

SameSlot(s) ==
    /\ rows'[s] = rows[s] /\ disk'[s] = disk[s] /\ may'[s] = may[s]
    /\ workers'[s] = workers[s] /\ undispatched'[s] = undispatched[s]
    /\ requests'[s] = requests[s] /\ On(s)' = On(s)

\* A slot nobody touches stays sound.
LEMMA SlotKept ==
    ASSUME NEW s \in Slots, SlotSound(s), SameSlot(s), process' = process
    PROVE  SlotSound(s)'
<1>1. RowSound(s)' BY DEF SlotSound, RowSound, SameSlot
<1>2. DiskSound(s)' BY DEF SlotSound, DiskSound, SameSlot, Whole, Gone
<1>3. RequestSound(s)' BY DEF SlotSound, RequestSound, SameSlot, Gone
<1>4. WitnessSound(s)' BY DEF SlotSound, WitnessSound, SameSlot, Whole, Gone
<1>5. ASSUME NEW j \in On(s)' PROVE JobSound(s, j)'
  <2>1. j \in On(s) /\ j.key = s BY <1>5 DEF SameSlot, On
  <2>2. JobSound(s, j) BY <2>1 DEF SlotSound
  <2>3. Progress(j)' BY <2>1, <2>2 DEF JobSound, Progress, SameSlot
  <2> QED BY <2>2, <2>3 DEF JobSound, SameSlot
<1>6. \A i, j \in On(s)' : i = j BY DEF SlotSound, SameSlot
<1> QED BY <1>1, <1>2, <1>3, <1>4, <1>5, <1>6 DEF SlotSound

\* Workers run for reservations and claims only.
LEMMA NoJobs ==
    ASSUME NEW s \in Slots, SlotSound(s), rows[s].state \notin {"uploading", "deleting"}
    PROVE  On(s) = {}
BY DEF SlotSound, JobSound

\* A witness of the row's generation that has stopped: nobody writes the object.
LEMMA ProvenIdle ==
    ASSUME NEW s \in Slots, SlotSound(s),
           \/ workers[s].gen = rows[s].gen /\ workers[s].stopped
           \/ undispatched[s].gen = rows[s].gen
    PROVE  On(s) = {}
BY DEF SlotSound, JobSound

LEMMA CurrentItem ==
    ASSUME TypeInv, rec.queue # <<>>
    PROVE  /\ Item \in Items /\ Item \in Range(rec.queue)
           /\ Item.slot \in Slots /\ Item.row \in Rows
<1>1. rec.queue \in Seq(Items) BY DEF TypeInv, Pages
<1>2. Item = rec.queue[1] /\ 1 \in DOMAIN rec.queue /\ rec.queue[1] \in Items
  BY <1>1 DEF Item
<1> QED BY <1>2 DEF Items, Range

LEMMA QueuedItem ==
    ASSUME TypeInv, NEW item \in Range(rec.queue)
    PROVE  /\ item \in Items /\ item.slot \in Slots /\ item.row \in Rows
           /\ item.row.gen \in Nat /\ rec.queue # <<>>
<1>1. rec.queue \in Seq(Items) BY DEF TypeInv, Pages
<1>2. item \in Items /\ rec.queue # <<>> BY <1>1 DEF Range
<1> QED BY <1>2 DEF Items, Rows

\* What the others may do while the maintenance page is at a row.
Beside ==
    /\ \A s \in Slots :
          \/ rows'[s] = rows[s]
          \/ rows[s].state \notin {"deleting", "deleted"} /\ rows'[s].gen > rows[s].gen
    /\ \A s \in Slots : Claimable(s) /\ rows'[s] = rows[s] => Claimable(s)'
    /\ \A s \in Slots : rows[s].state = "deleting" =>
          workers'[s].gen = workers[s].gen /\ (On(s) = {} => On(s)' = {})

\* A row that is not deleted may move on, and then its generation shows it.
Advance ==
    \A s \in Slots :
       \/ rows'[s] = rows[s]
       \/ rows[s].state # "deleted" /\ rows'[s].gen > rows[s].gen

LEMMA ItemsKept ==
    ASSUME TypeInv, rows' \in [Slots -> Rows], PageSound, Advance
    PROVE  \A item \in Range(rec.queue) : ItemSound(item)'
<1> TAKE item \in Range(rec.queue)
<1>1. rows \in [Slots -> Rows] BY DEF TypeInv, TypeOK, Rows
<1>2. \A s \in Slots : rows[s].gen \in Nat /\ rows'[s].gen \in Nat BY <1>1 DEF Rows
<1>3. item.slot \in Slots /\ item.row.gen \in Nat BY QueuedItem
<1>4. ItemSound(item) BY DEF PageSound
<1>5. CASE rows'[item.slot] = rows[item.slot] BY <1>4, <1>5 DEF ItemSound
<1>6. CASE rows[item.slot].state # "deleted" /\ rows'[item.slot].gen > rows[item.slot].gen
  <2>1. item.row.gen < rows'[item.slot].gen BY <1>2, <1>3, <1>4, <1>6 DEF ItemSound
  <2>2. item.row.state # "deleted" BY <1>4, <1>6 DEF ItemSound
  <2>3. item.row.gen <= rows'[item.slot].gen /\ item.row.gen # rows'[item.slot].gen
    BY <1>2, <1>3, <2>1
  <2> QED BY <1>4, <2>2, <2>3 DEF ItemSound
<1> QED BY <1>3, <1>5, <1>6 DEF Advance

\* A page that goes on with rows it has read, none of them in hand yet.
LEMMA PageGoesOn ==
    ASSUME TypeInv, rows' \in [Slots -> Rows], PageSound, Advance,
           rec'.pc \notin {"claim", "dispatch", "remove"},
           rec'.pc = "row" => rec'.queue # <<>>,
           Range(rec'.queue) \subseteq Range(rec.queue)
    PROVE  PageSound'
<1>1. \A item \in Range(rec'.queue) : ItemSound(item)' BY ItemsKept
<1>2. \A item \in Range(rec'.queue) : InHand(item)' BY DEF InHand
<1> QED BY <1>1, <1>2 DEF PageSound

LEMMA PageKept ==
    ASSUME TypeInv, rows' \in [Slots -> Rows], PageSound, rec' = rec, process' = process,
           Beside
    PROVE  PageSound'
<1>1. rows \in [Slots -> Rows] BY DEF TypeInv, TypeOK, Rows
<1>2. \A s \in Slots : rows[s].gen \in Nat /\ rows'[s].gen \in Nat BY <1>1 DEF Rows
<1>a. Advance BY DEF Beside, Advance
<1>3. \A item \in Range(rec.queue) : ItemSound(item)' BY <1>a, ItemsKept
<1>4. ASSUME NEW item \in Range(rec.queue), item = Item PROVE InHand(item)'
  <2>1. item.slot \in Slots /\ item.row.gen \in Nat BY QueuedItem
  <2>2. InHand(item) /\ ItemSound(item) BY <1>4 DEF PageSound
  <2>3. ASSUME rec.pc = "claim", rows'[item.slot].gen = item.row.gen PROVE Claimable(item.slot)'
    <3>1. rows'[item.slot] = rows[item.slot] BY <1>2, <2>1, <2>2, <2>3 DEF Beside, ItemSound
    <3> QED BY <2>1, <2>2, <2>3, <3>1 DEF Beside, InHand
  <2>4. ASSUME rec.pc \in {"dispatch", "remove"}
        PROVE  /\ rows'[item.slot] = rows[item.slot]
               /\ workers'[item.slot].gen = workers[item.slot].gen
               /\ On(item.slot) = {} => On(item.slot)' = {}
    BY <2>1, <2>2, <2>4 DEF Beside, InHand
  <2> QED BY <2>2, <2>3, <2>4 DEF InHand
<1>5. Item' = Item BY DEF Item
<1> QED BY <1>3, <1>4, <1>5 DEF PageSound

-----------------------------------------------------------------------------
(* Steps that leave rows, files and witnesses alone. *)

LEMMA Quiet ==
    ASSUME BlobsInv,
           UNCHANGED <<rows, disk, may, workers, undispatched, requests, jobs, process>>
    PROVE  \A s \in Slots : SlotSound(s)' /\ SameSlot(s)
<1>1. \A s \in Slots : SameSlot(s) BY DEF SameSlot, On
<1> QED BY <1>1, SlotKept DEF BlobsInv

LEMMA QuietPage ==
    ASSUME BlobsInv,
           UNCHANGED <<rows, disk, may, workers, undispatched, requests, jobs, process, rec>>
    PROVE  PageSound'
<1>1. Beside BY DEF Beside, Claimable, On
<1>2. rows' \in [Slots -> Rows] BY DEF BlobsInv, TypeInv, TypeOK, Rows
<1> QED BY <1>1, <1>2, PageKept DEF BlobsInv

LEMMA PairStep ==
    ASSUME BlobsInv, Activation
    PROVE  BlobsInv'
<1>1. UNCHANGED <<rows, disk, may, workers, undispatched, requests, jobs, process, rec>>
  BY DEF Activation, PreparePair, InstallPair, AcknowledgePair, durable, volatile
<1>2. UNCHANGED <<orphans, expired, scan, cursor>>
  BY DEF Activation, PreparePair, InstallPair, AcknowledgePair, durable, volatile
<1>3. /\ pair' \in {"none", "pending", "paired"}
      /\ marker' \in {"none", "partial", "renamed", "durable"}
      /\ phase' \in {"observe", "install", "acknowledge", "first", "ready", "failed"}
  BY DEF BlobsInv, TypeInv, TypeOK, Activation, PreparePair, InstallPair, AcknowledgePair
<1>4. TypeInv' BY <1>1, <1>2, <1>3 DEF BlobsInv, TypeInv, TypeOK
<1>5. PairSound'
  <2>1. CASE PreparePair
    BY <2>1 DEF PreparePair, BlobsInv, PairSound, PairedMarkerDurable
  <2>2. CASE InstallPair
    BY <2>2 DEF InstallPair, Decide, BlobsInv, PairSound, PairedMarkerDurable
  <2>3. CASE AcknowledgePair
    BY <2>3 DEF AcknowledgePair, BlobsInv, PairSound, PairedMarkerDurable
  <2> QED BY <2>1, <2>2, <2>3 DEF Activation
<1> QED BY <1>1, <1>4, <1>5, Quiet, QuietPage DEF BlobsInv

LEMMA ExpireStep ==
    ASSUME BlobsInv, NEW s \in Slots, Expire(s)
    PROVE  BlobsInv'
<1>1. UNCHANGED <<rows, disk, may, workers, undispatched, requests, jobs, process, rec>>
  BY DEF Expire, durable, volatile
<1>2. UNCHANGED <<orphans, scan, cursor, pair, marker, phase>> /\ expired' \subseteq Slots
  BY DEF Expire, durable, volatile, BlobsInv, TypeInv, TypeOK
<1>3. TypeInv' BY <1>1, <1>2 DEF BlobsInv, TypeInv, TypeOK
<1>4. PairSound' BY <1>2 DEF BlobsInv, PairSound, PairedMarkerDurable
<1> QED BY <1>1, <1>3, <1>4, Quiet, QuietPage DEF BlobsInv

-----------------------------------------------------------------------------
(* The upload request. *)

\* What every step on one slot leaves alone.
LEMMA OthersKept ==
    ASSUME BlobsInv, NEW s \in Slots, process' = process,
           \A t \in Slots \ {s} : SameSlot(t), SlotSound(s)'
    PROVE  \A t \in Slots : SlotSound(t)'
BY SlotKept DEF BlobsInv

LEMMA PrepareStep ==
    ASSUME BlobsInv, NEW s \in Slots, Prepare(s)
    PROVE  BlobsInv'
<1> USE DEF BlobsInv
<1>t. /\ rows \in [Slots -> Rows] /\ workers \in [Keys -> Witnesses] /\ s \in Keys
      /\ requests \in [Slots -> {"idle", "prepared", "transfer"}] /\ process \in Nat
  BY DEF TypeInv, TypeOK, Rows, Keys
<1>u. /\ UNCHANGED <<orphans, expired, disk, may, pair, marker, process, phase>>
      /\ UNCHANGED <<scan, cursor, undispatched, jobs, rec>>
      /\ requests[s] = "idle" /\ rows[s] = NoRow
  BY DEF Prepare
<1>r. PICK outcome \in {"acked", "applied", "lost"} :
        /\ IF outcome = "lost" THEN UNCHANGED <<rows, workers>>
           ELSE /\ rows' = [rows EXCEPT ![s] = Reserved]
                /\ workers' = [workers EXCEPT ![s] =
                      IF outcome = "acked" THEN Witness(1) ELSE Unstarted(1)]
        /\ requests' = [requests EXCEPT ![s] =
              IF outcome = "acked" THEN "prepared" ELSE "idle"]
  BY DEF Prepare, Outcomes
<1>1. CASE outcome = "lost"
  <2>1. requests' = requests BY <1>r, <1>t, <1>u, <1>1
  <2>2. UNCHANGED <<rows, workers>> BY <1>r, <1>1
  <2>3. TypeInv' BY <1>u, <2>1, <2>2 DEF TypeInv, TypeOK
  <2>4. PairSound' BY <1>u DEF PairSound, PairedMarkerDurable
  <2> QED BY <1>u, <2>1, <2>2, <2>3, <2>4, Quiet, QuietPage
<1>2. CASE outcome # "lost"
  <2>1. /\ rows' \in [Slots -> Rows]
        /\ \A t \in Slots : rows'[t] = IF t = s THEN Reserved ELSE rows[t]
        /\ \A t \in Slots : rows'[t] = NoRow \/ Parsed(rows'[t])
    BY <1>t, <1>r, <1>2, ReservedRow, RowStored
  <2> DEFINE w == IF outcome = "acked" THEN Witness(1) ELSE Unstarted(1)
  <2>2. /\ w \in Witnesses /\ w.gen = 1
        /\ outcome = "acked" => ~w.stopped
        /\ outcome # "acked" => w.failed
    BY DEF Witness, Unstarted, Witnesses
  <2>3. workers' \in [Keys -> Witnesses] /\ workers'[s] = w
        /\ \A t \in Slots \ {s} : workers'[t] = workers[t]
    BY <1>t, <1>r, <1>2, <2>2 DEF Keys
  <2>4. requests' \in [Slots -> {"idle", "prepared", "transfer"}]
        /\ requests'[s] = (IF outcome = "acked" THEN "prepared" ELSE "idle")
        /\ \A t \in Slots \ {s} : requests'[t] = requests[t]
    BY <1>t, <1>r
  <2> HIDE DEF w
  <2>5. TypeInv' BY <1>u, <2>1, <2>3, <2>4 DEF TypeInv, TypeOK, Rows
  <2>6. PairSound' BY <1>u DEF PairSound, PairedMarkerDurable
  <2>7. \A t \in Slots \ {s} : SameSlot(t) BY <1>u, <2>1, <2>3, <2>4 DEF SameSlot, On
  <2>8. rows[s].state = "none" /\ rows[s].gen = 0 BY <1>u DEF NoRow
  <2>9. On(s) = {} /\ On(s)' = {} BY <1>u, <2>8, NoJobs DEF On
  <2>10. /\ rows'[s].state = "uploading" /\ rows'[s].gen = 1 /\ rows'[s].process = process
         /\ rows'[s].reserved = Limit /\ rows'[s].bytes = 0
    BY <2>1 DEF Reserved
  <2>11. SlotSound(s)'
    <3>1. RowSound(s)' BY <1>t, <1>u, <2>10 DEF RowSound
    <3>2. DiskSound(s)' /\ Gone(s)'
      BY <1>u, <2>8, <2>10 DEF SlotSound, DiskSound, Whole, Gone
    <3>3. RequestSound(s)'
      BY <1>u, <2>2, <2>3, <2>4, <2>9, <2>10, <3>2 DEF RequestSound
    <3>4. WitnessSound(s)'
      BY <1>t, <1>u, <2>2, <2>3, <2>10 DEF SlotSound, WitnessSound
    <3> QED BY <2>9, <3>1, <3>2, <3>3, <3>4 DEF SlotSound
  <2>12. Beside
    <3>1. \A t \in Slots : Claimable(t) => t # s BY <2>8 DEF Claimable
    <3>2. \A t \in Slots \ {s} : Claimable(t)' = Claimable(t)
      BY <1>u, <2>1, <2>4 DEF Claimable, On
    <3>3. rows'[s].gen > rows[s].gen BY <2>8, <2>10
    <3> QED BY <1>u, <2>1, <2>3, <2>8, <3>1, <3>2, <3>3 DEF Beside, On
  <2>13. PageSound' BY <1>u, <2>1, <2>12, PageKept
  <2> QED BY <1>u, <2>5, <2>6, <2>7, <2>11, <2>13, OthersKept
<1> QED BY <1>1, <1>2

LEMMA DispatchStep ==
    ASSUME BlobsInv, NEW s \in Slots, Dispatch(s)
    PROVE  BlobsInv'
<1> USE DEF BlobsInv
<1> DEFINE j == Job(s, "upload", 1, "begin")
<1>t. /\ rows \in [Slots -> Rows] /\ workers \in [Keys -> Witnesses] /\ s \in Keys
      /\ requests \in [Slots -> {"idle", "prepared", "transfer"}] /\ process \in Nat
  BY DEF TypeInv, TypeOK, Rows, Keys
<1>u. /\ UNCHANGED <<rows, orphans, expired, disk, may, pair, marker, process, phase>>
      /\ UNCHANGED <<scan, cursor, undispatched, rec>>
      /\ requests[s] = "prepared" /\ jobs' = jobs \cup {j}
      /\ workers' = [workers EXCEPT ![s] = Witness(1)]
      /\ requests' = [requests EXCEPT ![s] = "transfer"]
  BY DEF Dispatch, durable
<1>1. /\ j \in JobRecords /\ j.key = s /\ j.kind = "upload" /\ j.gen = 1 /\ j.step = "begin"
  BY DEF Job, JobRecords, JobSteps
<1> HIDE DEF j
<1>2. Witness(1) \in Witnesses /\ Witness(1).gen = 1 /\ ~Witness(1).stopped
  BY DEF Witness, Witnesses
<1>3. /\ workers' \in [Keys -> Witnesses] /\ workers'[s] = Witness(1)
      /\ \A t \in Slots \ {s} : workers'[t] = workers[t]
  BY <1>t, <1>u, <1>2 DEF Keys
<1>4. /\ requests' \in [Slots -> {"idle", "prepared", "transfer"}]
      /\ requests'[s] = "transfer" /\ \A t \in Slots \ {s} : requests'[t] = requests[t]
  BY <1>t, <1>u
<1>5. TypeInv' BY <1>u, <1>1, <1>3, <1>4 DEF TypeInv, TypeOK
<1>6. PairSound' BY <1>u DEF PairSound, PairedMarkerDurable
<1>7. On(s)' = On(s) \cup {j} /\ \A t \in Slots \ {s} : On(t)' = On(t)
  BY <1>u, <1>1 DEF On
<1>8. \A t \in Slots \ {s} : SameSlot(t) BY <1>u, <1>3, <1>4, <1>7 DEF SameSlot
<1>9. /\ rows[s].state = "uploading" /\ rows[s].process = process /\ On(s) = {} /\ Gone(s)
      /\ rows[s].gen = 1 /\ workers[s].gen = 1
  BY <1>u DEF SlotSound, RequestSound, RowSound
<1>10. SlotSound(s)'
  <2>1. RowSound(s)' BY <1>u DEF SlotSound, RowSound
  <2>2. DiskSound(s)' BY <1>u DEF SlotSound, DiskSound, Whole, Gone
  <2>3. RequestSound(s)' BY <1>u, <1>4, <1>9 DEF SlotSound, RequestSound
  <2>4. WitnessSound(s)' BY <1>t, <1>u, <1>2, <1>3, <1>9 DEF SlotSound, WitnessSound
  <2>5. Progress(j)' BY <1>u, <1>1, <1>9 DEF Progress, Gone
  <2>6. undispatched[s].gen # 1 BY DEF SlotSound, WitnessSound
  <2>7. JobSound(s, j)' BY <1>u, <1>1, <1>2, <1>3, <1>9, <2>5, <2>6 DEF JobSound
  <2> QED BY <1>7, <1>9, <2>1, <2>2, <2>3, <2>4, <2>7 DEF SlotSound
<1>11. Beside
  <2>1. \A t \in Slots : Claimable(t) => t # s BY <1>u DEF Claimable
  <2>2. \A t \in Slots \ {s} : Claimable(t)' = Claimable(t)
    BY <1>u, <1>4, <1>7 DEF Claimable
  <2> QED BY <1>u, <1>3, <1>7, <1>9, <2>1, <2>2 DEF Beside
<1>12. PageSound' BY <1>t, <1>u, <1>11, PageKept
<1> QED BY <1>u, <1>5, <1>6, <1>8, <1>10, <1>12, OthersKept

LEMMA PublishStep ==
    ASSUME BlobsInv, NEW s \in Slots, Publish(s)
    PROVE  BlobsInv'
<1> USE DEF BlobsInv
<1>t. /\ rows \in [Slots -> Rows] /\ workers \in [Keys -> Witnesses] /\ s \in Keys
      /\ requests \in [Slots -> {"idle", "prepared", "transfer"}] /\ process \in Nat
  BY DEF TypeInv, TypeOK, Rows, Keys
<1>u. /\ UNCHANGED <<orphans, expired, disk, may, pair, marker, process, phase>>
      /\ UNCHANGED <<scan, cursor, undispatched, jobs, rec>>
      /\ requests[s] = "transfer" /\ workers[s].gen = 1
      /\ workers[s].stopped /\ ~workers[s].failed
      /\ rows[s].state = "uploading" /\ rows[s].gen = 1
      /\ workers' = [workers EXCEPT ![s].failed = TRUE]
      /\ requests' = [requests EXCEPT ![s] = "idle"]
  BY DEF Publish, Stageable
<1>r. PICK size \in Sizes :
        rows' = rows \/ rows' = [rows EXCEPT ![s] = StagedRow(rows[s], size)]
  BY DEF Publish
<1>1. On(s) = {} BY <1>u, ProvenIdle
<1>2. Whole(s) BY <1>u DEF SlotSound, WitnessSound
<1>3. /\ workers' \in [Keys -> Witnesses]
      /\ workers'[s].gen = 1 /\ workers'[s].stopped /\ workers'[s].failed
      /\ \A t \in Slots \ {s} : workers'[t] = workers[t]
  BY <1>t, <1>u DEF Keys, Witnesses
<1>4. /\ requests' \in [Slots -> {"idle", "prepared", "transfer"}]
      /\ requests'[s] = "idle" /\ \A t \in Slots \ {s} : requests'[t] = requests[t]
  BY <1>t, <1>u
<1>5. /\ rows' \in [Slots -> Rows]
      /\ \A t \in Slots \ {s} : rows'[t] = rows[t]
      /\ \A t \in Slots : rows'[t] = NoRow \/ Parsed(rows'[t])
      /\ \/ rows'[s] = rows[s]
         \/ rows'[s].state = "staged" /\ rows'[s].gen = 2 /\ rows'[s].process = rows[s].process
  <2>1. CASE rows' = rows BY <1>t, <2>1 DEF TypeInv, TypeOK
  <2>2. CASE rows' = [rows EXCEPT ![s] = StagedRow(rows[s], size)]
    <3>1. rows[s] \in Rows BY <1>t
    <3>2. /\ RowOK(StagedRow(rows[s], size)) /\ StagedRow(rows[s], size).state = "staged"
          /\ StagedRow(rows[s], size).gen = 2
          /\ StagedRow(rows[s], size).process = rows[s].process
      BY <1>u, <3>1, StagedRowOK
    <3> QED BY <2>2, <3>2, RowStored
  <2> QED BY <1>r, <2>1, <2>2
<1>6. TypeInv' BY <1>u, <1>3, <1>4, <1>5 DEF TypeInv, TypeOK, Rows
<1>7. PairSound' BY <1>u DEF PairSound, PairedMarkerDurable
<1>8. \A t \in Slots \ {s} : SameSlot(t) BY <1>u, <1>3, <1>4, <1>5 DEF SameSlot, On
<1>9. On(s)' = {} BY <1>u, <1>1 DEF On
<1>10. SlotSound(s)'
  <2>1. RowSound(s)' BY <1>u, <1>5 DEF SlotSound, RowSound
  <2>2. DiskSound(s)' BY <1>u, <1>2, <1>5 DEF SlotSound, DiskSound, Whole
  <2>3. RequestSound(s)' BY <1>4 DEF RequestSound
  <2>4. WitnessSound(s)' BY <1>t, <1>u, <1>3, <1>5 DEF SlotSound, WitnessSound
  <2> QED BY <1>9, <2>1, <2>2, <2>3, <2>4 DEF SlotSound
<1>11. Beside
  <2>1. \A t \in Slots \ {s} : Claimable(t)' = Claimable(t)
    BY <1>u, <1>4, <1>5 DEF Claimable, On
  <2>2. rows'[s] = rows[s] => Claimable(s)' BY <1>u, <1>4, <1>9 DEF Claimable
  <2>3. rows'[s] = rows[s] \/ rows'[s].gen > rows[s].gen BY <1>u, <1>5
  <2> QED BY <1>u, <1>3, <1>5, <2>1, <2>2, <2>3 DEF Beside, On
<1>12. PageSound' BY <1>u, <1>5, <1>11, PageKept
<1> QED BY <1>u, <1>6, <1>7, <1>8, <1>10, <1>12, OthersKept

\* A row that moves while nothing else does: its object is kept for someone, before
\* and after.
LEMMA RowStep ==
    ASSUME BlobsInv, NEW s \in Slots, NEW r, RowOK(r),
           rows[s].state \in {"staged", "attached"},
           r.state \in {"attached", "unreferenced"},
           r.gen = rows[s].gen + 1, r.process = rows[s].process,
           rows' = [rows EXCEPT ![s] = r],
           UNCHANGED <<orphans, expired, disk, may, pair, marker, process, phase,
                       volatile, jobs, requests, rec>>
    PROVE  BlobsInv'
<1> USE DEF BlobsInv
<1>1. /\ rows' \in [Slots -> Rows]
      /\ \A t \in Slots : rows'[t] = IF t = s THEN r ELSE rows[t]
      /\ \A t \in Slots : rows'[t] = NoRow \/ Parsed(rows'[t])
  BY RowStored
<1>2. UNCHANGED <<scan, cursor, workers, undispatched>> BY DEF volatile
<1>3. TypeInv' BY <1>1, <1>2 DEF TypeInv, TypeOK, Rows
<1>4. PairSound' BY DEF PairSound, PairedMarkerDurable
<1>5. \A t \in Slots \ {s} : SameSlot(t) BY <1>1, <1>2 DEF SameSlot, On
<1>6. On(s) = {} /\ On(s)' = {} BY NoJobs DEF On
<1>7. rows[s].gen \in Nat /\ rows[s].gen >= 2
  BY DEF TypeInv, TypeOK, SlotSound, RowSound
<1>8. SlotSound(s)'
  <2>1. RowSound(s)' BY <1>1, <1>7 DEF SlotSound, RowSound
  <2>2. DiskSound(s)' BY <1>1 DEF SlotSound, DiskSound, Whole
  <2>3. RequestSound(s)' BY <1>1 DEF SlotSound, RequestSound
  <2>4. WitnessSound(s)'
    <3>1. workers[s].gen \in Nat /\ workers[s].gen <= rows[s].gen
      BY DEF TypeInv, TypeOK, Keys, Witnesses, SlotSound, WitnessSound
    <3>2. workers[s].gen < rows'[s].gen /\ workers[s].gen # rows'[s].gen BY <1>1, <1>7, <3>1
    <3>3. workers[s].gen <= rows'[s].gen BY <1>1, <1>7, <3>1
    <3> QED BY <1>2, <3>2, <3>3 DEF SlotSound, WitnessSound
  <2> QED BY <1>6, <2>1, <2>2, <2>3, <2>4 DEF SlotSound
<1>9. Beside
  <2>1. \A t \in Slots \ {s} : Claimable(t)' = Claimable(t) BY <1>1 DEF Claimable, On
  <2>2. rows'[s].gen > rows[s].gen BY <1>1, <1>7
  <2> QED BY <1>1, <1>2, <1>7, <2>1, <2>2 DEF Beside, On
<1>10. PageSound' BY <1>1, <1>9, PageKept
<1> QED BY <1>3, <1>4, <1>5, <1>8, <1>10, OthersKept

LEMMA AttachStep ==
    ASSUME BlobsInv, NEW s \in Slots, Attach(s)
    PROVE  BlobsInv'
<1>1. rows[s].state = "staged" BY DEF Attach, Attachable
<1>2. RowOK(rows[s]) BY StoredRows DEF BlobsInv
<1> QED BY <1>1, <1>2, AttachedRowOK, RowStep DEF Attach

LEMMA DetachStep ==
    ASSUME BlobsInv, NEW s \in Slots, Detach(s)
    PROVE  BlobsInv'
<1>1. rows[s].state = "attached" BY DEF Detach
<1>2. RowOK(rows[s]) BY StoredRows DEF BlobsInv
<1> QED BY <1>1, <1>2, UnreferencedRowOK, RowStep DEF Detach

-----------------------------------------------------------------------------
(* Jobs that are cancelled. *)

\* Two records of the same worker: a cancellation changes nothing else.
Alike(i, j) == i.key = j.key /\ i.kind = j.kind /\ i.gen = j.gen /\ i.step = j.step

LEMMA CancelledJobs ==
    ASSUME TypeInv, NEW s, NEW kind, jobs' \in Cancelled(jobs, s, kind)
    PROVE  /\ jobs' \subseteq JobRecords
           /\ \A t : t # s => On(t)' = On(t)
           /\ On(s) = {} => On(s)' = {}
           /\ \A i \in On(s)' : \E j \in On(s) : Alike(i, j)
           /\ (\A i, j \in On(s) : i = j) => (\A i, j \in On(s)' : i = j)
<1> DEFINE mark(c, j) == IF j.key = s /\ j.kind = kind /\ j.cancelled = "no"
                         THEN [j EXCEPT !.cancelled = c] ELSE j
<1>1. PICK c \in {"late", "yes"} : jobs' = {mark(c, j) : j \in jobs}
  BY DEF Cancelled
<1>2. \A j \in jobs : mark(c, j) \in JobRecords /\ Alike(mark(c, j), j)
  BY DEF TypeInv, JobRecords, Alike
<1>3. \A j \in jobs : j.key # s => mark(c, j) = j OBVIOUS
<1> HIDE DEF mark
<1>4. \A i \in jobs' : \E j \in jobs : i = mark(c, j) BY <1>1
<1>5. \A j \in jobs : mark(c, j) \in jobs' BY <1>1
<1>6. jobs' \subseteq JobRecords BY <1>2, <1>4
<1>7. ASSUME NEW t, t # s PROVE On(t)' = On(t)
  BY <1>2, <1>3, <1>4, <1>5, <1>7 DEF On, Alike
<1>8. \A i \in On(s)' : \E j \in On(s) : i = mark(c, j) BY <1>2, <1>4 DEF On, Alike
<1>9. \A i \in On(s)' : \E j \in On(s) : Alike(i, j) BY <1>2, <1>8 DEF On
<1> QED BY <1>6, <1>7, <1>8, <1>9

LEMMA CancelledSound ==
    ASSUME NEW s \in Slots, SlotSound(s), \A i \in On(s)' : \E j \in On(s) : Alike(i, j),
           rows'[s] = rows[s], disk'[s] = disk[s], may'[s] = may[s],
           undispatched'[s] = undispatched[s], process' = process,
           workers'[s].gen = workers[s].gen, workers'[s].stopped = workers[s].stopped
    PROVE  \A i \in On(s)' : JobSound(s, i)'
<1> TAKE i \in On(s)'
<1>1. PICK j \in On(s) : Alike(i, j) OBVIOUS
<1>2. JobSound(s, j) BY DEF SlotSound
<1>3. i.key = s /\ j.key = s BY DEF On
<1>4. Progress(i)' BY <1>1, <1>2, <1>3 DEF JobSound, Progress, Alike
<1> QED BY <1>1, <1>2, <1>4 DEF JobSound, Alike

LEMMA DropRequestStep ==
    ASSUME BlobsInv, NEW s \in Slots, DropRequest(s)
    PROVE  BlobsInv'
<1> USE DEF BlobsInv
<1>t. /\ rows \in [Slots -> Rows] /\ workers \in [Keys -> Witnesses] /\ s \in Keys
      /\ requests \in [Slots -> {"idle", "prepared", "transfer"}] /\ process \in Nat
      /\ jobs \subseteq JobRecords
  BY DEF TypeInv, TypeOK, Rows, Keys
<1>u. /\ UNCHANGED <<rows, orphans, expired, disk, may, pair, marker, process, phase>>
      /\ UNCHANGED <<scan, cursor, undispatched, rec>>
      /\ requests[s] # "idle" /\ requests' = [requests EXCEPT ![s] = "idle"]
  BY DEF DropRequest, durable
<1>1. /\ requests' \in [Slots -> {"idle", "prepared", "transfer"}]
      /\ requests'[s] = "idle" /\ \A t \in Slots \ {s} : requests'[t] = requests[t]
  BY <1>t, <1>u
\* The witness fails; it stops only when no worker was started.
<1>2. /\ workers' \in [Keys -> Witnesses]
      /\ workers'[s].gen = workers[s].gen
      /\ workers'[s].stopped = workers[s].stopped \/ On(s) = {}
      /\ workers'[s] = workers[s] \/ workers'[s].failed
      /\ \A t \in Slots \ {s} : workers'[t] = workers[t]
      /\ jobs' \subseteq JobRecords
      /\ \A t \in Slots \ {s} : On(t)' = On(t)
      /\ On(s) = {} => On(s)' = {}
      /\ \A i \in On(s)' : \E j \in On(s) : Alike(i, j)
      /\ \A i, j \in On(s)' : i = j
  <2>1. CASE requests[s] = "prepared"
    <3>1. workers' = [workers EXCEPT ![s] = StopUnstarted(workers[s])] /\ jobs' = jobs
      BY <2>1 DEF DropRequest
    <3>2. On(s) = {} BY <2>1 DEF SlotSound, RequestSound
    <3>3. StopUnstarted(workers[s]) \in Witnesses
          /\ StopUnstarted(workers[s]).gen = workers[s].gen /\ StopUnstarted(workers[s]).failed
      BY <1>t DEF StopUnstarted, Witnesses
    <3> QED BY <1>t, <3>1, <3>2, <3>3 DEF On, Keys
  <2>2. CASE requests[s] # "prepared"
    <3>1. /\ workers' = [workers EXCEPT ![s] =
                IF @.gen = 1 THEN [@ EXCEPT !.failed = TRUE] ELSE @]
          /\ jobs' \in Cancelled(jobs, s, "upload")
      BY <2>2 DEF DropRequest
    <3> DEFINE w == IF workers[s].gen = 1 THEN [workers[s] EXCEPT !.failed = TRUE]
                    ELSE workers[s]
    <3>2. /\ w \in Witnesses /\ w.gen = workers[s].gen /\ w.stopped = workers[s].stopped
          /\ w = workers[s] \/ w.failed
      BY <1>t DEF Witnesses
    <3>3. workers' = [workers EXCEPT ![s] = w] BY <1>t, <3>1
    <3> HIDE DEF w
    <3>4. /\ workers' \in [Keys -> Witnesses] /\ workers'[s] = w
          /\ \A t \in Slots \ {s} : workers'[t] = workers[t]
      BY <1>t, <3>2, <3>3 DEF Keys
    <3>5. \A i, j \in On(s) : i = j BY DEF SlotSound
    <3> QED BY <3>1, <3>2, <3>4, <3>5, CancelledJobs
  <2> QED BY <2>1, <2>2
<1>3. TypeInv' BY <1>u, <1>1, <1>2 DEF TypeInv, TypeOK
<1>4. PairSound' BY <1>u DEF PairSound, PairedMarkerDurable
<1>5. \A t \in Slots \ {s} : SameSlot(t) BY <1>u, <1>1, <1>2 DEF SameSlot
<1>6. SlotSound(s)'
  <2>1. RowSound(s)' BY <1>u DEF SlotSound, RowSound
  <2>2. DiskSound(s)' BY <1>u DEF SlotSound, DiskSound, Whole, Gone
  <2>3. RequestSound(s)' BY <1>1 DEF RequestSound
  <2>4. WitnessSound(s)' BY <1>u, <1>2 DEF SlotSound, WitnessSound, Whole, Gone
  <2>5. \A j \in On(s)' : JobSound(s, j)'
    <3>1. CASE On(s) = {} BY <1>2, <3>1
    <3>2. CASE workers'[s].stopped = workers[s].stopped BY <1>u, <1>2, <3>2, CancelledSound
    <3> QED BY <1>2, <3>1, <3>2
  <2> QED BY <1>2, <2>1, <2>2, <2>3, <2>4, <2>5 DEF SlotSound
<1>7. Beside
  <2>1. \A t \in Slots : Claimable(t) => Claimable(t)' BY <1>u, <1>1, <1>2 DEF Claimable
  <2> QED BY <1>u, <1>2, <2>1 DEF Beside
<1>8. PageSound' BY <1>t, <1>u, <1>7, PageKept
<1> QED BY <1>u, <1>3, <1>4, <1>5, <1>6, <1>8, OthersKept

-----------------------------------------------------------------------------
(* The system calls of a worker. *)

LEMMA UploadSteps ==
    ASSUME NEW j, j.kind = "upload"
    PROVE  /\ j.step = "begin" => NextStep(j) = "sync"
           /\ j.step = "sync" => NextStep(j) = "rename"
           /\ j.step = "rename" => NextStep(j) = "syncObjects"
           /\ j.step = "syncObjects" => NextStep(j) = "syncPartial"
           /\ j.step = "syncPartial" => NextStep(j) = "done"
<1> DEFINE steps == Steps(j.kind)
<1>1. steps = <<"begin", "sync", "rename", "syncObjects", "syncPartial">> BY DEF Steps
<1>2. /\ steps[1] = "begin" /\ steps[2] = "sync" /\ steps[3] = "rename"
      /\ steps[4] = "syncObjects" /\ steps[5] = "syncPartial"
      /\ DOMAIN steps = 1 .. 5 /\ Len(steps) = 5
  BY <1>1
<1> HIDE DEF steps
<1>3. ASSUME NEW i \in 1 .. 5, j.step = steps[i]
      PROVE  NextStep(j) = IF i = 5 THEN "done" ELSE steps[i + 1]
  <2>1. \A n \in 1 .. 5 : steps[n] = j.step <=> n = i BY <1>2, <1>3
  <2>2. (CHOOSE n \in DOMAIN steps : steps[n] = j.step) = i BY <1>2, <2>1
  <2> DEFINE at == CHOOSE n \in DOMAIN steps : steps[n] = j.step
  <2>3. NextStep(j) = IF at = Len(steps) THEN "done" ELSE steps[at + 1]
    BY Zenon DEF NextStep, at, steps
  <2> QED BY <1>2, <2>2, <2>3
<1>4. /\ j.step = steps[1] => NextStep(j) = steps[2]
      /\ j.step = steps[2] => NextStep(j) = steps[3]
      /\ j.step = steps[3] => NextStep(j) = steps[4]
      /\ j.step = steps[4] => NextStep(j) = steps[5]
      /\ j.step = steps[5] => NextStep(j) = "done"
  BY <1>3
<1> QED BY <1>2, <1>4

LEMMA RemovalSteps ==
    ASSUME NEW j, j.kind = "remove"
    PROVE  /\ j.step = "unlinkPartial" => NextStep(j) = "syncPartial"
           /\ j.step = "syncPartial" => NextStep(j) = "unlinkFinal"
           /\ j.step = "unlinkFinal" => NextStep(j) = "syncFinal"
           /\ j.step = "syncFinal" => NextStep(j) = "done"
<1> DEFINE steps == Steps(j.kind)
<1>1. steps = <<"unlinkPartial", "syncPartial", "unlinkFinal", "syncFinal">> BY DEF Steps
<1>2. /\ steps[1] = "unlinkPartial" /\ steps[2] = "syncPartial"
      /\ steps[3] = "unlinkFinal" /\ steps[4] = "syncFinal"
      /\ DOMAIN steps = 1 .. 4 /\ Len(steps) = 4
  BY <1>1
<1> HIDE DEF steps
<1>3. ASSUME NEW i \in 1 .. 4, j.step = steps[i]
      PROVE  NextStep(j) = IF i = 4 THEN "done" ELSE steps[i + 1]
  <2>1. \A n \in 1 .. 4 : steps[n] = j.step <=> n = i BY <1>2, <1>3
  <2>2. (CHOOSE n \in DOMAIN steps : steps[n] = j.step) = i BY <1>2, <2>1
  <2> DEFINE at == CHOOSE n \in DOMAIN steps : steps[n] = j.step
  <2>3. NextStep(j) = IF at = Len(steps) THEN "done" ELSE steps[at + 1]
    BY Zenon DEF NextStep, at, steps
  <2> QED BY <1>2, <2>2, <2>3
<1>4. /\ j.step = steps[1] => NextStep(j) = steps[2]
      /\ j.step = steps[2] => NextStep(j) = steps[3]
      /\ j.step = steps[3] => NextStep(j) = steps[4]
      /\ j.step = steps[4] => NextStep(j) = "done"
  BY <1>3
<1> QED BY <1>2, <1>4

\* Calls only make names that the store knows.
LEMMA NamesKept ==
    ASSUME NEW step \in JobSteps, NEW k \in Keys, disk[k] \subseteq Names,
           may[k] \subseteq SUBSET Names
    PROVE  /\ Visible(step, disk[k]) \subseteq Names
           /\ Persisted(step, k) \subseteq SUBSET Names
<1>1. \A m : Renamed(m) \subseteq Names BY DEF Renamed, Names
<1>2. \A m \in SUBSET Names : Visible(step, m) \in SUBSET Names
  BY <1>1, Zenon DEF Visible, Names
<1>3. \A x \in SUBSET Names : /\ x \ Temporary \in SUBSET Names
                             /\ x \ {"final", "torn"} \in SUBSET Names
                             /\ Renamed(x) \in SUBSET Names
                             /\ x \cup Renamed(x) \in SUBSET Names
  BY <1>1
<1>4. {} \in SUBSET Names /\ {"partial"} \in SUBSET Names BY DEF Names
<1>5. ASSUME NEW x \in Persisted(step, k) PROVE x \in SUBSET Names
  <2>1. CASE step = "begin" BY <1>4, <1>5, <2>1 DEF Persisted
  <2>2. CASE step = "sync"
    <3>1. x \in {Visible(step, y) : y \in may[k] \ {{}}} \cup {{}} BY <1>5, <2>2 DEF Persisted
    <3> QED BY <1>2, <1>4, <3>1
  <2>3. CASE step = "rename"
    <3>1. x \in may[k] \cup {Renamed(y) : y \in may[k]} \cup {y \cup Renamed(y) : y \in may[k]}
      BY <1>5, <2>3 DEF Persisted
    <3> QED BY <1>3, <3>1
  <2>4. CASE step = "syncObjects"
    <3>1. x \in may[k] BY <1>5, <2>4 DEF Persisted
    <3> QED BY <3>1
  <2>5. CASE step = "syncPartial"
    <3>1. x \in {y \ Temporary : y \in may[k]} BY <1>5, <2>5 DEF Persisted
    <3> QED BY <1>3, <3>1
  <2>6. CASE step = "syncFinal"
    <3>1. x \in {y \ {"final", "torn"} : y \in may[k]} BY <1>5, <2>6 DEF Persisted
    <3> QED BY <1>3, <3>1
  <2>7. CASE step \in {"unlinkPartial", "unlinkFinal", "done"}
    <3>1. x \in may[k] \cup {Visible(step, y) : y \in may[k]} BY <1>5, <2>7 DEF Persisted
    <3> QED BY <1>2, <3>1
  <2> QED BY <2>1, <2>2, <2>3, <2>4, <2>5, <2>6, <2>7 DEF JobSteps
<1> QED BY <1>2, <1>5

\* An upload leaves of a power loss only what the next call expects.
LEMMA UploadCall ==
    ASSUME NEW k \in Keys, NEW j, NEW n, j.kind = "upload", j.key = k, Progress(j),
           n.key = k, n.kind = "upload", n.step = NextStep(j), j.step # "done",
           disk[k] \in may[k], disk'[k] = Visible(j.step, disk[k]),
           may'[k] = Persisted(j.step, k)
    PROVE  Progress(n)' /\ disk'[k] \in may'[k]
<1> DEFINE d == disk[k]
           m == may[k]
<1>1. CASE j.step = "begin"
  <2>1. d = {} /\ m \subseteq {{}} BY <1>1 DEF Progress
  <2>2. disk'[k] = d \cup {"partial"} BY <1>1 DEF Visible
  <2>3. may'[k] = m \cup {{"partial"}} BY <1>1 DEF Persisted
  <2>4. disk'[k] = {"partial"} /\ may'[k] \subseteq {{}, {"partial"}} BY <2>1, <2>2, <2>3
  <2> QED BY <1>1, <2>3, <2>4, UploadSteps DEF Progress
<1>2. CASE j.step = "sync"
  <2>1. d = {"partial"} /\ m \subseteq {{}, {"partial"}} BY <1>2 DEF Progress
  <2>2. Visible("sync", {"partial"}) = {"sealed"} BY DEF Visible
  <2>3. may'[k] = {Visible("sync", x) : x \in m \ {{}}} \cup {{}} BY <1>2 DEF Persisted
  <2>4. disk'[k] = {"sealed"} BY <1>2, <2>1, <2>2
  <2>5. \A x \in m \ {{}} : x = {"partial"} BY <2>1
  <2>6. may'[k] \subseteq {{}, {"sealed"}} BY <2>2, <2>3, <2>5
  <2>7. d \in m \ {{}} BY <2>1
  <2>8. disk'[k] \in may'[k]
    <3>1. Visible("sync", d) \in {Visible("sync", x) : x \in m \ {{}}} BY <2>7
    <3>2. Visible("sync", d) = disk'[k] BY <1>2
    <3> QED BY <2>3, <3>1, <3>2
  <2> QED BY <1>2, <2>4, <2>6, <2>8, UploadSteps DEF Progress
<1>3. CASE j.step = "rename"
  <2>1. d = {"sealed"} /\ m \subseteq {{}, {"sealed"}} BY <1>3 DEF Progress
  <2>2. Renamed({"sealed"}) = {"final"} /\ Renamed({}) = {} BY DEF Renamed, Temporary
  <2>3. disk'[k] = {"final"}
    BY <1>3, <2>1, <2>2 DEF Visible, Temporary
  <2>4. may'[k] = m \cup {Renamed(x) : x \in m} \cup {x \cup Renamed(x) : x \in m}
    BY <1>3 DEF Persisted
  <2>5. \A x \in m : /\ Renamed(x) \in {{}, {"final"}}
                     /\ x \cup Renamed(x) \in {{}, {"sealed", "final"}}
    BY <2>1, <2>2
  <2>6. may'[k] \subseteq {{}, {"sealed"}, {"final"}, {"sealed", "final"}}
    BY <2>1, <2>4, <2>5
  <2>7. disk'[k] \in may'[k]
    <3>1. d \in m BY <2>1
    <3>2. Renamed(d) \in {Renamed(x) : x \in m} BY <3>1
    <3>3. disk'[k] = Renamed(d) BY <2>1, <2>2, <2>3
    <3> QED BY <2>4, <3>2, <3>3
  <2> QED BY <1>3, <2>3, <2>6, <2>7, UploadSteps DEF Progress
<1>4. CASE j.step = "syncObjects"
  <2>1. d = {"final"} /\ m \subseteq {{}, {"sealed"}, {"final"}, {"sealed", "final"}}
    BY <1>4 DEF Progress
  <2>2. disk'[k] = d BY <1>4 DEF Visible
  <2>3. may'[k] = {x \in m : x \ Temporary = d \ Temporary} BY <1>4 DEF Persisted
  <2>4. "final" \in d \ Temporary BY <2>1 DEF Temporary
  <2>5. \A x \in may'[k] : x \in m /\ "final" \in x BY <2>3, <2>4
  <2>6. may'[k] \subseteq {{"final"}, {"sealed", "final"}} BY <2>1, <2>5
  <2>7. disk'[k] \in may'[k] BY <2>2, <2>3
  <2> QED BY <1>4, <2>1, <2>2, <2>6, <2>7, UploadSteps DEF Progress
<1>5. CASE j.step = "syncPartial"
  <2>1. d = {"final"} /\ m \subseteq {{"final"}, {"sealed", "final"}} BY <1>5 DEF Progress
  <2>2. disk'[k] = d BY <1>5 DEF Visible
  <2>3. may'[k] = {x \ Temporary : x \in m} BY <1>5 DEF Persisted
  <2>4. {"final"} \ Temporary = {"final"} /\ {"sealed", "final"} \ Temporary = {"final"}
    BY DEF Temporary
  <2>5. may'[k] \subseteq {{"final"}} BY <2>1, <2>3, <2>4
  <2>6. disk'[k] \in may'[k] BY <2>1, <2>2, <2>3, <2>4
  <2> QED BY <1>5, <2>1, <2>2, <2>5, <2>6, UploadSteps DEF Progress
<1> QED BY <1>1, <1>2, <1>3, <1>4, <1>5 DEF Progress

\* A removal makes every name go, first from sight and then for good.
LEMMA RemovalCall ==
    ASSUME NEW k \in Keys, NEW j, NEW n, j.kind = "remove", j.key = k, Progress(j),
           n.key = k, n.kind = "remove", n.step = NextStep(j), j.step # "done",
           disk[k] \in may[k], disk[k] \subseteq Names, may[k] \subseteq SUBSET Names,
           disk'[k] = Visible(j.step, disk[k]), may'[k] = Persisted(j.step, k)
    PROVE  Progress(n)' /\ disk'[k] \in may'[k]
<1> DEFINE d == disk[k]
           m == may[k]
<1>0. \A x \in SUBSET Names : x \cap Temporary = {} => x \ {"final", "torn"} = {}
  BY DEF Names, Temporary
<1>1. CASE j.step = "unlinkPartial"
  <2>1. disk'[k] = d \ Temporary BY <1>1 DEF Visible
  <2>2. may'[k] = m \cup {Visible(j.step, x) : x \in m} BY <1>1 DEF Persisted
  <2>3. disk'[k] \in may'[k] BY <2>2
  <2> QED BY <1>1, <2>1, <2>3, RemovalSteps DEF Progress
<1>2. CASE j.step = "syncPartial"
  <2>1. d \cap Temporary = {} BY <1>2 DEF Progress
  <2>2. disk'[k] = d BY <1>2 DEF Visible
  <2>3. may'[k] = {x \ Temporary : x \in m} BY <1>2 DEF Persisted
  <2>4. \A x \in may'[k] : x \cap Temporary = {} BY <2>3
  <2>5. d = d \ Temporary BY <2>1
  <2>6. disk'[k] \in may'[k] BY <2>2, <2>3, <2>5
  <2> QED BY <1>2, <2>4, <2>6, RemovalSteps DEF Progress
<1>3. CASE j.step = "unlinkFinal"
  <2>1. \A x \in m : x \cap Temporary = {} BY <1>3 DEF Progress
  <2>2. \A x : Visible(j.step, x) = x \ {"final", "torn"} BY <1>3 DEF Visible
  <2>3. may'[k] = m \cup {Visible(j.step, x) : x \in m} BY <1>3 DEF Persisted
  <2>4. \A x \in m : Visible(j.step, x) = {} BY <1>0, <2>1, <2>2
  <2>5. \A x \in may'[k] : x \cap Temporary = {} BY <2>1, <2>3, <2>4
  <2>6. disk'[k] = {} /\ disk'[k] \in may'[k] BY <2>3, <2>4
  <2> QED BY <1>3, <2>5, <2>6, RemovalSteps DEF Progress
<1>4. CASE j.step = "syncFinal"
  <2>1. d = {} /\ \A x \in m : x \cap Temporary = {} BY <1>4 DEF Progress
  <2>2. disk'[k] = d BY <1>4 DEF Visible
  <2>3. may'[k] = {x \ {"final", "torn"} : x \in m} BY <1>4 DEF Persisted
  <2>4. \A x \in m : x \ {"final", "torn"} = {} BY <1>0, <2>1
  <2>5. may'[k] \subseteq {{}} /\ disk'[k] \in may'[k] BY <2>1, <2>2, <2>3, <2>4
  <2> QED BY <1>4, <2>1, <2>2, <2>5, RemovalSteps DEF Progress
<1> QED BY <1>1, <1>2, <1>3, <1>4 DEF Progress

\* A worker that runs is the only one on its object.
LEMMA RunningJob ==
    ASSUME BlobsInv, NEW j \in jobs
    PROVE  /\ j \in JobRecords /\ j.key \in Slots /\ j.key \in Keys
           /\ On(j.key) = {j} /\ JobSound(j.key, j)
<1>1. j \in JobRecords /\ j.key \in Slots BY DEF BlobsInv, TypeInv, JobRecords
<1>2. j \in On(j.key) BY DEF On
<1> QED BY <1>1, <1>2 DEF BlobsInv, SlotSound, Keys

LEMMA MovedJob ==
    ASSUME NEW j \in JobRecords, NEW step, NEW c \in {"no", "late", "yes"}
    PROVE  LET n == [j EXCEPT !.step = step, !.cancelled = c]
           IN /\ n.key = j.key /\ n.kind = j.kind /\ n.gen = j.gen /\ n.step = step
              /\ step \in JobSteps => n \in JobRecords
BY DEF JobRecords

LEMMA JobStepStep ==
    ASSUME BlobsInv, NEW j \in jobs, JobStep(j)
    PROVE  BlobsInv'
<1> USE DEF BlobsInv
<1> DEFINE s == j.key
           c == IF j.cancelled = "late" THEN "yes" ELSE j.cancelled
           n == [j EXCEPT !.step = NextStep(j), !.cancelled = c]
<1>j. /\ j \in JobRecords /\ s \in Slots /\ s \in Keys /\ On(s) = {j} /\ JobSound(s, j)
  BY RunningJob
<1>t. /\ disk \in [Keys -> SUBSET Names] /\ may \in [Keys -> SUBSET SUBSET Names]
      /\ jobs \subseteq JobRecords /\ rows \in [Slots -> Rows]
  BY DEF TypeInv, TypeOK, Rows
<1>u. /\ UNCHANGED <<rows, orphans, expired, pair, marker, process, phase>>
      /\ UNCHANGED <<scan, cursor, workers, undispatched, requests, rec>>
      /\ j.step # "done"
      /\ disk' = [disk EXCEPT ![s] = Visible(j.step, disk[s])]
      /\ may' = [may EXCEPT ![s] = Persisted(j.step, s)]
      /\ jobs' = (jobs \ {j}) \cup {n}
  <2>1. jobs' = (jobs \ {j}) \cup {[j EXCEPT !.step = NextStep(j),
              !.cancelled = IF @ = "late" THEN "yes" ELSE @]}
    BY DEF JobStep
  <2>2. n = [j EXCEPT !.step = NextStep(j), !.cancelled = IF @ = "late" THEN "yes" ELSE @]
    BY <1>j, MovedJob
  <2> QED BY <2>1, <2>2 DEF JobStep, durable, volatile
<1>c. c \in {"no", "late", "yes"} BY <1>j DEF JobRecords
<1> HIDE DEF c
<1>n. /\ n.key = s /\ n.kind = j.kind /\ n.gen = j.gen /\ n.step = NextStep(j)
      /\ NextStep(j) \in JobSteps => n \in JobRecords
  BY <1>j, <1>c, MovedJob
<1> HIDE DEF n
<1>1. /\ disk'[s] = Visible(j.step, disk[s]) /\ may'[s] = Persisted(j.step, s)
      /\ \A t \in Keys \ {s} : disk'[t] = disk[t] /\ may'[t] = may[t]
  BY <1>j, <1>t, <1>u
<1>2. disk'[s] \subseteq Names /\ may'[s] \subseteq SUBSET Names
  BY <1>1, <1>j, <1>t, NamesKept DEF JobRecords
<1>3. disk' \in [Keys -> SUBSET Names] /\ may' \in [Keys -> SUBSET SUBSET Names]
  BY <1>t, <1>u, <1>1, <1>2
<1>4. Progress(n)' /\ disk'[s] \in may'[s]
  <2>1. Progress(j) /\ disk[s] \in may[s]
    BY <1>j DEF SlotSound, JobSound, DiskSound
  <2>2. CASE j.kind = "upload" BY <1>j, <1>n, <1>u, <1>1, <2>1, <2>2, UploadCall
  <2>3. CASE j.kind = "remove" BY <1>j, <1>n, <1>t, <1>u, <1>1, <2>1, <2>3, RemovalCall
  <2> QED BY <1>j, <2>2, <2>3 DEF JobRecords
<1>5. n \in JobRecords
  <2>1. n.step \in JobSteps BY <1>n, <1>j, <1>4 DEF Progress, JobSteps, JobRecords
  <2> QED BY <1>n, <2>1
<1>6. TypeInv' BY <1>t, <1>u, <1>3, <1>5 DEF TypeInv, TypeOK
<1>7. PairSound' BY <1>u DEF PairSound, PairedMarkerDurable
<1>8. On(s)' = {n} /\ \A t \in Slots \ {s} : On(t)' = On(t)
  <2>1. \A i \in jobs : i.key = s => i = j BY <1>j DEF On
  <2> QED BY <1>j, <1>n, <1>u, <2>1 DEF On
<1>9. \A t \in Slots \ {s} : SameSlot(t) BY <1>u, <1>1, <1>8 DEF SameSlot, Keys
<1>10. SlotSound(s)'
  <2>1. RowSound(s)' BY <1>j, <1>u DEF SlotSound, RowSound
  <2>2. rows[s].state \in {"uploading", "deleting"} BY <1>j DEF JobSound
  <2>3. DiskSound(s)' BY <1>u, <1>4, <2>2 DEF DiskSound
  <2>4. RequestSound(s)' BY <1>j, <1>u DEF SlotSound, RequestSound
  <2>5. ~workers[s].stopped BY <1>j DEF JobSound
  <2>6. WitnessSound(s)' BY <1>j, <1>u, <2>5 DEF SlotSound, WitnessSound
  <2>7. JobSound(s, n)' BY <1>j, <1>n, <1>u, <1>4 DEF JobSound
  <2> QED BY <1>8, <2>1, <2>3, <2>4, <2>6, <2>7 DEF SlotSound
<1>11. Beside
  <2>1. \A t \in Slots : Claimable(t) \/ On(t) = {} => t # s BY <1>j DEF Claimable
  <2> QED BY <1>u, <1>8, <2>1 DEF Beside, Claimable
<1>12. PageSound' BY <1>t, <1>u, <1>11, PageKept
<1> QED BY <1>j, <1>u, <1>6, <1>7, <1>9, <1>10, <1>12, OthersKept

LEMMA JobStopStep ==
    ASSUME BlobsInv, NEW j \in jobs, JobStop(j)
    PROVE  BlobsInv'
<1> USE DEF BlobsInv
<1> DEFINE s == j.key
           failed == j.step # "done" \/ j.cancelled # "no"
<1>j. /\ j \in JobRecords /\ s \in Slots /\ s \in Keys /\ On(s) = {j} /\ JobSound(s, j)
  BY RunningJob
<1>t. /\ workers \in [Keys -> Witnesses] /\ rows \in [Slots -> Rows]
      /\ jobs \subseteq JobRecords
  BY DEF TypeInv, TypeOK, Rows
<1>u. /\ UNCHANGED <<rows, orphans, expired, disk, may, pair, marker, process, phase>>
      /\ UNCHANGED <<scan, cursor, undispatched, requests, rec>>
      /\ jobs' = jobs \ {j}
  BY DEF JobStop, durable
<1>1. /\ workers' \in [Keys -> Witnesses]
      /\ workers'[s].gen = workers[s].gen
      /\ workers'[s].stopped
      /\ ~workers'[s].failed => j.step = "done"
      /\ \A t \in Slots \ {s} : workers'[t] = workers[t]
  <2>1. workers' = [workers EXCEPT ![s].stopped = TRUE, ![s].failed = @ \/ failed]
    BY <1>j DEF JobStop, JobSound
  <2> DEFINE w == [workers[s] EXCEPT !.stopped = TRUE, !.failed = @ \/ failed]
  <2>2. /\ w \in Witnesses /\ w.gen = workers[s].gen /\ w.stopped
        /\ ~w.failed => j.step = "done"
    BY <1>t, <1>j DEF Witnesses
  <2>3. workers' = [workers EXCEPT ![s] = w] BY <1>t, <1>j, <2>1 DEF Witnesses
  <2> HIDE DEF w
  <2> QED BY <1>t, <1>j, <2>2, <2>3 DEF Keys
<1>2. TypeInv' BY <1>t, <1>u, <1>1 DEF TypeInv, TypeOK
<1>3. PairSound' BY <1>u DEF PairSound, PairedMarkerDurable
<1>4. On(s)' = {} /\ \A t \in Slots \ {s} : On(t)' = On(t)
  <2>1. \A i \in jobs : i.key = s => i = j BY <1>j DEF On
  <2> QED BY <1>j, <1>u, <2>1 DEF On
<1>5. \A t \in Slots \ {s} : SameSlot(t) BY <1>u, <1>1, <1>4 DEF SameSlot
<1>6. SlotSound(s)'
  <2>1. RowSound(s)' BY <1>j, <1>u DEF SlotSound, RowSound
  <2>2. DiskSound(s)' BY <1>j, <1>u DEF SlotSound, DiskSound, Whole, Gone
  <2>3. RequestSound(s)' BY <1>j, <1>u DEF SlotSound, RequestSound
  <2>4. WitnessSound(s)'
    <3>1. /\ undispatched[s].gen # 1 /\ workers[s].gen <= rows[s].gen
          /\ undispatched[s].stopped => undispatched[s].failed
      BY <1>j DEF SlotSound, WitnessSound
    <3>2. ASSUME ~workers'[s].failed
          PROVE  /\ rows[s].state = "uploading" => Whole(s)
                 /\ rows[s].state = "deleting" => Gone(s)
      <4>1. j.step = "done" BY <1>1, <3>2
      <4>2. Progress(j) /\ disk[s] \in may[s]
            /\ rows[s].state = (IF j.kind = "upload" THEN "uploading" ELSE "deleting")
        BY <1>j DEF JobSound, SlotSound, DiskSound
      <4>3. CASE j.kind = "upload"
        <5>1. disk[s] = {"final"} /\ may[s] \subseteq {{"final"}} BY <4>1, <4>2, <4>3 DEF Progress
        <5> QED BY <4>2, <4>3, <5>1 DEF Whole
      <4>4. CASE j.kind = "remove"
        <5>1. disk[s] = {} /\ may[s] \subseteq {{}} BY <4>1, <4>2, <4>4 DEF Progress
        <5> QED BY <4>2, <4>4, <5>1 DEF Gone
      <4> QED BY <1>j, <4>3, <4>4 DEF JobRecords
    <3> QED BY <1>u, <1>1, <3>1, <3>2 DEF WitnessSound, Whole, Gone
  <2> QED BY <1>4, <2>1, <2>2, <2>3, <2>4 DEF SlotSound
<1>7. Beside
  <2>1. \A t \in Slots : Claimable(t) \/ On(t) = {} => t # s BY <1>j DEF Claimable
  <2> QED BY <1>u, <1>1, <1>4, <2>1 DEF Beside, Claimable
<1>8. PageSound' BY <1>t, <1>u, <1>7, PageKept
<1> QED BY <1>j, <1>u, <1>2, <1>3, <1>5, <1>6, <1>8, OthersKept

-----------------------------------------------------------------------------
(* The maintenance page. *)

LEMMA EmptyPages ==
    /\ NoRec \in Pages /\ Ended(TRUE) \in Pages /\ Ended(FALSE) \in Pages
    /\ NoRec.queue = <<>> /\ NoRec.pc = "idle"
    /\ \A ok \in BOOLEAN : Ended(ok).queue = <<>> /\ Ended(ok).pc = "ended"
<1>1. <<>> \in Seq(Items) OBVIOUS
<1>2. NoRec \in Pages BY <1>1 DEF NoRec, Pages, Places
<1>3. ASSUME NEW ok \in BOOLEAN
      PROVE  Ended(ok) \in Pages /\ Ended(ok).queue = <<>> /\ Ended(ok).pc = "ended"
  BY <1>1 DEF Ended, NoRec, Pages, Places
<1> QED BY <1>2, <1>3 DEF NoRec

\* A page that is over has nothing in hand.
LEMMA PageEnds ==
    ASSUME rec'.queue = <<>>, rec'.pc \in {"idle", "batch", "ended"}
    PROVE  PageSound'
<1>1. Range(rec'.queue) = {} BY DEF Range
<1> QED BY <1>1 DEF PageSound

LEMMA NextRowSound ==
    ASSUME TypeInv, rec.queue # <<>>, NEW d \in Nat
    PROVE  /\ NextRow(d) \in Pages
           /\ NextRow(d).pc \in {"row", "ended"}
           /\ NextRow(d).pc = "row" => NextRow(d).queue # <<>>
           /\ Range(NextRow(d).queue) \subseteq Range(rec.queue)
<1> DEFINE rest == Tail(rec.queue)
<1>1. rec.queue \in Seq(Items) BY DEF TypeInv, Pages
<1>2. rest \in Seq(Items) /\ Range(rest) \subseteq Range(rec.queue)
  <2>1. rest \in Seq(Items) /\ Len(rest) = Len(rec.queue) - 1 BY <1>1
  <2>2. \A i \in 1 .. Len(rest) : i + 1 \in 1 .. Len(rec.queue) /\ rest[i] = rec.queue[i + 1]
    BY <1>1
  <2> QED BY <1>1, <2>1, <2>2 DEF Range
<1> HIDE DEF rest
<1>3. CASE rest = <<>> \/ d = MaxDeletions
  <2>1. NextRow(d) = Ended(TRUE) BY <1>3 DEF NextRow, rest
  <2>2. Range(<<>>) = {} BY DEF Range
  <2> QED BY <2>1, <2>2, EmptyPages
<1>4. CASE rest # <<>> /\ d # MaxDeletions
  <2>1. NextRow(d) = [NoRec EXCEPT !.pc = "row", !.queue = rest, !.deleted = d]
    BY <1>4 DEF NextRow, rest
  <2>2. /\ NextRow(d).pc = "row" /\ NextRow(d).queue = rest
        /\ NextRow(d) \in Pages
    BY <1>2, <2>1 DEF NoRec, Pages, Places
  <2> QED BY <1>2, <1>4, <2>2
<1> QED BY <1>3, <1>4

LEMMA InventoryStep ==
    ASSUME BlobsInv, RecInventory
    PROVE  BlobsInv'
<1>1. UNCHANGED <<rows, disk, may, workers, undispatched, requests, jobs, process>>
  BY DEF RecInventory, durable
<1>2. UNCHANGED <<orphans, expired, cursor, pair, marker, phase>>
  BY DEF RecInventory, durable
<1> DEFINE open == IF scan = <<>> THEN {k \in Keys : disk[k] # {}} ELSE scan[1]
<1>3. open \subseteq Keys BY DEF BlobsInv, TypeInv, TypeOK
<1>4. PICK batch \in SUBSET open :
        LET complete == Cardinality(batch) < InspectionPage
        IN /\ rec' = [NoRec EXCEPT !.pc = "batch", !.batch = batch, !.complete = complete]
           /\ scan' = IF complete THEN <<>> ELSE <<open \ batch>>
  BY DEF RecInventory
<1> HIDE DEF open
<1>5. rec' \in Pages /\ rec'.pc = "batch" /\ rec'.queue = <<>>
  <2> DEFINE complete == Cardinality(batch) < InspectionPage
  <2>1. batch \in SUBSET Keys /\ complete \in BOOLEAN BY <1>3
  <2>2. rec' = [NoRec EXCEPT !.pc = "batch", !.batch = batch, !.complete = complete] BY <1>4
  <2> HIDE DEF complete
  <2> QED BY <2>1, <2>2, EmptyPages DEF Pages, Places
<1>6. scan' = <<>> \/ scan'[1] \subseteq Keys BY <1>3, <1>4
<1>7. TypeInv' BY <1>1, <1>2, <1>5, <1>6 DEF BlobsInv, TypeInv, TypeOK, Pages, Places
<1>8. PairSound' BY <1>2 DEF BlobsInv, PairSound, PairedMarkerDurable
<1>9. PageSound' BY <1>5, PageEnds
<1> QED BY <1>1, <1>7, <1>8, <1>9, Quiet DEF BlobsInv

\* The rows of a page are read from the store, in a sequence.
LEMMA PageRead ==
    ASSUME BlobsInv, NEW slots \in NextSlots
    PROVE  /\ slots \in Seq(Slots) /\ Page(slots) \in Seq(Items)
           /\ slots # <<>> => Page(slots) # <<>>
           /\ \A item \in Range(Page(slots)) : item.slot \in Slots /\ ItemSound(item)
<1> DEFINE n == Min({InspectionPage, Cardinality(After)})
<1>1. After \subseteq Slots BY DEF After
<1>2. Cardinality(After) \in Nat
  BY <1>1, BlobAssumption, FS_Subset, FS_CardinalityType
<1>3. n \in Nat
  <2>1. \E x \in {InspectionPage, Cardinality(After)} :
          \A y \in {InspectionPage, Cardinality(After)} : x <= y
    BY <1>2, BlobAssumption
  <2>2. n \in {InspectionPage, Cardinality(After)} BY <2>1 DEF Min
  <2> QED BY <1>2, <2>2, BlobAssumption
<1>4. slots \in [1 .. n -> After] BY DEF NextSlots
<1> HIDE DEF n
<1>5. slots \in Seq(Slots) /\ DOMAIN slots = 1 .. n BY <1>1, <1>3, <1>4
<1>6. rows \in [Slots -> Rows] BY DEF BlobsInv, TypeInv, TypeOK, Rows
<1>7. Page(slots) = [i \in 1 .. n |->
        [slot |-> slots[i], row |-> rows[slots[i]], late |-> slots[i] \in expired]]
  BY <1>5 DEF Page
<1>8. \A i \in 1 .. n : Page(slots)[i] \in Items BY <1>1, <1>4, <1>6, <1>7 DEF Items
<1>9. Page(slots) \in Seq(Items) /\ DOMAIN Page(slots) = 1 .. n BY <1>3, <1>7, <1>8
<1>10. slots # <<>> => Page(slots) # <<>> BY <1>3, <1>4, <1>5, <1>9
<1>11. ASSUME NEW item \in Range(Page(slots)) PROVE item.slot \in Slots /\ ItemSound(item)
  <2>1. PICK i \in 1 .. n : item = Page(slots)[i] BY <1>9 DEF Range
  <2>2. item.slot = slots[i] /\ item.row = rows[slots[i]] BY <1>7, <2>1
  <2>3. slots[i] \in Slots /\ rows[slots[i]] # NoRow BY <1>4 DEF After
  <2>4. rows[slots[i]].state # "none" BY <2>3 DEF BlobsInv, SlotSound, RowSound
  <2>5. rows[slots[i]].gen \in Nat BY <1>6, <2>3 DEF Rows
  <2> QED BY <2>2, <2>3, <2>4, <2>5 DEF ItemSound
<1> QED BY <1>5, <1>9, <1>10, <1>11

LEMMA PageStep ==
    ASSUME BlobsInv, RecPage
    PROVE  BlobsInv'
<1> USE DEF BlobsInv
<1>1. UNCHANGED <<rows, disk, may, workers, undispatched, requests, jobs, process>>
  BY DEF RecPage
<1>2. UNCHANGED <<expired, scan, pair, marker, phase>> BY DEF RecPage
<1> DEFINE unknown == {k \in rec.batch : ~Known(k) /\ disk[k] # {}}
<1>3. unknown \subseteq Strays
  <2>1. rec.batch \subseteq Keys BY DEF TypeInv, Pages
  <2>2. ASSUME NEW k \in unknown, k \in Slots PROVE FALSE
    <3>1. rows[k] = NoRow /\ disk[k] # {} BY <2>2 DEF Known
    <3>2. rows[k].state = "none" BY <3>1 DEF NoRow
    <3> QED BY <2>2, <3>1, <3>2 DEF SlotSound, DiskSound, Gone
  <2> QED BY <2>1, <2>2 DEF Keys
<1>4. PICK slots \in NextSlots, outcome \in Outcomes :
        /\ orphans' = orphans \/ orphans' = orphans \cup unknown
        /\ \/ rec' = Ended(FALSE) /\ cursor' = cursor
           \/ /\ cursor' = IF Len(slots) = InspectionPage THEN Last(slots) ELSE 0
              /\ rec' = IF slots = <<>> THEN Ended(TRUE)
                        ELSE [NoRec EXCEPT !.pc = "row", !.queue = Page(slots)]
  BY DEF RecPage
<1> HIDE DEF unknown
<1>5. orphans' \subseteq Strays BY <1>3, <1>4 DEF TypeInv, TypeOK
<1>6. cursor' \in {0} \cup Slots
  <2>1. slots \in Seq(Slots) BY PageRead
  <2>2. Len(slots) = InspectionPage => Last(slots) \in Slots
    BY <2>1, BlobAssumption DEF Last
  <2> QED BY <1>4, <2>2 DEF TypeInv, TypeOK
<1>7. /\ rec' \in Pages
      /\ \/ rec'.queue = <<>> /\ rec'.pc = "ended"
         \/ rec'.queue = Page(slots) /\ rec'.pc = "row" /\ slots # <<>>
  <2>1. CASE rec' = Ended(FALSE) \/ rec' = Ended(TRUE) BY <2>1, EmptyPages
  <2>2. CASE slots # <<>> /\ rec' = [NoRec EXCEPT !.pc = "row", !.queue = Page(slots)]
    <3>1. Page(slots) \in Seq(Items) BY PageRead
    <3> QED BY <2>2, <3>1 DEF NoRec, Pages, Places
  <2> QED BY <1>4, <2>1, <2>2
<1>8. TypeInv' BY <1>1, <1>2, <1>5, <1>6, <1>7 DEF TypeInv, TypeOK, Pages, Places
<1>9. PairSound' BY <1>2 DEF PairSound, PairedMarkerDurable
<1>10. PageSound'
  <2>1. CASE rec'.queue = <<>> /\ rec'.pc = "ended" BY <2>1, PageEnds
  <2>2. CASE rec'.queue = Page(slots) /\ rec'.pc = "row" /\ slots # <<>>
    <3>1. Page(slots) # <<>> /\ \A item \in Range(Page(slots)) : ItemSound(item)
      BY <2>2, PageRead
    <3>2. \A item \in Range(Page(slots)) : ItemSound(item)' BY <1>1, <3>1 DEF ItemSound
    <3> QED BY <2>2, <3>1, <3>2 DEF PageSound, InHand
  <2> QED BY <1>7, <2>1, <2>2
<1> QED BY <1>1, <1>8, <1>9, <1>10, Quiet


\* The row that a page holds is one of the rows it read.
LEMMA HeldRow ==
    ASSUME BlobsInv, rec.pc \in {"row", "claim", "dispatch", "remove"}
    PROVE  /\ rec.queue # <<>> /\ Item \in Items /\ Item \in Range(rec.queue)
           /\ Item.slot \in Slots /\ Item.slot \in Keys /\ Item.row \in Rows
           /\ Item.row.gen \in Nat /\ rows[Item.slot].gen \in Nat
           /\ ItemSound(Item) /\ InHand(Item) /\ SlotSound(Item.slot)
<1>1. rec.queue # <<>> BY DEF BlobsInv, PageSound
<1>2. /\ Item \in Items /\ Item \in Range(rec.queue)
      /\ Item.slot \in Slots /\ Item.row \in Rows
  BY <1>1, CurrentItem DEF BlobsInv
<1>3. rows[Item.slot] \in Rows BY <1>2 DEF BlobsInv, TypeInv, TypeOK, Rows
<1> QED BY <1>1, <1>2, <1>3 DEF BlobsInv, PageSound, Keys, Rows

\* A proof of the row's generation: its object is nobody's.
LEMMA ProofOfRow ==
    ASSUME BlobsInv, NEW s \in Slots, Stopped(s, rows[s].gen) # NoWitness
    PROVE  /\ On(s) = {} /\ requests[s] # "prepared"
           /\ Stopped(s, rows[s].gen) \in Witnesses
           /\ Stopped(s, rows[s].gen).gen = rows[s].gen
           /\ \/ Stopped(s, rows[s].gen) = workers[s]
              \/ Stopped(s, rows[s].gen).failed
<1> USE DEF BlobsInv
<1>t. workers[s] \in Witnesses /\ undispatched[s] \in Witnesses
  BY DEF TypeInv, TypeOK, Keys
<1>1. CASE Proof(workers[s], rows[s].gen)
  <2>1. Stopped(s, rows[s].gen) = workers[s] BY <1>1 DEF Stopped
  <2>2. workers[s].gen = rows[s].gen /\ workers[s].stopped BY <1>1 DEF Proof
  <2>3. requests[s] # "prepared" BY <2>2 DEF SlotSound, RequestSound
  <2> QED BY <1>t, <2>1, <2>2, <2>3, ProvenIdle
<1>2. CASE ~Proof(workers[s], rows[s].gen) /\ Proof(undispatched[s], rows[s].gen)
  <2>1. Stopped(s, rows[s].gen) = undispatched[s] BY <1>2 DEF Stopped
  <2>2. undispatched[s].gen = rows[s].gen /\ undispatched[s].stopped BY <1>2 DEF Proof
  <2>3. undispatched[s].gen # 1 /\ undispatched[s].failed
    BY <2>2 DEF SlotSound, WitnessSound
  <2>4. requests[s] # "prepared" BY <2>2, <2>3 DEF SlotSound, RequestSound, RowSound
  <2> QED BY <1>t, <2>1, <2>2, <2>3, <2>4, ProvenIdle
<1>3. CASE ~Proof(workers[s], rows[s].gen) /\ ~Proof(undispatched[s], rows[s].gen)
  BY <1>3 DEF Stopped
<1> QED BY <1>1, <1>2, <1>3

\* The plan claims a row only when nobody writes its object, or will.
LEMMA PlannedClaim ==
    ASSUME BlobsInv, rec.pc = "row", Plan(Item) \in Claims,
           rows[Item.slot].gen = Item.row.gen
    PROVE  Claimable(Item.slot)
<1> DEFINE s == Item.slot
           r == Item.row
<1>1. s \in Slots /\ SlotSound(s) /\ rows[s] = r BY HeldRow DEF ItemSound
<1>2. requests[s] = "prepared" => r.state = "uploading" /\ r.process = process
  BY <1>1 DEF SlotSound, RequestSound
<1>3. ASSUME r.process # process PROVE On(s) = {} /\ requests[s] # "prepared"
  BY <1>1, <1>2, <1>3 DEF SlotSound, JobSound
<1>4. CASE r.state = "uploading"
  <2>1. \/ Prior(r)
        \/ Stopped(s, r.gen) # NoWitness
    BY <1>4 DEF Plan, Claims
  <2> QED BY <1>1, <1>3, <1>4, <2>1, ProofOfRow DEF Claimable, Prior
<1>5. CASE r.state = "deleting"
  <2>1. \/ Prior(r)
        \/ Stopped(s, r.gen) # NoWitness
    BY <1>5 DEF Plan, Claims
  <2> QED BY <1>1, <1>3, <1>5, <2>1, ProofOfRow DEF Claimable, Prior
<1>6. CASE r.state \in {"staged", "unreferenced"}
  <2>1. On(s) = {} BY <1>1, <1>6, NoJobs
  <2> QED BY <1>1, <1>2, <1>6, <2>1 DEF Claimable
<1>7. CASE r.state = "attached" BY <1>7 DEF Plan, Claims
<1>8. CASE r.state = "deleted" BY <1>8 DEF Plan, Claims
<1>9. r.state \in States \ {"none"} BY HeldRow DEF ItemSound, Rows
<1> QED BY <1>4, <1>5, <1>6, <1>7, <1>8, <1>9 DEF States

LEMMA PlanStep ==
    ASSUME BlobsInv, RecPlan, NEW s \in Slots, s = Item.slot
    PROVE  BlobsInv'
<1> USE DEF BlobsInv
<1> DEFINE kind == Plan(Item)
<1>u. /\ UNCHANGED <<rows, orphans, expired, disk, may, pair, marker, process, phase>>
      /\ UNCHANGED <<scan, cursor, requests>> /\ rec.pc = "row"
  BY DEF RecPlan, durable
<1>h. /\ rec.queue # <<>> /\ Item \in Items /\ Item \in Range(rec.queue) /\ s \in Slots
      /\ s \in Keys /\ ItemSound(Item) /\ SlotSound(s) /\ Item.row.state \in States
  BY <1>u, HeldRow DEF Rows
<1>t. /\ workers \in [Keys -> Witnesses] /\ undispatched \in [Keys -> Witnesses]
      /\ rows' \in [Slots -> Rows] /\ rec \in Pages
  BY <1>u DEF TypeInv, TypeOK, Rows
\* A released object is gone: there is never anything to clean.
<1>1. /\ kind = "tombstone" => rows[s].state = "deleted"
      /\ kind # "clean"
  <2>1. CASE Item.row.state = "deleted"
    <3>1. rows[s].state = "deleted" BY <1>h, <2>1 DEF ItemSound
    <3>2. disk[s] = {} BY <1>h, <3>1 DEF SlotSound, DiskSound, Gone
    <3> QED BY <2>1, <3>1, <3>2 DEF Plan
  <2>2. CASE Item.row.state # "deleted"
    <3>1. /\ Item.row.state = "uploading" => kind \in {"recoverUpload", "claimStopped", "retain"}
          /\ Item.row.state = "staged" => kind \in {"claim", "retain", "missing", "mismatch"}
          /\ Item.row.state = "attached" => kind \in {"retain", "missing", "mismatch"}
          /\ Item.row.state = "unreferenced" => kind = "claim"
          /\ Item.row.state = "deleting" => kind \in {"recoverDeletion", "resume", "retain"}
      BY DEF Plan
    <3>2. Item.row.state \in {"uploading", "staged", "attached", "unreferenced", "deleting"}
      BY <1>h, <2>2 DEF ItemSound, States
    <3>3. kind \in {"recoverUpload", "claimStopped", "retain", "claim", "missing", "mismatch",
                    "recoverDeletion", "resume"}
      BY <3>1, <3>2
    <3> QED BY <3>3
  <2> QED BY <2>1, <2>2
<1>v. /\ workers' = IF kind = "tombstone" THEN [workers EXCEPT ![s] = NoWitness] ELSE workers
      /\ undispatched' = IF kind = "tombstone" THEN [undispatched EXCEPT ![s] = NoWitness]
                         ELSE undispatched
      /\ jobs' = jobs
      /\ rec' = IF kind \in Claims THEN [rec EXCEPT !.pc = "claim", !.kind = kind]
                ELSE NextRow(rec.deleted)
  <2>1. rec.deleted + 0 = rec.deleted BY <1>t DEF Pages
  <2> QED BY <1>1, <2>1 DEF RecPlan
<1> HIDE DEF kind
<1>2. NoWitness \in Witnesses /\ NoWitness.gen = 0 /\ ~NoWitness.stopped
  BY DEF NoWitness, Witnesses
<1>3. /\ workers' \in [Keys -> Witnesses] /\ undispatched' \in [Keys -> Witnesses]
      /\ \A t \in Slots \ {s} : workers'[t] = workers[t] /\ undispatched'[t] = undispatched[t]
      /\ kind = "tombstone" => workers'[s] = NoWitness /\ undispatched'[s] = NoWitness
      /\ kind # "tombstone" => workers'[s] = workers[s] /\ undispatched'[s] = undispatched[s]
  BY <1>h, <1>t, <1>v, <1>2 DEF Keys
<1>4. CASE kind \in Claims
  <2>1. rec' = [rec EXCEPT !.pc = "claim", !.kind = kind] BY <1>v, <1>4
  <2>2. /\ rec' \in Pages /\ rec'.pc = "claim" /\ rec'.queue = rec.queue
    BY <1>t, <1>4, <2>1 DEF Pages, Places
  <2>3. kind # "tombstone" BY <1>4 DEF Claims
  <2>4. UNCHANGED <<workers, undispatched, jobs>> BY <1>v, <2>3
  <2>5. TypeInv' BY <1>u, <2>2, <2>4 DEF TypeInv, TypeOK, Places
  <2>6. \A item \in Range(rec.queue) : ItemSound(item)' BY <1>u DEF PageSound, ItemSound
  <2>7. rows[s].gen = Item.row.gen => Claimable(s)
    BY <1>u, <1>4, PlannedClaim DEF kind
  <2>8. (rows[s].gen = Item.row.gen => Claimable(s))'
    BY <1>u, <2>2, <2>4, <2>7 DEF Claimable, On, Item
  <2>9. InHand(Item)'
    <3>1. Item' = Item BY <2>2 DEF Item
    <3> QED BY <2>2, <2>8, <3>1 DEF InHand, Claimable, On
  <2>10. PageSound' BY <1>h, <2>2, <2>6, <2>9 DEF PageSound, Item
  <2>11. PairSound' BY <1>u DEF PairSound, PairedMarkerDurable
  <2> QED BY <1>u, <2>4, <2>5, <2>10, <2>11, Quiet
<1>5. CASE kind \notin Claims
  <2>1. rec' = NextRow(rec.deleted) /\ rec.deleted \in Nat BY <1>t, <1>v, <1>5 DEF Pages
  <2>2. /\ rec' \in Pages /\ rec'.pc \in {"row", "ended"}
        /\ rec'.pc = "row" => rec'.queue # <<>>
        /\ Range(rec'.queue) \subseteq Range(rec.queue)
    BY <1>h, <2>1, NextRowSound
  <2>3. TypeInv' BY <1>u, <1>v, <1>3, <2>2 DEF TypeInv, TypeOK, Pages, Places
  <2>4. Advance BY <1>u DEF Advance
  <2>5. PageSound' BY <1>t, <2>2, <2>4, PageGoesOn
  <2>6. PairSound' BY <1>u DEF PairSound, PairedMarkerDurable
  <2>7. \A t \in Slots \ {s} : SameSlot(t) BY <1>u, <1>v, <1>3 DEF SameSlot, On
  <2>8. SlotSound(s)'
    <3>1. CASE kind = "tombstone"
      <4>1. rows[s].state = "deleted" BY <1>1, <3>1
      <4>2. rows[s].gen \in Nat /\ rows[s].gen >= 2
        BY <1>h, <4>1 DEF TypeInv, TypeOK, SlotSound, RowSound
      <4>3. On(s)' = {} BY <1>h, <1>v, <4>1, NoJobs DEF On
      <4>4. RowSound(s)' BY <1>h, <1>u DEF SlotSound, RowSound
      <4>5. DiskSound(s)' BY <1>h, <1>u DEF SlotSound, DiskSound, Whole, Gone
      <4>6. RequestSound(s)' BY <1>h, <1>u, <4>1 DEF SlotSound, RequestSound
      <4>7. WitnessSound(s)' BY <1>u, <1>2, <1>3, <3>1, <4>2 DEF WitnessSound
      <4> QED BY <4>3, <4>4, <4>5, <4>6, <4>7 DEF SlotSound
    <3>2. CASE kind # "tombstone"
      <4>1. SameSlot(s) BY <1>u, <1>v, <1>3, <3>2 DEF SameSlot, On
      <4> QED BY <1>h, <1>u, <4>1, SlotKept
    <3> QED BY <3>1, <3>2
  <2> QED BY <1>h, <1>u, <2>3, <2>5, <2>6, <2>7, <2>8, OthersKept
<1> QED BY <1>4, <1>5


\* The page goes on to the next row after a step that changed no slot.
LEMMA SkipStep ==
    ASSUME BlobsInv, rec.pc \in {"row", "claim", "dispatch", "remove"}, NEW d \in Nat,
           rec' = NextRow(d),
           UNCHANGED <<rows, disk, may, workers, undispatched, requests, jobs, process>>,
           UNCHANGED <<orphans, expired, scan, cursor, pair, marker, phase>>
    PROVE  BlobsInv'
<1> USE DEF BlobsInv
<1>1. /\ rec' \in Pages /\ rec'.pc \in {"row", "ended"}
      /\ rec'.pc = "row" => rec'.queue # <<>>
      /\ Range(rec'.queue) \subseteq Range(rec.queue)
  BY HeldRow, NextRowSound
<1>2. TypeInv' BY <1>1 DEF TypeInv, TypeOK, Pages, Places
<1>3. rows' \in [Slots -> Rows] /\ Advance BY DEF TypeInv, TypeOK, Rows, Advance
<1>4. PageSound' BY <1>1, <1>3, PageGoesOn
<1>5. PairSound' BY DEF PairSound, PairedMarkerDurable
<1> QED BY <1>2, <1>4, <1>5, Quiet

LEMMA ClaimStep ==
    ASSUME BlobsInv, RecClaim, NEW s \in Slots, s = Item.slot
    PROVE  BlobsInv'
<1> USE DEF BlobsInv
<1> DEFINE r == rows[s]
           proof == Stopped(s, r.gen)
<1>u. /\ UNCHANGED <<orphans, expired, disk, may, pair, marker, process, phase>>
      /\ UNCHANGED <<scan, cursor, requests, jobs>> /\ rec.pc = "claim"
  BY DEF RecClaim
<1>h. /\ Item \in Range(rec.queue) /\ rec.queue # <<>> /\ s \in Keys /\ r.gen \in Nat
      /\ ItemSound(Item) /\ InHand(Item) /\ SlotSound(s)
  BY <1>u, HeldRow
<1>t. /\ workers \in [Keys -> Witnesses] /\ undispatched \in [Keys -> Witnesses]
      /\ rows \in [Slots -> Rows] /\ rec \in Pages /\ process \in Nat
  BY DEF TypeInv, TypeOK, Rows
<1>1. CASE r.gen # Item.row.gen \/ r.state # Item.row.state
  <2>1. rec' = NextRow(rec.deleted) /\ UNCHANGED <<rows, workers, undispatched>>
    BY <1>1 DEF RecClaim
  <2>2. rec.deleted \in Nat BY <1>t DEF Pages
  <2> QED BY <1>u, <2>1, <2>2, SkipStep
<1>2. CASE r.gen = Item.row.gen /\ r.state = Item.row.state
  <2>1. PICK outcome \in {"acked", "applied", "lost"} :
          /\ rows' = IF outcome = "lost" THEN rows ELSE [rows EXCEPT ![s] = ClaimedRow(r)]
          /\ workers' = IF proof # NoWitness THEN [workers EXCEPT ![s] = proof] ELSE workers
          /\ undispatched' = [undispatched EXCEPT ![s] =
                IF outcome = "acked" THEN Witness(r.gen + 1) ELSE Unstarted(r.gen + 1)]
          /\ rec' = IF outcome = "acked" THEN [rec EXCEPT !.pc = "dispatch"] ELSE Ended(FALSE)
    BY <1>2 DEF RecClaim, Armed, Outcomes
  <2>2. Claimable(s) BY <1>u, <1>h, <1>2 DEF InHand
  <2>3. r \in Rows /\ RowOK(r) /\ r.gen >= 1
    <3>1. r.gen = 1 \/ r.gen >= 2 BY <1>h, <2>2 DEF SlotSound, RowSound, Claimable
    <3> QED BY <1>t, <1>h, <3>1, StoredRows
  <2>4. proof # NoWitness =>
          proof \in Witnesses /\ proof.gen = r.gen /\ (proof = workers[s] \/ proof.failed)
    BY ProofOfRow
  <2> HIDE DEF proof
  <2> DEFINE w == IF outcome = "acked" THEN Witness(r.gen + 1) ELSE Unstarted(r.gen + 1)
  <2>5. w \in Witnesses /\ w.gen = r.gen + 1 /\ (w.stopped => w.failed)
    BY <1>h DEF Witness, Unstarted, Witnesses
  <2>6. /\ workers' \in [Keys -> Witnesses] /\ undispatched' \in [Keys -> Witnesses]
        /\ \A t \in Slots \ {s} : workers'[t] = workers[t] /\ undispatched'[t] = undispatched[t]
        /\ undispatched'[s] = w
        /\ \/ workers'[s] = workers[s]
           \/ workers'[s].gen = r.gen /\ workers'[s].failed
    <3>1. undispatched' = [undispatched EXCEPT ![s] = w] BY <2>1
    <3> HIDE DEF w
    <3>2. /\ undispatched' \in [Keys -> Witnesses] /\ undispatched'[s] = w
          /\ \A t \in Slots \ {s} : undispatched'[t] = undispatched[t]
      BY <1>h, <1>t, <2>5, <3>1 DEF Keys
    <3>3. CASE proof # NoWitness
      <4>1. workers' = [workers EXCEPT ![s] = proof] /\ proof \in Witnesses
        BY <2>1, <2>4, <3>3
      <4>2. /\ workers' \in [Keys -> Witnesses] /\ workers'[s] = proof
            /\ \A t \in Slots \ {s} : workers'[t] = workers[t]
        BY <1>h, <1>t, <4>1 DEF Keys
      <4> QED BY <2>4, <3>2, <3>3, <4>2
    <3>4. CASE proof = NoWitness
      <4>1. workers' = workers BY <2>1, <3>4
      <4> QED BY <1>t, <3>2, <4>1
    <3> QED BY <3>3, <3>4
  <2> HIDE DEF w
  <2>7. /\ RowOK(ClaimedRow(r)) /\ ClaimedRow(r).state = "deleting"
        /\ ClaimedRow(r).gen = r.gen + 1 /\ ClaimedRow(r).process = process
    BY <1>t, <2>2, <2>3, ClaimedRowOK DEF Claimable
  <2>8. /\ rows' \in [Slots -> Rows]
        /\ \A t \in Slots \ {s} : rows'[t] = rows[t]
        /\ \A t \in Slots : rows'[t] = NoRow \/ Parsed(rows'[t])
        /\ IF outcome = "lost" THEN rows'[s] = r ELSE rows'[s] = ClaimedRow(r)
    <3>1. CASE outcome = "lost" BY <1>t, <2>1, <3>1 DEF TypeInv, TypeOK
    <3>2. CASE outcome # "lost"
      <4>1. rows' = [rows EXCEPT ![s] = ClaimedRow(r)] BY <2>1, <3>2
      <4> QED BY <2>7, <3>2, <4>1, RowStored
    <3> QED BY <3>1, <3>2
  <2>9. /\ rec' \in Pages
        /\ \/ rec'.queue = <<>> /\ rec'.pc = "ended"
           \/ rec'.queue = rec.queue /\ rec'.pc = "dispatch" /\ outcome = "acked"
    <3>1. CASE outcome = "acked" BY <1>t, <2>1, <3>1 DEF Pages, Places
    <3>2. CASE outcome # "acked" BY <2>1, <3>2, EmptyPages
    <3> QED BY <3>1, <3>2
  <2>10. TypeInv'
    BY <1>u, <2>6, <2>8, <2>9 DEF TypeInv, TypeOK, Rows, Pages, Places
  <2>11. PairSound' BY <1>u DEF PairSound, PairedMarkerDurable
  <2>12. \A t \in Slots \ {s} : SameSlot(t) BY <1>u, <2>6, <2>8 DEF SameSlot, On
  <2>13. On(s)' = {} BY <1>u, <2>2 DEF Claimable, On
  <2>14. SlotSound(s)'
    <3>1. RowSound(s)' BY <1>h, <1>t, <1>u, <2>3, <2>7, <2>8 DEF SlotSound, RowSound
    <3>2. DiskSound(s)' BY <1>h, <1>u, <2>7, <2>8 DEF SlotSound, DiskSound, Whole, Gone
    <3>3. RequestSound(s)'
      <4>1. requests[s] # "prepared" BY <2>2 DEF Claimable
      <4>2. rows'[s].state # "none" BY <2>2, <2>7, <2>8 DEF Claimable
      <4> QED BY <1>u, <4>1, <4>2 DEF RequestSound
    <3>4. WitnessSound(s)'
      <4>1. workers[s].gen \in Nat BY <1>h, <1>t DEF Witnesses
      <4>2. undispatched'[s].gen # 1 /\ (undispatched'[s].stopped => undispatched'[s].failed)
        BY <1>h, <2>3, <2>5, <2>6
      <4>3. workers'[s].gen <= r.gen
        BY <1>h, <2>6 DEF SlotSound, WitnessSound
      <4>4. CASE outcome = "lost"
        BY <1>h, <1>u, <2>6, <2>8, <4>2, <4>3, <4>4 DEF SlotSound, WitnessSound, Whole, Gone
      <4>5. CASE outcome # "lost"
        <5>1. workers'[s].gen \in Nat BY <1>h, <2>6 DEF Witnesses
        <5>2. workers'[s].gen <= rows'[s].gen /\ workers'[s].gen # rows'[s].gen
          BY <1>h, <2>7, <2>8, <4>3, <4>5, <5>1
        <5> QED BY <4>2, <5>2 DEF WitnessSound
      <4> QED BY <4>4, <4>5
    <3> QED BY <2>13, <3>1, <3>2, <3>3, <3>4 DEF SlotSound
  <2>15. PageSound'
    <3>1. CASE rec'.pc = "ended" BY <2>9, <3>1, PageEnds
    <3>2. CASE rec'.pc = "dispatch"
      <4>1. rec'.queue = rec.queue /\ Item' = Item BY <2>9, <3>2 DEF Item
      <4>2. Advance
        <5>1. \/ rows'[s] = rows[s]
              \/ rows[s].state # "deleted" /\ rows'[s].gen > rows[s].gen
          <6>1. CASE outcome = "lost" BY <2>8, <6>1
          <6>2. CASE outcome # "lost"
            <7>1. rows'[s].gen = r.gen + 1 BY <2>7, <2>8, <6>2
            <7> QED BY <1>h, <2>2, <7>1 DEF Claimable
          <6> QED BY <6>1, <6>2
        <5> QED BY <2>8, <5>1 DEF Advance
      <4>3. \A item \in Range(rec.queue) : ItemSound(item)' BY <2>8, <4>2, ItemsKept
      <4>4. /\ rows'[s].state = "deleting" /\ rows'[s].gen = Item.row.gen + 1
            /\ rows'[s].process = process'
        BY <1>u, <1>2, <2>7, <2>8, <2>9, <3>2
      <4>5. InHand(Item)' BY <2>13, <3>2, <4>1, <4>4 DEF InHand, On
      <4> QED BY <1>h, <3>2, <4>1, <4>3, <4>5 DEF PageSound
    <3> QED BY <2>9, <3>1, <3>2
  <2> QED BY <1>u, <2>10, <2>11, <2>12, <2>14, <2>15, OthersKept
<1> QED BY <1>1, <1>2


LEMMA RemoveStep ==
    ASSUME BlobsInv, RecDispatch, NEW s \in Slots, s = Item.slot
    PROVE  BlobsInv'
<1> USE DEF BlobsInv
<1>u. /\ UNCHANGED <<rows, orphans, expired, disk, may, pair, marker, process, phase>>
      /\ UNCHANGED <<scan, cursor, requests>> /\ rec.pc = "dispatch"
      /\ jobs' = jobs \cup {Job(s, "remove", ClaimGen, "unlinkPartial")}
      /\ workers' = [workers EXCEPT ![s] = Witness(ClaimGen)]
      /\ undispatched' = [undispatched EXCEPT ![s] = NoWitness]
      /\ rec' = [rec EXCEPT !.pc = "remove"]
  BY DEF RecDispatch, durable
<1>h. /\ Item \in Range(rec.queue) /\ rec.queue # <<>> /\ s \in Keys
      /\ rows[s].gen \in Nat /\ ClaimGen \in Nat
      /\ ItemSound(Item) /\ InHand(Item) /\ SlotSound(s)
  BY <1>u, HeldRow DEF ClaimGen
<1>t. /\ workers \in [Keys -> Witnesses] /\ undispatched \in [Keys -> Witnesses]
      /\ rows \in [Slots -> Rows] /\ rec \in Pages /\ jobs \subseteq JobRecords
  BY DEF TypeInv, TypeOK, Rows
<1>1. /\ rows[s].state = "deleting" /\ rows[s].gen = ClaimGen
      /\ rows[s].process = process /\ On(s) = {}
  BY <1>u, <1>h DEF InHand, ClaimGen
<1>2. PICK j \in JobRecords :
        /\ j.key = s /\ j.kind = "remove" /\ j.gen = ClaimGen /\ j.step = "unlinkPartial"
        /\ jobs' = jobs \cup {j}
  BY <1>h, <1>u DEF Job, JobRecords, JobSteps
<1>3. /\ NoWitness \in Witnesses /\ NoWitness.gen = 0 /\ ~NoWitness.stopped
      /\ Witness(ClaimGen) \in Witnesses /\ Witness(ClaimGen).gen = ClaimGen
      /\ ~Witness(ClaimGen).stopped
  BY <1>h DEF NoWitness, Witness, Witnesses
<1>4. /\ workers' \in [Keys -> Witnesses] /\ undispatched' \in [Keys -> Witnesses]
      /\ \A t \in Slots \ {s} : workers'[t] = workers[t] /\ undispatched'[t] = undispatched[t]
      /\ workers'[s] = Witness(ClaimGen) /\ undispatched'[s] = NoWitness
  BY <1>h, <1>t, <1>u, <1>3 DEF Keys
<1>5. rec' \in Pages /\ rec'.pc = "remove" /\ rec'.queue = rec.queue
  BY <1>t, <1>u DEF Pages, Places
<1>6. TypeInv' BY <1>t, <1>u, <1>2, <1>4, <1>5 DEF TypeInv, TypeOK, Places
<1>7. PairSound' BY <1>u DEF PairSound, PairedMarkerDurable
<1>8. On(s)' = {j} /\ \A t \in Slots \ {s} : On(t)' = On(t)
  BY <1>u, <1>1, <1>2 DEF On
<1>9. \A t \in Slots \ {s} : SameSlot(t) BY <1>u, <1>4, <1>8 DEF SameSlot
<1>10. SlotSound(s)'
  <2>1. RowSound(s)' BY <1>h, <1>u DEF SlotSound, RowSound
  <2>2. DiskSound(s)' BY <1>h, <1>u DEF SlotSound, DiskSound, Whole, Gone
  <2>3. RequestSound(s)' BY <1>h, <1>u, <1>1 DEF SlotSound, RequestSound
  <2>4. rows[s].gen >= 2 BY <1>h, <1>1 DEF SlotSound, RowSound
  <2>5. WitnessSound(s)' BY <1>h, <1>u, <1>1, <1>3, <1>4 DEF WitnessSound
  <2>6. Progress(j)' BY <1>2 DEF Progress
  <2>7. JobSound(s, j)'
    BY <1>h, <1>u, <1>1, <1>2, <1>3, <1>4, <2>4, <2>6 DEF JobSound
  <2> QED BY <1>8, <2>1, <2>2, <2>3, <2>5, <2>7 DEF SlotSound
<1>11. PageSound'
  <2>1. \A item \in Range(rec.queue) : ItemSound(item)' BY <1>u DEF PageSound, ItemSound
  <2>2. Item' = Item BY <1>5 DEF Item
  <2>3. InHand(Item)' BY <1>u, <1>1, <1>3, <1>4, <1>5, <2>2 DEF InHand, ClaimGen
  <2> QED BY <1>h, <1>5, <2>1, <2>2, <2>3 DEF PageSound
<1> QED BY <1>u, <1>6, <1>7, <1>9, <1>10, <1>11, OthersKept

LEMMA DeletedStep ==
    ASSUME BlobsInv, RecDeleted, NEW s \in Slots, s = Item.slot
    PROVE  BlobsInv'
<1> USE DEF BlobsInv
<1>u. /\ UNCHANGED <<orphans, expired, disk, may, pair, marker, process, phase>>
      /\ UNCHANGED <<scan, cursor, undispatched, jobs, requests>> /\ rec.pc = "remove"
      /\ workers[s].gen = rows[s].gen /\ workers[s].stopped /\ ~workers[s].failed
      /\ rows[s].state = "deleting"
  BY DEF RecDeleted
<1>h. /\ rec.queue # <<>> /\ s \in Keys /\ rows[s].gen \in Nat /\ SlotSound(s)
  BY <1>u, HeldRow
<1>t. /\ workers \in [Keys -> Witnesses] /\ rows \in [Slots -> Rows]
      /\ rec \in Pages /\ rec.deleted + 1 \in Nat
  BY DEF TypeInv, TypeOK, Rows, Pages
<1>r. PICK outcome \in {"acked", "applied", "lost"} :
        /\ rows' = IF outcome = "lost" THEN rows
                   ELSE [rows EXCEPT ![s] = DeletedRow(rows[s])]
        /\ workers' = IF outcome = "acked" THEN [workers EXCEPT ![s] = NoWitness] ELSE workers
        /\ rec' = IF outcome = "acked" THEN NextRow(rec.deleted + 1) ELSE Ended(FALSE)
  BY DEF RecDeleted, Outcomes
\* The removal has made its last call.
<1>1. Gone(s) /\ On(s) = {} BY <1>u, <1>h, ProvenIdle DEF SlotSound, WitnessSound
<1>2. /\ RowOK(DeletedRow(rows[s])) /\ DeletedRow(rows[s]).state = "deleted"
      /\ DeletedRow(rows[s]).gen = rows[s].gen + 1
      /\ DeletedRow(rows[s]).process = rows[s].process
  BY <1>t, DeletedRowOK
<1>3. /\ rows' \in [Slots -> Rows]
      /\ \A t \in Slots \ {s} : rows'[t] = rows[t]
      /\ \A t \in Slots : rows'[t] = NoRow \/ Parsed(rows'[t])
      /\ IF outcome = "lost" THEN rows'[s] = rows[s] ELSE rows'[s] = DeletedRow(rows[s])
  <2>1. CASE outcome = "lost" BY <1>t, <1>r, <2>1 DEF TypeInv, TypeOK
  <2>2. CASE outcome # "lost"
    <3>1. rows' = [rows EXCEPT ![s] = DeletedRow(rows[s])] BY <1>r, <2>2
    <3> QED BY <1>2, <2>2, <3>1, RowStored
  <2> QED BY <2>1, <2>2
<1>4. NoWitness \in Witnesses /\ NoWitness.gen = 0 /\ ~NoWitness.stopped
  BY DEF NoWitness, Witnesses
<1>5. /\ workers' \in [Keys -> Witnesses]
      /\ \A t \in Slots \ {s} : workers'[t] = workers[t]
      /\ \/ workers'[s] = workers[s]
         \/ workers'[s] = NoWitness /\ outcome = "acked"
  <2>1. CASE outcome = "acked"
    <3>1. workers' = [workers EXCEPT ![s] = NoWitness] BY <1>r, <2>1
    <3>2. workers' \in [Keys -> Witnesses] /\ workers'[s] = NoWitness
          /\ \A t \in Slots \ {s} : workers'[t] = workers[t]
      BY <1>h, <1>t, <1>4, <3>1 DEF Keys
    <3> QED BY <2>1, <3>2
  <2>2. CASE outcome # "acked"
    <3>1. workers' = workers BY <1>r, <2>2
    <3> QED BY <1>t, <3>1
  <2> QED BY <2>1, <2>2
<1>6. /\ rec' \in Pages /\ rec'.pc \in {"row", "ended"}
      /\ rec'.pc = "row" => rec'.queue # <<>>
      /\ Range(rec'.queue) \subseteq Range(rec.queue)
  <2>1. CASE outcome = "acked" BY <1>h, <1>r, <1>t, <2>1, NextRowSound
  <2>2. CASE outcome # "acked"
    <3>1. Range(<<>>) = {} BY DEF Range
    <3> QED BY <1>r, <2>2, <3>1, EmptyPages
  <2> QED BY <2>1, <2>2
<1>7. TypeInv' BY <1>u, <1>3, <1>5, <1>6 DEF TypeInv, TypeOK, Rows, Pages, Places
<1>8. PairSound' BY <1>u DEF PairSound, PairedMarkerDurable
<1>9. \A t \in Slots \ {s} : SameSlot(t) BY <1>u, <1>3, <1>5 DEF SameSlot, On
<1>10. On(s)' = {} BY <1>u, <1>1 DEF On
<1>11. SlotSound(s)'
  <2>1. rows[s].gen >= 2 BY <1>h, <1>u DEF SlotSound, RowSound
  <2>2. RowSound(s)' BY <1>h, <1>u, <1>2, <1>3, <2>1 DEF SlotSound, RowSound
  <2>3. DiskSound(s)' BY <1>h, <1>u, <1>1, <1>2, <1>3 DEF SlotSound, DiskSound, Gone
  <2>4. RequestSound(s)' BY <1>h, <1>u, <1>2, <1>3 DEF SlotSound, RequestSound
  <2>5. WitnessSound(s)'
    <3>1. /\ undispatched[s].gen # 1 /\ (undispatched[s].stopped => undispatched[s].failed)
          /\ workers'[s].gen = rows[s].gen \/ workers'[s].gen = 0
      BY <1>h, <1>u, <1>4, <1>5 DEF SlotSound, WitnessSound
    <3>2. CASE outcome = "lost"
      <4>1. workers'[s] = workers[s] /\ rows'[s] = rows[s] BY <1>3, <1>5, <3>2
      <4> QED BY <1>h, <1>u, <1>1, <3>1, <4>1 DEF WitnessSound, Gone
    <3>3. CASE outcome # "lost"
      <4>1. rows'[s].gen = rows[s].gen + 1 BY <1>2, <1>3, <3>3
      <4> QED BY <1>h, <1>u, <2>1, <3>1, <4>1 DEF WitnessSound
    <3> QED BY <3>2, <3>3
  <2> QED BY <1>10, <2>2, <2>3, <2>4, <2>5 DEF SlotSound
<1>12. Advance
  <2>1. CASE outcome = "lost" BY <1>3, <2>1 DEF Advance
  <2>2. CASE outcome # "lost"
    <3>1. rows'[s].gen > rows[s].gen BY <1>h, <1>2, <1>3, <2>2
    <3> QED BY <1>u, <1>3, <3>1 DEF Advance
  <2> QED BY <2>1, <2>2
<1>13. PageSound' BY <1>3, <1>6, <1>12, PageGoesOn
<1> QED BY <1>u, <1>7, <1>8, <1>9, <1>11, <1>13, OthersKept

LEMMA DropPageStep ==
    ASSUME BlobsInv, DropPage
    PROVE  BlobsInv'
<1> USE DEF BlobsInv
<1>u. /\ UNCHANGED <<rows, orphans, expired, disk, may, pair, marker, process, phase>>
      /\ UNCHANGED <<scan, cursor, requests>> /\ rec' = Ended(FALSE)
  BY DEF DropPage, durable
<1>t. /\ workers \in [Keys -> Witnesses] /\ undispatched \in [Keys -> Witnesses]
      /\ jobs \subseteq JobRecords
  BY DEF TypeInv, TypeOK
<1>1. rec' \in Pages /\ rec'.queue = <<>> /\ rec'.pc = "ended" BY <1>u, EmptyPages
<1>2. PageSound' BY <1>1, PageEnds
<1>3. PairSound' BY <1>u DEF PairSound, PairedMarkerDurable
<1>4. CASE rec.pc \notin {"dispatch", "remove"}
  <2>1. UNCHANGED <<workers, undispatched, jobs>> BY <1>4 DEF DropPage
  <2>2. TypeInv' BY <1>u, <1>1, <2>1 DEF TypeInv, TypeOK, Places
  <2> QED BY <1>u, <1>2, <1>3, <2>1, <2>2, Quiet
<1>5. CASE rec.pc \in {"dispatch", "remove"}
  <2>1. PICK s \in Slots : s = Item.slot BY <1>5, HeldRow
  <2>h. s \in Keys /\ SlotSound(s) BY <2>1 DEF Keys
  \* The leases are dropped: a witness keeps its generation, and has failed.
  <2>2. /\ workers' \in [Keys -> Witnesses] /\ undispatched' \in [Keys -> Witnesses]
        /\ workers'[s].gen = workers[s].gen /\ workers'[s].stopped = workers[s].stopped
        /\ workers'[s] = workers[s] \/ workers'[s].failed
        /\ undispatched'[s].gen = undispatched[s].gen
        /\ undispatched'[s] = undispatched[s] \/ undispatched'[s].failed
        /\ \A t \in Slots \ {s} : workers'[t] = workers[t] /\ undispatched'[t] = undispatched[t]
        /\ jobs' \subseteq JobRecords
        /\ \A t \in Slots \ {s} : On(t)' = On(t)
        /\ \A i \in On(s)' : \E j \in On(s) : Alike(i, j)
        /\ \A i, j \in On(s)' : i = j
    <3>1. CASE rec.pc = "dispatch"
      <4>1. /\ undispatched' = [undispatched EXCEPT ![s] = StopUnstarted(undispatched[s])]
            /\ workers' = workers /\ jobs' = jobs
        BY <2>1, <3>1 DEF DropPage
      <4>2. /\ StopUnstarted(undispatched[s]) \in Witnesses
            /\ StopUnstarted(undispatched[s]).gen = undispatched[s].gen
            /\ StopUnstarted(undispatched[s]).failed
        BY <1>t, <2>h DEF StopUnstarted, Witnesses
      <4>3. /\ undispatched' \in [Keys -> Witnesses]
            /\ undispatched'[s] = StopUnstarted(undispatched[s])
            /\ \A t \in Slots \ {s} : undispatched'[t] = undispatched[t]
        BY <1>t, <2>h, <4>1, <4>2 DEF Keys
      <4>4. /\ \A t \in Slots : On(t)' = On(t)
            /\ \A i \in On(s)' : \E j \in On(s) : Alike(i, j)
        BY <4>1 DEF On, Alike
      <4>5. \A i, j \in On(s)' : i = j BY <2>h, <4>4 DEF SlotSound
      <4> QED BY <1>t, <4>1, <4>2, <4>3, <4>4, <4>5
    <3>2. CASE rec.pc = "remove"
      <4>1. /\ workers' = [workers EXCEPT ![s].failed = TRUE]
            /\ undispatched' = undispatched
            /\ jobs' \in Cancelled(jobs, s, "remove")
        BY <2>1, <3>2 DEF DropPage
      <4>2. /\ workers' \in [Keys -> Witnesses]
            /\ workers'[s].gen = workers[s].gen /\ workers'[s].stopped = workers[s].stopped
            /\ workers'[s].failed
            /\ \A t \in Slots \ {s} : workers'[t] = workers[t]
        BY <1>t, <2>h, <4>1 DEF Keys, Witnesses
      <4>3. \A i, j \in On(s) : i = j BY <2>h DEF SlotSound
      <4> QED BY <1>t, <4>1, <4>2, <4>3, CancelledJobs
    <3> QED BY <1>5, <3>1, <3>2
  <2>3. TypeInv' BY <1>u, <1>1, <2>2 DEF TypeInv, TypeOK, Places
  <2>4. \A t \in Slots \ {s} : SameSlot(t) BY <1>u, <2>2 DEF SameSlot
  <2>5. SlotSound(s)'
    <3>1. RowSound(s)' BY <1>u, <2>h DEF SlotSound, RowSound
    <3>2. DiskSound(s)' BY <1>u, <2>h DEF SlotSound, DiskSound, Whole, Gone
    <3>3. WitnessSound(s)' BY <1>u, <2>h, <2>2 DEF SlotSound, WitnessSound, Whole, Gone
    <3>4. RequestSound(s)'
      <4>1. On(s) = {} => On(s)' = {} BY <2>2
      <4> QED BY <1>u, <2>h, <2>2, <4>1 DEF SlotSound, RequestSound, Gone
    <3>5. ASSUME NEW i \in On(s)' PROVE JobSound(s, i)'
      <4>1. PICK j \in On(s) : Alike(i, j) BY <2>2, <3>5
      <4>2. JobSound(s, j) /\ i.key = s /\ j.key = s BY <2>h, <3>5 DEF SlotSound, On
      <4>3. Progress(i)' BY <1>u, <4>1, <4>2 DEF JobSound, Progress, Alike
      <4> QED BY <1>u, <2>2, <4>1, <4>2, <4>3 DEF JobSound, Alike
    <3> QED BY <2>2, <3>1, <3>2, <3>3, <3>4, <3>5 DEF SlotSound
  <2> QED BY <1>u, <1>2, <1>3, <2>3, <2>4, <2>5, OthersKept
<1> QED BY <1>4, <1>5

LEMMA EndStep ==
    ASSUME BlobsInv, RecEnd
    PROVE  BlobsInv'
<1> USE DEF BlobsInv
<1>1. UNCHANGED <<rows, disk, may, workers, undispatched, requests, jobs, process>>
  BY DEF RecEnd, durable, volatile
<1>2. /\ UNCHANGED <<orphans, expired, scan, cursor, pair, marker>>
      /\ phase' \in {"failed", "ready"} /\ rec' = NoRec
  BY DEF RecEnd, durable, volatile
<1>3. rec' \in Pages /\ rec'.queue = <<>> /\ rec'.pc = "idle" BY <1>2, EmptyPages
<1>4. TypeInv' BY <1>1, <1>2, <1>3 DEF TypeInv, TypeOK, Places
<1>5. PairSound' BY <1>2 DEF PairSound, PairedMarkerDurable
<1>6. PageSound' BY <1>3, PageEnds
<1> QED BY <1>1, <1>4, <1>5, <1>6, Quiet

-----------------------------------------------------------------------------
(* Restarts. *)

LEMMA EmptyRegistry ==
    /\ NoWitness \in Witnesses /\ NoWitness.gen = 0
    /\ ~NoWitness.stopped /\ ~NoWitness.failed
BY DEF NoWitness, Witnesses

\* A power loss leaves a kept object in place and brings no released one back.
LEMMA CrashStep ==
    ASSUME BlobsInv, NEW power \in BOOLEAN, Crash(power)
    PROVE  BlobsInv'
<1> USE DEF BlobsInv
<1>u. /\ UNCHANGED <<rows, orphans, expired, pair>> /\ process' = process + 1
      /\ phase' = "observe" /\ scan' = <<>> /\ cursor' = 0
      /\ workers' = [k \in Keys |-> NoWitness] /\ undispatched' = [k \in Keys |-> NoWitness]
      /\ jobs' = {} /\ requests' = [s \in Slots |-> "idle"] /\ rec' = NoRec
  BY DEF Crash, durable
<1>t. /\ disk \in [Keys -> SUBSET Names] /\ may \in [Keys -> SUBSET SUBSET Names]
      /\ process \in Nat /\ rows \in [Slots -> Rows]
  BY DEF TypeInv, TypeOK, Rows
<1>1. /\ disk' \in [Keys -> SUBSET Names] /\ may' \in [Keys -> SUBSET SUBSET Names]
      /\ \A s \in Slots : DiskSound(s)'
  <2>1. CASE power
    <3>1. /\ disk' \in {d \in [Keys -> UNION {may[k] : k \in Keys}] :
                           \A k \in Keys : d[k] \in may[k]}
          /\ may' = [k \in Keys |-> {disk'[k]}]
      BY <2>1 DEF Crash
    <3>2. /\ disk' \in [Keys -> UNION {may[k] : k \in Keys}]
          /\ \A k \in Keys : disk'[k] \in may[k] /\ may'[k] = {disk'[k]}
      BY <3>1
    <3>3. \A k \in Keys : disk'[k] \in SUBSET Names BY <1>t, <3>2
    <3>4. disk' \in [Keys -> SUBSET Names] /\ may' \in [Keys -> SUBSET SUBSET Names]
      BY <3>1, <3>2, <3>3
    <3>5. ASSUME NEW s \in Slots PROVE DiskSound(s)'
      <4>1. s \in Keys /\ DiskSound(s) BY DEF SlotSound, Keys
      <4>2. disk'[s] \in may[s] /\ may'[s] = {disk'[s]} BY <3>2, <4>1
      <4>3. Whole(s) => Whole(s)' BY <4>2 DEF Whole
      <4>4. Gone(s) => Gone(s)' BY <4>2 DEF Gone
      <4> QED BY <1>u, <4>1, <4>2, <4>3, <4>4 DEF DiskSound
    <3> QED BY <3>4, <3>5
  <2>2. CASE ~power
    <3>1. disk' = disk /\ may' = may BY <2>2 DEF Crash
    <3> QED BY <1>t, <1>u, <3>1 DEF SlotSound, DiskSound, Whole, Gone
  <2> QED BY <2>1, <2>2
<1>2. /\ marker' \in {"none", "partial", "renamed", "durable"}
      /\ marker = "durable" => marker' = "durable"
  BY DEF Crash, Marked, TypeInv, TypeOK
<1>3. rec' \in Pages /\ rec'.queue = <<>> /\ rec'.pc = "idle" BY <1>u, EmptyPages
<1>4. /\ workers' \in [Keys -> Witnesses] /\ undispatched' \in [Keys -> Witnesses]
      /\ requests' \in [Slots -> {"idle", "prepared", "transfer"}]
  BY <1>u, EmptyRegistry
<1>5. TypeInv'
  BY <1>u, <1>t, <1>1, <1>2, <1>3, <1>4 DEF TypeInv, TypeOK, Places
<1>6. PairSound' BY <1>u, <1>2 DEF PairSound, PairedMarkerDurable
<1>7. PageSound' BY <1>3, PageEnds
<1>8. ASSUME NEW s \in Slots PROVE SlotSound(s)'
  <2>1. /\ workers'[s] = NoWitness /\ undispatched'[s] = NoWitness /\ requests'[s] = "idle"
        /\ On(s)' = {}
    BY <1>u DEF Keys, On
  <2>2. RowSound(s)' BY <1>u, <1>t DEF SlotSound, RowSound, Rows
  <2>3. RequestSound(s)' BY <2>1 DEF RequestSound
  <2>4. rows[s].gen \in Nat BY <1>t DEF Rows
  <2>5. WitnessSound(s)' BY <1>u, <2>1, <2>4, EmptyRegistry DEF WitnessSound
  <2> QED BY <1>1, <2>1, <2>2, <2>3, <2>5 DEF SlotSound
<1> QED BY <1>5, <1>6, <1>7, <1>8

LEMMA InitSound == Init => BlobsInv
<1> SUFFICES ASSUME Init PROVE BlobsInv OBVIOUS
<1>1. PICK kept \in SUBSET Slots, stray \in SUBSET Strays, size \in Sizes :
        /\ rows = [s \in Slots |-> IF s \in kept THEN Kept(size) ELSE NoRow]
        /\ store = [all |-> Owed(Slots), anonymous |-> Owed(AnonymousSlots)]
        /\ subjects = [u \in Subjects |-> Owed({s \in Slots : SubjectOf[s] = u})]
        /\ disk = [k \in Keys |-> IF k \in kept \cup stray THEN {"final"} ELSE {}]
        /\ may = [k \in Keys |-> {disk[k]}]
        /\ \/ kept \cup stray = {} /\ pair = "none" /\ marker = "none"
           \/ pair = "paired" /\ marker = "durable"
  BY Zenon DEF Init
<1>2. /\ orphans = {} /\ expired = {} /\ process = 1 /\ phase = "observe"
      /\ scan = <<>> /\ cursor = 0
      /\ workers = [k \in Keys |-> NoWitness] /\ undispatched = [k \in Keys |-> NoWitness]
      /\ jobs = {} /\ requests = [s \in Slots |-> "idle"] /\ rec = NoRec
  BY DEF Init
<1>3. size \in Nat /\ size <= Limit BY BlobAssumption
<1>4. RowOK(Kept(size)) /\ RowOK(NoRow)
  <2>1. Kept(size) \in Rows /\ NoRow \in Rows BY DEF Kept, NoRow, Rows, States
  <2>2. Parsed(Kept(size)) BY <1>3, BlobAssumption DEF Kept, Parsed
  <2> QED BY <2>1, <2>2 DEF RowOK
<1>5. \A s \in Slots : RowOK(rows[s]) /\ rows[s] = IF s \in kept THEN Kept(size) ELSE NoRow
  BY <1>1, <1>4
<1>6. rows \in [Slots -> Rows] BY <1>1, <1>4 DEF RowOK
<1>7. /\ disk \in [Keys -> SUBSET Names] /\ may \in [Keys -> SUBSET SUBSET Names]
  <2>1. {"final"} \in SUBSET Names /\ {} \in SUBSET Names BY DEF Names
  <2>2. \A k \in Keys : disk[k] \in SUBSET Names BY <1>1, <2>1
  <2>3. disk \in [Keys -> SUBSET Names] BY <1>1, <2>1
  <2> QED BY <1>1, <2>2, <2>3
<1>8. /\ workers \in [Keys -> Witnesses] /\ undispatched \in [Keys -> Witnesses]
      /\ requests \in [Slots -> {"idle", "prepared", "transfer"}]
  BY <1>2, EmptyRegistry
<1>9. rec \in Pages /\ rec.queue = <<>> /\ rec.pc = "idle" BY <1>2, EmptyPages
<1>10. \A s \in Slots : rows[s] = NoRow \/ Parsed(rows[s]) BY <1>5 DEF RowOK
<1>11. TypeInv
  BY <1>1, <1>2, <1>6, <1>7, <1>8, <1>9, <1>10 DEF TypeInv, TypeOK, Rows, Places
<1>12. PairSound BY <1>1, <1>2 DEF PairSound, PairedMarkerDurable
<1>13. PageSound
  <2>1. Range(rec.queue) = {} BY <1>9 DEF Range
  <2> QED BY <1>9, <2>1 DEF PageSound
<1>14. ASSUME NEW s \in Slots PROVE SlotSound(s)
  <2>1. /\ workers[s] = NoWitness /\ undispatched[s] = NoWitness /\ requests[s] = "idle"
        /\ On(s) = {}
    BY <1>2 DEF Keys, On
  <2>2. /\ s \in kept => rows[s] = Kept(size)
        /\ s \notin kept => rows[s] = NoRow
    BY <1>5
  <2>3. RowSound(s) BY <1>2, <2>2 DEF RowSound, Kept, NoRow
  <2>4. DiskSound(s)
    <3>1. s \notin stray BY BlobAssumption
    <3>2. s \in Keys BY DEF Keys
    <3>3. disk[s] = (IF s \in kept THEN {"final"} ELSE {}) /\ may[s] = {disk[s]}
      BY <1>1, <3>1, <3>2
    <3> QED BY <2>2, <3>3 DEF DiskSound, Whole, Gone, Kept, NoRow
  <2>5. RequestSound(s) BY <2>1 DEF RequestSound
  <2>6. rows[s].gen \in Nat /\ rows[s].state \notin {"uploading", "deleting"}
    BY <2>2 DEF Kept, NoRow
  <2>7. WitnessSound(s) BY <2>1, <2>6, EmptyRegistry DEF WitnessSound
  <2> QED BY <2>1, <2>3, <2>4, <2>5, <2>7 DEF SlotSound
<1> QED BY <1>11, <1>12, <1>13, <1>14 DEF BlobsInv

LEMMA StepSound == BlobsInv /\ [Next]_vars => BlobsInv'
<1> SUFFICES ASSUME BlobsInv, [Next]_vars PROVE BlobsInv' OBVIOUS
<1>1. CASE Activation BY <1>1, PairStep
<1>2. CASE Maintenance
  <2>1. ASSUME rec.pc \in {"row", "claim", "dispatch", "remove"}
        PROVE  \E s \in Slots : s = Item.slot
    BY <2>1, HeldRow
  <2>2. CASE RecInventory BY <2>2, InventoryStep
  <2>3. CASE RecPage BY <2>3, PageStep
  <2>4. CASE RecPlan BY <2>1, <2>4, PlanStep DEF RecPlan
  <2>5. CASE RecClaim BY <2>1, <2>5, ClaimStep DEF RecClaim
  <2>6. CASE RecDispatch BY <2>1, <2>6, RemoveStep DEF RecDispatch
  <2>7. CASE RecDeleted BY <2>1, <2>7, DeletedStep DEF RecDeleted
  <2>8. CASE DropPage BY <2>8, DropPageStep
  <2>9. CASE RecEnd BY <2>9, EndStep
  <2> QED BY <1>2, <2>2, <2>3, <2>4, <2>5, <2>6, <2>7, <2>8, <2>9 DEF Maintenance
<1>3. ASSUME NEW s \in Slots,
             Prepare(s) \/ Dispatch(s) \/ Publish(s) \/ DropRequest(s)
             \/ Attach(s) \/ Detach(s) \/ Expire(s)
      PROVE  BlobsInv'
  BY <1>3, PrepareStep, DispatchStep, PublishStep, DropRequestStep, AttachStep,
     DetachStep, ExpireStep
<1>4. ASSUME NEW j \in jobs, JobMoves(j) PROVE BlobsInv'
  BY <1>4, JobStepStep, JobStopStep DEF JobMoves
<1>5. ASSUME NEW power \in BOOLEAN, Crash(power) PROVE BlobsInv' BY <1>5, CrashStep
<1>6. CASE UNCHANGED vars
  <2>1. UNCHANGED <<rows, disk, may, workers, undispatched, requests, jobs, process, rec>>
    BY <1>6 DEF vars, durable, volatile
  <2>2. UNCHANGED <<orphans, expired, scan, cursor, pair, marker, phase>>
    BY <1>6 DEF vars, durable, volatile
  <2>3. TypeInv' BY <2>1, <2>2 DEF BlobsInv, TypeInv, TypeOK
  <2>4. PairSound' BY <2>2 DEF BlobsInv, PairSound, PairedMarkerDurable
  <2> QED BY <2>1, <2>3, <2>4, Quiet, QuietPage DEF BlobsInv
<1> QED BY <1>1, <1>2, <1>3, <1>4, <1>5, <1>6 DEF Next

-----------------------------------------------------------------------------
(* The theorems. *)

LEMMA AlwaysSound == Spec => []BlobsInv
BY InitSound, StepSound, PTL DEF Spec

\* Whatever dies, what the database says of the store directory is still true: the
\* object of a staged, attached or unreferenced row is whole and survives a power
\* loss, a released one is gone for good with every worker that could bring it
\* back, and a paired database has its durable marker (publish_upload, finalize,
\* remove, MetadataContext::deleted, install_pair).
THEOREM ObjectsAlwaysDurable == Spec => []ObjectsDurable
<1>1. BlobsInv => ObjectsDurable
  <2> SUFFICES ASSUME BlobsInv PROVE ObjectsDurable OBVIOUS
  <2>1. ReferencedDurable
    BY DEF BlobsInv, SlotSound, DiskSound, Whole, ReferencedDurable
  <2>2. ChargedWhilePresent
    <3> SUFFICES ASSUME NEW s \in Slots, rows[s].state \in {"none", "deleted"}
                 PROVE  may[s] = {{}} /\ ~\E j \in jobs : j.key = s /\ j.kind # "clean"
      BY DEF ChargedWhilePresent
    <3>1. may[s] = {{}} BY DEF BlobsInv, SlotSound, DiskSound, Gone
    <3>2. On(s) = {} BY NoJobs DEF BlobsInv
    <3> QED BY <3>1, <3>2 DEF On
  <2> QED BY <2>1, <2>2 DEF BlobsInv, TypeInv, PairSound, ObjectsDurable
<1> QED BY <1>1, AlwaysSound, PTL

\* A native worker has its object to itself, under the generation and in the state
\* that started it: no upload beside a removal, no removal under a claim that was
\* not committed or was taken over while it may still unlink (stopped_witness,
\* arm_deletion, claim_*, delete_claimed).
THEOREM WorkersAlwaysFenced == Spec => []WorkersFenced
<1>1. BlobsInv => WorkersFenced
  <2> SUFFICES ASSUME BlobsInv, NEW j \in jobs
               PROVE  /\ rows[j.key].gen = j.gen
                      /\ rows[j.key].state = IF j.kind = "upload" THEN "uploading" ELSE "deleting"
                      /\ \A i \in jobs : i.key = j.key => i = j
    BY DEF WorkersFenced
  <2>1. On(j.key) = {j} /\ JobSound(j.key, j) BY RunningJob
  <2> QED BY <2>1 DEF On, JobSound
<1> QED BY <1>1, AlwaysSound, PTL
-----------------------------------------------------------------------------
(* The charges.                                                            *)

Amounts == [Slots -> 0 .. Limit]
Units(S, amount) == {p \in S \X (1 .. Limit) : p[2] <= amount[p[1]]}

LEMMA UnitsFinite ==
    ASSUME NEW S \in SUBSET Slots, NEW amount
    PROVE  /\ IsFiniteSet(Units(S, amount)) /\ Sum(S, amount) = Cardinality(Units(S, amount))
           /\ Sum(S, amount) \in Nat
<1>1. Limit \in Nat BY BlobAssumption
<1>2. IsFiniteSet(S) BY BlobAssumption, FS_Subset
<1>3. IsFiniteSet(1 .. Limit) BY <1>1, FS_Interval
<1>4. IsFiniteSet(S \X (1 .. Limit)) BY <1>2, <1>3, FS_Product
<1>5. Units(S, amount) \subseteq S \X (1 .. Limit) BY DEF Units
<1>6. IsFiniteSet(Units(S, amount)) BY <1>4, <1>5, FS_Subset
<1>7. Sum(S, amount) = Cardinality(Units(S, amount)) BY DEF Sum, Units
<1> QED BY <1>6, <1>7, FS_CardinalityType

LEMMA SumSame ==
    ASSUME NEW S \in SUBSET Slots, NEW amount, NEW other, \A s \in S : amount[s] = other[s]
    PROVE  Sum(S, amount) = Sum(S, other)
<1>1. Units(S, amount) = Units(S, other) BY DEF Units
<1> QED BY <1>1, UnitsFinite

\* One slot has as many units as its amount.
LEMMA SumOne ==
    ASSUME NEW s \in Slots, NEW amount \in Amounts
    PROVE  Sum({s}, amount) = amount[s]
<1> DEFINE n == amount[s]
           enum == [i \in 1 .. n |-> <<s, i>>]
           U == Units({s}, amount)
<1>1. n \in Nat /\ n <= Limit /\ Limit \in Nat BY BlobAssumption DEF Amounts
<1>2. \A i \in 1 .. n : <<s, i>> \in U BY <1>1 DEF Units
<1>3. enum \in Bijection(1 .. n, U)
  <2>1. enum \in [1 .. n -> U] BY <1>2
  <2>2. \A i, j \in 1 .. n : enum[i] = enum[j] => i = j OBVIOUS
  <2>3. \A u \in U : \E i \in 1 .. n : enum[i] = u
    <3> SUFFICES ASSUME NEW u \in U PROVE \E i \in 1 .. n : enum[i] = u OBVIOUS
    <3>1. u \in {s} \X (1 .. Limit) /\ u[2] <= amount[u[1]] BY DEF Units
    <3>2. u = <<s, u[2]>> /\ u[2] \in 1 .. Limit BY <3>1
    <3>3. u[2] \in 1 .. n BY <1>1, <3>1, <3>2
    <3> QED BY <3>2, <3>3
  <2> HIDE DEF enum, U, n
  <2> QED BY <2>1, <2>2, <2>3 DEF Bijection, Injection, Surjection, IsInjective
<1>4. ExistsBijection(1 .. n, U) BY <1>3 DEF ExistsBijection
<1> HIDE DEF n, U
<1>5. Cardinality(U) = n BY <1>1, <1>4, FS_CountingElements
<1>6. {s} \in SUBSET Slots OBVIOUS
<1>7. Sum({s}, amount) = Cardinality(U) BY <1>6, UnitsFinite DEF U
<1> QED BY <1>5, <1>7 DEF n

LEMMA SumSplit ==
    ASSUME NEW S \in SUBSET Slots, NEW s \in S, NEW amount \in Amounts
    PROVE  Sum(S, amount) = Sum(S \ {s}, amount) + amount[s]
<1> DEFINE A == Units(S \ {s}, amount)
           B == Units({s}, amount)
<1>1. Units(S, amount) = A \cup B /\ A \cap B = {} BY DEF Units
<1>2. S \ {s} \in SUBSET Slots /\ {s} \in SUBSET Slots OBVIOUS
<1>3. IsFiniteSet(A) /\ IsFiniteSet(B) /\ Sum(S \ {s}, amount) = Cardinality(A) /\ Sum({s}, amount) = Cardinality(B)
      /\ Sum(S, amount) = Cardinality(Units(S, amount))
  BY <1>2, UnitsFinite
<1> HIDE DEF A, B
<1>4. Cardinality(A \cup B) = Cardinality(A) + Cardinality(B)
  <2>1. Cardinality(A \cup B) = Cardinality(A) + Cardinality(B) - Cardinality(A \cap B) BY <1>3, FS_Union
  <2>2. Cardinality(A \cap B) = 0 BY <1>1, FS_EmptySet
  <2>3. Cardinality(A) \in Nat /\ Cardinality(B) \in Nat BY <1>3, FS_CardinalityType
  <2> QED BY <2>1, <2>2, <2>3
<1>5. Sum({s}, amount) = amount[s] BY SumOne
<1> QED BY <1>1, <1>3, <1>4, <1>5

\* The sum moves as the amount of one slot does.
LEMMA SumMoves ==
    ASSUME NEW S \in SUBSET Slots, NEW s \in Slots, NEW amount \in Amounts, NEW other \in Amounts,
           \A t \in Slots \ {s} : other[t] = amount[t]
    PROVE  /\ Sum(S, amount) \in Nat /\ Sum(S, other) \in Nat
           /\ s \in S => Sum(S, other) = Sum(S, amount) + other[s] - amount[s]
           /\ s \notin S => Sum(S, other) = Sum(S, amount)
<1>1. Sum(S, amount) \in Nat /\ Sum(S, other) \in Nat BY UnitsFinite
<1>2. CASE s \notin S
  <2>1. \A t \in S : amount[t] = other[t] BY <1>2
  <2> QED BY <1>1, <1>2, <2>1, SumSame
<1>3. CASE s \in S
  <2> DEFINE T == S \ {s}
  <2>1. T \in SUBSET Slots /\ \A t \in T : amount[t] = other[t] OBVIOUS
  <2>2. Sum(S, amount) = Sum(T, amount) + amount[s] /\ Sum(S, other) = Sum(T, other) + other[s] BY <1>3, SumSplit
  <2> HIDE DEF T
  <2>3. Sum(T, amount) = Sum(T, other) /\ Sum(T, other) \in Nat BY <2>1, SumSame, UnitsFinite
  <2>4. amount[s] \in Nat /\ other[s] \in Nat BY BlobAssumption DEF Amounts
  <2> QED BY <1>1, <1>3, <2>2, <2>3, <2>4
<1> QED BY <1>2, <1>3

\* What one row adds to the objects.
One(r) == IF r.state \in {"none", "deleted"} THEN 0 ELSE 1

LEMMA ObjectsFinite ==
    ASSUME NEW S \in SUBSET Slots
    PROVE  /\ IsFiniteSet(Objects(S)) /\ Cardinality(Objects(S)) \in Nat
           /\ IsFiniteSet(Objects(S)') /\ Cardinality(Objects(S)') \in Nat
<1>1. IsFiniteSet(S) BY BlobAssumption, FS_Subset
<1>2. Objects(S) \subseteq S /\ Objects(S)' \subseteq S BY DEF Objects
<1>3. IsFiniteSet(Objects(S)) /\ IsFiniteSet(Objects(S)') BY <1>1, <1>2, FS_Subset
<1> QED BY <1>3, FS_CardinalityType

LEMMA ObjectsMove ==
    ASSUME NEW S \in SUBSET Slots, NEW s \in Slots, \A t \in Slots \ {s} : rows'[t] = rows[t]
    PROVE  /\ s \in S => Cardinality(Objects(S)') = Cardinality(Objects(S)) + One(rows'[s]) - One(rows[s])
           /\ s \notin S => Cardinality(Objects(S)') = Cardinality(Objects(S))
<1> DEFINE A == Objects(S)
           B == Objects(S)'
           before == One(rows[s])
           now == One(rows'[s])
<1>1. \A t \in S \ {s} : t \in A <=> t \in B BY DEF Objects
<1>2. A \subseteq S /\ B \subseteq S BY DEF Objects
<1>3. s \in S => (s \in A <=> before = 1) /\ (s \in B <=> now = 1) BY DEF Objects, One
<1>4. before \in {0, 1} /\ now \in {0, 1} BY DEF One
<1>5. IsFiniteSet(A) /\ IsFiniteSet(B) /\ Cardinality(A) \in Nat /\ Cardinality(B) \in Nat BY ObjectsFinite
<1> HIDE DEF A, B, before, now
<1>6. CASE s \notin S
  <2>1. A = B BY <1>1, <1>2, <1>6
  <2> QED BY <1>6, <2>1 DEF A, B
<1>7. CASE s \in S /\ before = now
  <2>1. A = B BY <1>1, <1>2, <1>3, <1>7, <1>4
  <2>2. Cardinality(B) = Cardinality(A) + now - before BY <1>4, <1>5, <1>7, <2>1
  <2> QED BY <1>7, <2>2 DEF A, B, before, now
<1>8. CASE s \in S /\ before = 0 /\ now = 1
  <2>1. s \notin A /\ B = A \cup {s} BY <1>1, <1>2, <1>3, <1>8
  <2>2. Cardinality(B) = Cardinality(A) + 1 BY <1>5, <2>1, FS_AddElement
  <2>3. Cardinality(B) = Cardinality(A) + now - before BY <1>5, <1>8, <2>2
  <2> QED BY <1>8, <2>3 DEF A, B, before, now
<1>9. CASE s \in S /\ before = 1 /\ now = 0
  <2>1. s \in A /\ B = A \ {s} BY <1>1, <1>2, <1>3, <1>9
  <2>2. Cardinality(B) = Cardinality(A) - 1 BY <1>5, <2>1, FS_RemoveElement
  <2>3. Cardinality(B) = Cardinality(A) + now - before BY <1>5, <1>9, <2>2
  <2> QED BY <1>9, <2>3 DEF A, B, before, now
<1> QED BY <1>4, <1>6, <1>7, <1>8, <1>9

\* What a row is charged.
Due(r) == Charge(r.reserved, r.bytes, One(r))

LEMMA RowAmounts ==
    ASSUME NEW r \in Rows
    PROVE  r.reserved \in 0 .. Limit /\ r.bytes \in 0 .. Limit /\ One(r) \in Nat
<1>1. Limit \in Nat /\ Sizes \subseteq 0 .. Limit BY BlobAssumption
<1>2. r.reserved \in {0, Limit} /\ r.bytes \in {0} \cup Sizes BY DEF Rows
<1>3. One(r) \in Nat BY DEF One
<1>4. 0 \in 0 .. Limit /\ Limit \in 0 .. Limit BY <1>1
<1>5. r.reserved \in 0 .. Limit BY <1>2, <1>4
<1>6. r.bytes \in 0 .. Limit BY <1>1, <1>2, <1>4
<1> QED BY <1>3, <1>5, <1>6

Charges == [reserved : Int, used : Int, objects : Int]

LEMMA ChargeType == ASSUME NEW a \in Int, NEW b \in Int, NEW c \in Int PROVE Charge(a, b, c) \in Charges
BY DEF Charge, Charges

LEMMA DueType == ASSUME NEW r \in Rows PROVE Due(r) \in Charges
<1>1. r.reserved \in Int /\ r.bytes \in Int /\ One(r) \in Int BY RowAmounts
<1> QED BY <1>1, ChargeType DEF Due

LEMMA ChargeIs ==
    ASSUME NEW a, NEW b, NEW c
    PROVE  Charge(a, b, c).reserved = a /\ Charge(a, b, c).used = b /\ Charge(a, b, c).objects = c
BY DEF Charge

LEMMA PlusCharge ==
    ASSUME NEW a, NEW b, NEW c, NEW d, NEW e, NEW f
    PROVE  /\ Plus(Charge(a, b, c), Charge(d, e, f)) = Charge(a + d, b + e, c + f)
           /\ Minus(Charge(a, b, c), Charge(d, e, f)) = Charge(a - d, b - e, c - f)
<1> DEFINE x == Charge(a, b, c)
           y == Charge(d, e, f)
<1>1. x.reserved = a /\ x.used = b /\ x.objects = c /\ y.reserved = d /\ y.used = e /\ y.objects = f BY ChargeIs
<1> HIDE DEF x, y
<1>2. Plus(x, y) = Charge(a + d, b + e, c + f) BY <1>1 DEF Plus
<1>3. Minus(x, y) = Charge(a - d, b - e, c - f) BY <1>1 DEF Minus
<1> QED BY <1>2, <1>3 DEF x, y

\* What the rows of a set owe moves by what one row's due does.
LEMMA OwedMoves ==
    ASSUME NEW S \in SUBSET Slots, NEW s \in Slots, rows \in [Slots -> Rows], rows' \in [Slots -> Rows],
           \A t \in Slots \ {s} : rows'[t] = rows[t]
    PROVE  /\ Owed(S) \in Charges
           /\ s \in S => Owed(S)' = Minus(Plus(Owed(S), Due(rows'[s])), Due(rows[s]))
           /\ s \notin S => Owed(S)' = Owed(S)
<1> DEFINE reserved == [t \in Slots |-> rows[t].reserved]
           reserves == [t \in Slots |-> rows'[t].reserved]
           bytes == [t \in Slots |-> rows[t].bytes]
           sizes == [t \in Slots |-> rows'[t].bytes]
           a == Sum(S, reserved)
           b == Sum(S, bytes)
           c == Cardinality(Objects(S))
           x == Sum(S, reserves)
           y == Sum(S, sizes)
           z == Cardinality(Objects(S)')
<1>1. \A t \in Slots : rows[t] \in Rows /\ rows'[t] \in Rows OBVIOUS
<1>2. reserved \in Amounts /\ reserves \in Amounts /\ bytes \in Amounts /\ sizes \in Amounts
  BY <1>1, RowAmounts DEF Amounts
<1>3. \A t \in Slots \ {s} : reserves[t] = reserved[t] /\ sizes[t] = bytes[t] OBVIOUS
<1>4. /\ reserved[s] = rows[s].reserved /\ reserves[s] = rows'[s].reserved
      /\ bytes[s] = rows[s].bytes /\ sizes[s] = rows'[s].bytes
  OBVIOUS
<1>5. Owed(S) = Charge(a, b, c) /\ Owed(S)' = Charge(x, y, z) BY DEF Owed
<1> HIDE DEF reserved, reserves, bytes, sizes
<1>6. /\ a \in Nat /\ x \in Nat /\ (s \in S => x = a + reserves[s] - reserved[s]) /\ (s \notin S => x = a)
      /\ b \in Nat /\ y \in Nat /\ (s \in S => y = b + sizes[s] - bytes[s]) /\ (s \notin S => y = b)
  BY <1>2, <1>3, SumMoves
<1>7. c \in Nat /\ (s \in S => z = c + One(rows'[s]) - One(rows[s])) /\ (s \notin S => z = c)
  BY ObjectsFinite, ObjectsMove
<1> HIDE DEF a, b, c, x, y, z
<1>8. Owed(S) \in Charges BY <1>5, <1>6, <1>7, ChargeType
<1>9. ASSUME s \in S PROVE Owed(S)' = Minus(Plus(Owed(S), Due(rows'[s])), Due(rows[s]))
  <2>1. x = a + rows'[s].reserved - rows[s].reserved /\ y = b + rows'[s].bytes - rows[s].bytes
        /\ z = c + One(rows'[s]) - One(rows[s])
    BY <1>4, <1>6, <1>7, <1>9
  <2>8. /\ rows[s].reserved \in Nat /\ rows[s].bytes \in Nat /\ One(rows[s]) \in Nat
        /\ rows'[s].reserved \in Nat /\ rows'[s].bytes \in Nat /\ One(rows'[s]) \in Nat
    BY <1>1, RowAmounts
  <2> DEFINE r == rows'[s].reserved
             u == rows'[s].bytes
             o == One(rows'[s])
             p == rows[s].reserved
             v == rows[s].bytes
             q == One(rows[s])
  <2>2. Due(rows'[s]) = Charge(r, u, o) /\ Due(rows[s]) = Charge(p, v, q) BY DEF Due
  <2> DEFINE m == a + r
             n == b + u
             k == c + o
  <2> HIDE DEF r, u, o, p, v, q
  <2>3. x = m - p /\ y = n - v /\ z = k - q
    <3>1. x = a + r - p /\ y = b + u - v /\ z = c + o - q BY <2>1 DEF r, u, o, p, v, q
    <3>2. r \in Nat /\ u \in Nat /\ o \in Nat /\ p \in Nat /\ v \in Nat /\ q \in Nat BY <2>8 DEF r, u, o, p, v, q
    <3> QED BY <1>6, <1>7, <3>1, <3>2
  <2>4. Plus(Charge(a, b, c), Charge(r, u, o)) = Charge(m, n, k) BY PlusCharge
  <2> HIDE DEF m, n, k
  <2>5. Minus(Charge(m, n, k), Charge(p, v, q)) = Charge(m - p, n - v, k - q) BY PlusCharge
  <2>6. Minus(Plus(Owed(S), Due(rows'[s])), Due(rows[s])) = Charge(m - p, n - v, k - q)
    BY <1>5, <2>2, <2>4, <2>5, Zenon
  <2>7. Charge(m - p, n - v, k - q) = Charge(x, y, z) BY <2>3
  <2> QED BY <1>5, <2>6, <2>7, Zenon
<1>10. ASSUME s \notin S PROVE Owed(S)' = Owed(S) BY <1>5, <1>6, <1>7, <1>10
<1> QED BY <1>8, <1>9, <1>10

LEMMA OwedType ==
    ASSUME NEW S \in SUBSET Slots
    PROVE  Owed(S) \in Charges
<1>1. /\ Sum(S, [s \in Slots |-> rows[s].reserved]) \in Nat /\ Sum(S, [s \in Slots |-> rows[s].bytes]) \in Nat
      /\ Cardinality(Objects(S)) \in Nat
  BY UnitsFinite, ObjectsFinite
<1> QED BY <1>1, ChargeType DEF Owed

\* A move of a row that is no charge.
LEMMA OwedSame ==
    ASSUME \A s \in Slots : /\ rows'[s].reserved = rows[s].reserved /\ rows'[s].bytes = rows[s].bytes
                            /\ rows'[s].state \in {"none", "deleted"} <=> rows[s].state \in {"none", "deleted"},
           NEW S \in SUBSET Slots
    PROVE  Owed(S)' = Owed(S)
<1>1. Objects(S)' = Objects(S) BY DEF Objects
<1>2. [s \in Slots |-> rows'[s].reserved] = [s \in Slots |-> rows[s].reserved] OBVIOUS
<1>3. [s \in Slots |-> rows'[s].bytes] = [s \in Slots |-> rows[s].bytes] OBVIOUS
<1> QED BY <1>1, <1>2, <1>3, Zenon DEF Owed

LEMMA ChargeParts ==
    ASSUME NEW c \in Charges
    PROVE  /\ c = Charge(c.reserved, c.used, c.objects)
           /\ c.reserved \in Int /\ c.used \in Int /\ c.objects \in Int
BY DEF Charges, Charge

LEMMA PlusType == ASSUME NEW c \in Charges, NEW d \in Charges PROVE Plus(c, d) \in Charges /\ Minus(c, d) \in Charges
<1> DEFINE a == c.reserved + d.reserved
           b == c.used + d.used
           o == c.objects + d.objects
           x == c.reserved - d.reserved
           y == c.used - d.used
           z == c.objects - d.objects
<1>1. a \in Int /\ b \in Int /\ o \in Int /\ x \in Int /\ y \in Int /\ z \in Int BY ChargeParts
<1>2. Plus(c, d) = Charge(a, b, o) /\ Minus(c, d) = Charge(x, y, z) BY DEF Plus, Minus
<1> HIDE DEF a, b, o, x, y, z
<1> QED BY <1>1, <1>2, ChargeType

\* The fields of a sum and of a difference.
LEMMA PlusIs ==
    ASSUME NEW c, NEW d
    PROVE  /\ Plus(c, d).reserved = c.reserved + d.reserved /\ Plus(c, d).used = c.used + d.used
           /\ Plus(c, d).objects = c.objects + d.objects
           /\ Minus(c, d).reserved = c.reserved - d.reserved /\ Minus(c, d).used = c.used - d.used
           /\ Minus(c, d).objects = c.objects - d.objects
<1> DEFINE a == c.reserved + d.reserved
           b == c.used + d.used
           o == c.objects + d.objects
           x == c.reserved - d.reserved
           y == c.used - d.used
           z == c.objects - d.objects
<1>1. Plus(c, d) = Charge(a, b, o) /\ Minus(c, d) = Charge(x, y, z) BY DEF Plus, Minus
<1> HIDE DEF a, b, o, x, y, z
<1>2. Charge(a, b, o).reserved = a /\ Charge(a, b, o).used = b /\ Charge(a, b, o).objects = o BY ChargeIs
<1>3. Charge(x, y, z).reserved = x /\ Charge(x, y, z).used = y /\ Charge(x, y, z).objects = z BY ChargeIs
<1>4. /\ Plus(c, d).reserved = a /\ Plus(c, d).used = b /\ Plus(c, d).objects = o
      /\ Minus(c, d).reserved = x /\ Minus(c, d).used = y /\ Minus(c, d).objects = z
  BY <1>1, <1>2, <1>3
<1> QED BY <1>4 DEF a, b, o, x, y, z

LEMMA ChargeSame ==
    ASSUME NEW c \in Charges, NEW d \in Charges,
           c.reserved = d.reserved, c.used = d.used, c.objects = d.objects
    PROVE  c = d
<1>1. c = Charge(c.reserved, c.used, c.objects) /\ d = Charge(d.reserved, d.used, d.objects) BY ChargeParts
<1> QED BY <1>1, Zenon

LEMMA PlusEmpty ==
    ASSUME NEW c \in Charges
    PROVE  Empty \in Charges /\ Plus(c, Empty) = c /\ Minus(c, Empty) = c
<1>1. Empty \in Charges /\ Empty.reserved = 0 /\ Empty.used = 0 /\ Empty.objects = 0 BY ChargeType, ChargeIs DEF Empty
<1>2. Plus(c, Empty) \in Charges /\ Minus(c, Empty) \in Charges BY <1>1, PlusType
<1>3. /\ Plus(c, Empty).reserved = c.reserved /\ Plus(c, Empty).used = c.used /\ Plus(c, Empty).objects = c.objects
      /\ Minus(c, Empty).reserved = c.reserved /\ Minus(c, Empty).used = c.used /\ Minus(c, Empty).objects = c.objects
  <2>1. c.reserved \in Int /\ c.used \in Int /\ c.objects \in Int BY ChargeParts
  <2> HIDE DEF Empty
  <2> QED BY <1>1, <2>1, PlusIs
<1> HIDE DEF Empty
<1> QED BY <1>1, <1>2, <1>3, ChargeSame

\* Beside another charge, a counter moves alike.
LEMMA MovesBeside ==
    ASSUME NEW c \in Charges, NEW o \in Charges, NEW x \in Charges, NEW y \in Charges
    PROVE  Minus(Plus(Plus(c, o), x), y) = Plus(Minus(Plus(c, x), y), o)
<1> DEFINE p == Plus(c, o)
           q == Plus(p, x)
           l == Minus(q, y)
           m == Plus(c, x)
           n == Minus(m, y)
           r == Plus(n, o)
<1>1. p \in Charges /\ m \in Charges BY PlusType
<1>2. q \in Charges /\ n \in Charges BY <1>1, PlusType
<1>3. l \in Charges /\ r \in Charges BY <1>2, PlusType
<1>4. /\ p.reserved = c.reserved + o.reserved /\ q.reserved = p.reserved + x.reserved /\ l.reserved = q.reserved - y.reserved
      /\ m.reserved = c.reserved + x.reserved /\ n.reserved = m.reserved - y.reserved /\ r.reserved = n.reserved + o.reserved
  BY PlusIs, Zenon
<1>5. /\ p.used = c.used + o.used /\ q.used = p.used + x.used /\ l.used = q.used - y.used
      /\ m.used = c.used + x.used /\ n.used = m.used - y.used /\ r.used = n.used + o.used
  BY PlusIs, Zenon
<1>6. /\ p.objects = c.objects + o.objects /\ q.objects = p.objects + x.objects /\ l.objects = q.objects - y.objects
      /\ m.objects = c.objects + x.objects /\ n.objects = m.objects - y.objects /\ r.objects = n.objects + o.objects
  BY PlusIs, Zenon
<1>7. /\ c.reserved \in Int /\ c.used \in Int /\ c.objects \in Int /\ o.reserved \in Int /\ o.used \in Int /\ o.objects \in Int
      /\ x.reserved \in Int /\ x.used \in Int /\ x.objects \in Int /\ y.reserved \in Int /\ y.used \in Int /\ y.objects \in Int
  BY ChargeParts
<1> HIDE DEF p, q, l, m, n, r
<1>8. l.reserved = r.reserved BY <1>4, <1>7
<1>9. l.used = r.used BY <1>5, <1>7
<1>10. l.objects = r.objects BY <1>6, <1>7
<1>11. l = r BY <1>3, <1>8, <1>9, <1>10, ChargeSame
<1> QED BY <1>11 DEF p, q, l, m, n, r

SlotsOf(u) == {s \in Slots : SubjectOf[s] = u}
OrphanDue == Charge(0, Limit * Cardinality(orphans), Cardinality(orphans))

\* A file no row knows has one name, its object, and nothing touches it.
StraysSound == \A k \in Strays : disk[k] \in {{}, {"final"}} /\ may[k] = {disk[k]}

\* The counters are functions of the rows and the orphans.
ChargesInv ==
    /\ store = [all |-> Plus(Owed(Slots), OrphanDue), anonymous |-> Owed(AnonymousSlots)]
    /\ subjects = [u \in Subjects |-> Owed(SlotsOf(u))]
    /\ StraysSound

LEMMA OrphansFinite ==
    ASSUME orphans \subseteq Strays
    PROVE  IsFiniteSet(orphans) /\ Cardinality(orphans) \in Nat /\ OrphanDue \in Charges
<1>1. IsFiniteSet(orphans) /\ Limit \in Nat BY BlobAssumption, FS_Subset
<1>2. Cardinality(orphans) \in Nat BY <1>1, FS_CardinalityType
<1> DEFINE n == Cardinality(orphans)
           b == Limit * n
<1>3. n \in Int /\ b \in Int BY <1>1, <1>2
<1> HIDE DEF n, b
<1>4. Charge(0, b, n) \in Charges BY <1>3, ChargeType
<1> QED BY <1>1, <1>2, <1>4 DEF OrphanDue, n, b

\* What leaves the charges, the orphans and the files alone.
LEMMA ChargesKept ==
    ASSUME ChargesInv, UNCHANGED <<rows, store, subjects, orphans, disk, may>>
    PROVE  ChargesInv'
BY DEF ChargesInv, StraysSound, Owed, Objects, OrphanDue

LEMMA RowsMoved ==
    ASSUME ChargesInv, UNCHANGED <<store, subjects, orphans, disk, may>>,
           \A s \in Slots : /\ rows'[s].reserved = rows[s].reserved /\ rows'[s].bytes = rows[s].bytes
                            /\ rows'[s].state \in {"none", "deleted"} <=> rows[s].state \in {"none", "deleted"}
    PROVE  ChargesInv'
<1>1. Slots \in SUBSET Slots /\ AnonymousSlots \in SUBSET Slots BY BlobAssumption
<1>2. \A u \in Subjects : SlotsOf(u) \in SUBSET Slots BY DEF SlotsOf
<1>3. Owed(Slots)' = Owed(Slots) /\ Owed(AnonymousSlots)' = Owed(AnonymousSlots) BY <1>1, OwedSame
<1>4. \A u \in Subjects : Owed(SlotsOf(u))' = Owed(SlotsOf(u))
  <2> SUFFICES ASSUME NEW u \in Subjects PROVE Owed(SlotsOf(u))' = Owed(SlotsOf(u)) OBVIOUS
  <2> DEFINE S == SlotsOf(u)
  <2>1. S \in SUBSET Slots BY <1>2
  <2>2. S' = S BY DEF SlotsOf
  <2> HIDE DEF S
  <2>3. Owed(S)' = Owed(S) BY <2>1, OwedSame
  <2> QED BY <2>3 DEF S
<1>5. OrphanDue' = OrphanDue BY DEF OrphanDue
<1>6. StraysSound' BY DEF ChargesInv, StraysSound
<1> QED BY <1>3, <1>4, <1>5, <1>6 DEF ChargesInv

\* A charge applied with the row it is for: every counter of the row moves by what
\* the row's due does, the others not at all.
Moves(charged, charge, now, before) ==
    \A c \in Charges :
        (IF charged THEN Plus(c, charge) ELSE Minus(c, charge)) = Minus(Plus(c, Due(now)), Due(before))

LEMMA ChargeApplied ==
    ASSUME ChargesInv, rows \in [Slots -> Rows], rows' \in [Slots -> Rows], orphans \subseteq Strays,
           NEW s \in Slots, \A t \in Slots \ {s} : rows'[t] = rows[t],
           NEW charged \in BOOLEAN, NEW charge,
           Moves(charged, charge, rows'[s], rows[s]), Apply(s, charged, charge),
           UNCHANGED <<orphans, disk, may>>
    PROVE  ChargesInv'
<1> DEFINE now == Due(rows'[s])
           before == Due(rows[s])
           moved(c, by) == IF charged THEN Plus(c, by) ELSE Minus(c, by)
<1>1. now \in Charges /\ before \in Charges BY DueType
<1>2. \A c \in Charges : moved(c, charge) = Minus(Plus(c, now), before) BY DEF Moves
<1>3. store' = [all |-> moved(store.all, charge),
                anonymous |-> moved(store.anonymous, AnonymousPart(s, charge))]
      /\ subjects' = [subjects EXCEPT ![SubjectOf[s]] = moved(@, charge)]
  BY Zenon DEF Apply
<1>4. \A c \in Charges : moved(c, Empty) = c BY PlusEmpty
<1> HIDE DEF now, before, moved
<1>5. store.all = Plus(Owed(Slots), OrphanDue) /\ store.anonymous = Owed(AnonymousSlots) BY DEF ChargesInv
<1>6. Slots \in SUBSET Slots /\ AnonymousSlots \in SUBSET Slots BY BlobAssumption
<1>7. OrphanDue \in Charges /\ OrphanDue' = OrphanDue BY OrphansFinite DEF OrphanDue
<1>8. ASSUME NEW S \in SUBSET Slots
      PROVE  Owed(S) \in Charges /\ (s \in S => Owed(S)' = moved(Owed(S), charge)) /\ (s \notin S => Owed(S)' = Owed(S))
  <2>1. /\ Owed(S) \in Charges
        /\ s \in S => Owed(S)' = Minus(Plus(Owed(S), now), before)
        /\ s \notin S => Owed(S)' = Owed(S)
    BY OwedMoves DEF now, before
  <2> QED BY <1>2, <2>1
<1>9. moved(store.all, charge) = Plus(Owed(Slots)', OrphanDue')
  <2>1. Owed(Slots) \in Charges /\ Owed(Slots)' = moved(Owed(Slots), charge) BY <1>6, <1>8
  <2>2. store.all \in Charges BY <1>5, <1>7, <2>1, PlusType
  <2>3. moved(store.all, charge) = Minus(Plus(Plus(Owed(Slots), OrphanDue), now), before) BY <1>2, <1>5, <2>2
  <2>4. Owed(Slots)' = Minus(Plus(Owed(Slots), now), before) BY <1>2, <2>1
  <2>5. Minus(Plus(Plus(Owed(Slots), OrphanDue), now), before) = Plus(Minus(Plus(Owed(Slots), now), before), OrphanDue)
    BY <1>1, <1>7, <2>1, MovesBeside
  <2> QED BY <1>7, <2>3, <2>4, <2>5, Zenon
<1>10. moved(store.anonymous, AnonymousPart(s, charge)) = Owed(AnonymousSlots)'
  <2>1. CASE s \in AnonymousSlots
    <3>1. AnonymousPart(s, charge) = charge BY <2>1 DEF AnonymousPart, Anonymous
    <3> QED BY <1>5, <1>6, <1>8, <2>1, <3>1
  <2>2. CASE s \notin AnonymousSlots
    <3>1. AnonymousPart(s, charge) = Empty BY <2>2 DEF AnonymousPart, Anonymous
    <3> QED BY <1>4, <1>5, <1>6, <1>8, <2>2, <3>1
  <2> QED BY <2>1, <2>2
<1>11. subjects' = [u \in Subjects |-> Owed(SlotsOf(u))']
  <2>1. subjects = [u \in Subjects |-> Owed(SlotsOf(u))] BY DEF ChargesInv
  <2>2. ASSUME NEW u \in Subjects
        PROVE  Owed(SlotsOf(u))' = IF u = SubjectOf[s] THEN moved(Owed(SlotsOf(u)), charge) ELSE Owed(SlotsOf(u))
    <3> DEFINE S == SlotsOf(u)
    <3>1. S \in SUBSET Slots /\ (s \in S <=> u = SubjectOf[s]) /\ S' = S BY DEF SlotsOf
    <3> HIDE DEF S
    <3>2. Owed(S)' = IF u = SubjectOf[s] THEN moved(Owed(S), charge) ELSE Owed(S) BY <1>8, <3>1
    <3> QED BY <3>2 DEF S
  <2>3. SubjectOf[s] \in Subjects BY BlobAssumption
  <2> QED BY <1>3, <2>1, <2>2, <2>3
<1>12. StraysSound' BY DEF ChargesInv, StraysSound
<1>13. store' = [all |-> Plus(Owed(Slots)', OrphanDue'), anonymous |-> Owed(AnonymousSlots)'] BY <1>3, <1>9, <1>10
<1> QED BY <1>11, <1>12, <1>13 DEF ChargesInv

\* The dues of a row that was never reserved and of one whose object is gone.
LEMMA NoDue ==
    ASSUME NEW r, r.reserved = 0, r.bytes = 0, r.state \in {"none", "deleted"}
    PROVE  Due(r) = Empty
BY DEF Due, One, Empty

LEMMA PrepareCharges ==
    ASSUME BlobsInv, BlobsInv', ChargesInv, NEW s \in Slots, Prepare(s)
    PROVE  ChargesInv'
<1>1. rows \in [Slots -> Rows] /\ rows' \in [Slots -> Rows] /\ orphans \subseteq Strays
  BY DEF BlobsInv, TypeInv, TypeOK, Rows
<1>2. UNCHANGED <<orphans, disk, may>> BY DEF Prepare
<1>3. rows[s] = NoRow BY DEF Prepare
<1>4. \/ UNCHANGED <<rows, store, subjects>>
      \/ rows' = [rows EXCEPT ![s] = Reserved] /\ Apply(s, TRUE, Charge(Limit, 0, 1))
  BY Zenon DEF Prepare
<1>5. CASE UNCHANGED <<rows, store, subjects>> BY <1>2, <1>5, ChargesKept
<1>6. CASE rows' = [rows EXCEPT ![s] = Reserved] /\ Apply(s, TRUE, Charge(Limit, 0, 1))
  <2>1. rows'[s] = Reserved /\ \A t \in Slots \ {s} : rows'[t] = rows[t] BY <1>1, <1>6
  <2> DEFINE d == Charge(Limit, 0, 1)
  <2>2. Due(rows[s]) = Empty
    <3>1. NoRow.reserved = 0 /\ NoRow.bytes = 0 /\ NoRow.state = "none" BY DEF NoRow
    <3> QED BY <1>3, <3>1, NoDue
  <2>3. Due(rows'[s]) = d
    <3>1. Reserved.reserved = Limit /\ Reserved.bytes = 0 /\ Reserved.state = "uploading" BY DEF Reserved
    <3>2. One(Reserved) = 1 BY <3>1 DEF One
    <3> QED BY <2>1, <3>1, <3>2 DEF Due
  <2>4. d \in Charges BY BlobAssumption, ChargeType
  <2> HIDE DEF d
  <2>5. \A c \in Charges : Plus(c, d) = Minus(Plus(c, Due(rows'[s])), Due(rows[s]))
    <3> SUFFICES ASSUME NEW c \in Charges PROVE Plus(c, d) = Minus(Plus(c, d), Empty) BY <2>2, <2>3
    <3>1. Plus(c, d) \in Charges BY <2>4, PlusType
    <3> QED BY <3>1, PlusEmpty
  <2>6. Moves(TRUE, d, rows'[s], rows[s]) BY <2>5 DEF Moves
  <2>7. Apply(s, TRUE, d) BY <1>6 DEF d
  <2> QED BY <1>1, <1>2, <2>1, <2>6, <2>7, ChargeApplied
<1> QED BY <1>4, <1>5, <1>6

\* The reservation becomes the bytes received: one charge for the two.
LEMMA StagedCharge ==
    ASSUME NEW size \in Int
    PROVE  \A c \in Charges :
               Minus(c, Charge(Limit, 0 - size, 0)) = Minus(Plus(c, Charge(0, size, 1)), Charge(Limit, 0, 1))
<1> SUFFICES ASSUME NEW c \in Charges
             PROVE  Minus(c, Charge(Limit, 0 - size, 0)) = Minus(Plus(c, Charge(0, size, 1)), Charge(Limit, 0, 1))
  OBVIOUS
<1> DEFINE a == c.reserved
           b == c.used
           o == c.objects
           n == 0 - size
           d == Charge(Limit, n, 0)
           x == Charge(0, size, 1)
           y == Charge(Limit, 0, 1)
           p == a + 0
           q == b + size
           r == o + 1
<1>1. c = Charge(a, b, o) /\ a \in Int /\ b \in Int /\ o \in Int BY ChargeParts
<1>2. Limit \in Int BY BlobAssumption
<1>3. a - Limit = p - Limit /\ b - n = q - 0 /\ o - 0 = r - 1 BY <1>1, <1>2
<1> HIDE DEF a, b, o, n
<1>4. Minus(Charge(a, b, o), d) = Charge(a - Limit, b - n, o - 0) BY PlusCharge
<1>5. Plus(Charge(a, b, o), x) = Charge(p, q, r) BY PlusCharge
<1> HIDE DEF p, q, r
<1>6. Minus(Charge(p, q, r), y) = Charge(p - Limit, q - 0, r - 1) BY PlusCharge
<1> HIDE DEF d, x, y
<1>7. Minus(c, d) = Minus(Plus(c, x), y) BY <1>1, <1>3, <1>4, <1>5, <1>6, Zenon
<1> QED BY <1>7 DEF d, x, y, n

LEMMA PublishCharges ==
    ASSUME BlobsInv, BlobsInv', ChargesInv, NEW s \in Slots, Publish(s)
    PROVE  ChargesInv'
<1>1. rows \in [Slots -> Rows] /\ rows' \in [Slots -> Rows] /\ orphans \subseteq Strays
  BY DEF BlobsInv, TypeInv, TypeOK, Rows
<1>2. UNCHANGED <<orphans, disk, may>> BY DEF Publish
<1>3. rows[s].state = "uploading" BY DEF Publish, Stageable
<1>4. PICK size \in Sizes :
        \/ UNCHANGED <<rows, store, subjects>>
        \/ /\ rows' = [rows EXCEPT ![s] = StagedRow(rows[s], size)]
           /\ Apply(s, FALSE, Charge(Limit, 0 - size, 0))
  BY DEF Publish
<1>5. CASE UNCHANGED <<rows, store, subjects>> BY <1>2, <1>5, ChargesKept
<1>6. CASE rows' = [rows EXCEPT ![s] = StagedRow(rows[s], size)] /\ Apply(s, FALSE, Charge(Limit, 0 - size, 0))
  <2> DEFINE d == Charge(Limit, 0 - size, 0)
             t == Moved(rows[s], "staged")
  <2>1. rows'[s] = StagedRow(rows[s], size) /\ \A u \in Slots \ {s} : rows'[u] = rows[u] BY <1>1, <1>6
  <2>2. Due(rows[s]) = Charge(Limit, 0, 1)
    <3>1. rows[s].reserved = Limit /\ rows[s].bytes = 0 BY <1>3 DEF BlobsInv, SlotSound, RowSound
    <3>2. One(rows[s]) = 1 BY <1>3 DEF One
    <3> QED BY <3>1, <3>2 DEF Due
  <2>3. Due(rows'[s]) = Charge(0, size, 1)
    <3>1. t \in Rows /\ t.state = "staged" BY <1>1, MovedRow DEF States
    <3>2. StagedRow(rows[s], size) = [t EXCEPT !.reserved = 0, !.bytes = size] BY DEF StagedRow
    <3> HIDE DEF t
    <3>3. rows'[s].reserved = 0 /\ rows'[s].bytes = size /\ rows'[s].state = "staged" BY <2>1, <3>1, <3>2 DEF Rows
    <3>4. One(rows'[s]) = 1 BY <3>3 DEF One
    <3> QED BY <3>3, <3>4 DEF Due
  <2>4. size \in Int BY BlobAssumption
  <2>5. \A c \in Charges : Minus(c, d) = Minus(Plus(c, Due(rows'[s])), Due(rows[s])) BY <2>2, <2>3, <2>4, StagedCharge
  <2>6. Apply(s, FALSE, d) BY <1>6 DEF d
  <2> HIDE DEF d
  <2>7. Moves(FALSE, d, rows'[s], rows[s]) BY <2>5 DEF Moves
  <2> QED BY <1>1, <1>2, <2>1, <2>6, <2>7, ChargeApplied
<1> QED BY <1>4, <1>5, <1>6

LEMMA DeletedCharges ==
    ASSUME BlobsInv, BlobsInv', ChargesInv, RecDeleted
    PROVE  ChargesInv'
<1>1. rows \in [Slots -> Rows] /\ rows' \in [Slots -> Rows] /\ orphans \subseteq Strays
  BY DEF BlobsInv, TypeInv, TypeOK, Rows
<1>2. UNCHANGED <<orphans, disk, may>> BY DEF RecDeleted
<1>3. PICK s : /\ s = Item.slot /\ rows[s].state = "deleting"
               /\ \/ UNCHANGED <<rows, store, subjects>>
                  \/ /\ rows' = [rows EXCEPT ![s] = DeletedRow(rows[s])]
                     /\ Apply(s, FALSE, Charge(rows[s].reserved, rows[s].bytes, 1))
  BY DEF RecDeleted
<1>4. s \in Slots
  <2>1. rec.pc = "remove" BY DEF RecDeleted
  <2>2. rec \in Pages /\ rec.queue # <<>> BY <2>1 DEF BlobsInv, TypeInv, PageSound
  <2>3. Item \in Items
    <3>1. rec.queue \in Seq(Items) BY <2>2 DEF Pages
    <3> QED BY <2>2, <3>1 DEF Item
  <2> QED BY <1>3, <2>3 DEF Items
<1>5. CASE UNCHANGED <<rows, store, subjects>> BY <1>2, <1>5, ChargesKept
<1>6. CASE /\ rows' = [rows EXCEPT ![s] = DeletedRow(rows[s])]
           /\ Apply(s, FALSE, Charge(rows[s].reserved, rows[s].bytes, 1))
  <2> DEFINE d == Charge(rows[s].reserved, rows[s].bytes, 1)
             t == Moved(rows[s], "deleted")
  <2>1. rows'[s] = DeletedRow(rows[s]) /\ \A u \in Slots \ {s} : rows'[u] = rows[u] BY <1>1, <1>4, <1>6
  <2>2. Due(rows[s]) = d
    <3>1. One(rows[s]) = 1 BY <1>3 DEF One
    <3> QED BY <3>1 DEF Due
  <2>3. Due(rows'[s]) = Empty
    <3>1. t \in Rows /\ t.state = "deleted" BY <1>1, <1>4, MovedRow DEF States
    <3>2. DeletedRow(rows[s]) = [t EXCEPT !.reserved = 0, !.bytes = 0] BY DEF DeletedRow
    <3> HIDE DEF t
    <3>3. rows'[s].reserved = 0 /\ rows'[s].bytes = 0 /\ rows'[s].state = "deleted" BY <2>1, <3>1, <3>2 DEF Rows
    <3> QED BY <3>3, NoDue
  <2>4. Apply(s, FALSE, d) BY <1>6 DEF d
  <2> HIDE DEF d
  <2>5. \A c \in Charges : Minus(c, d) = Minus(Plus(c, Due(rows'[s])), Due(rows[s])) BY <2>2, <2>3, PlusEmpty
  <2>6. Moves(FALSE, d, rows'[s], rows[s]) BY <2>5 DEF Moves
  <2> QED BY <1>1, <1>2, <1>4, <2>1, <2>4, <2>6, ChargeApplied
<1> QED BY <1>3, <1>5, <1>6

\* A row that moves without a charge.
LEMMA RowMoveCharges ==
    ASSUME ChargesInv, rows \in [Slots -> Rows], NEW s \in Slots, NEW r \in Rows,
           rows' = [rows EXCEPT ![s] = r],
           r.reserved = rows[s].reserved, r.bytes = rows[s].bytes,
           r.state \notin {"none", "deleted"}, rows[s].state \notin {"none", "deleted"},
           UNCHANGED <<store, subjects, orphans, disk, may>>
    PROVE  ChargesInv'
<1>1. \A t \in Slots : rows'[t] = IF t = s THEN r ELSE rows[t] OBVIOUS
<1>2. ASSUME NEW t \in Slots
      PROVE  /\ rows'[t].reserved = rows[t].reserved /\ rows'[t].bytes = rows[t].bytes
             /\ rows'[t].state \in {"none", "deleted"} <=> rows[t].state \in {"none", "deleted"}
  <2>1. CASE t = s BY <1>1, <2>1
  <2>2. CASE t # s BY <1>1, <2>2
  <2> QED BY <2>1, <2>2
<1> QED BY <1>2, RowsMoved

LEMMA AttachCharges ==
    ASSUME BlobsInv, ChargesInv, NEW s \in Slots, Attach(s) \/ Detach(s)
    PROVE  ChargesInv'
<1>1. rows \in [Slots -> Rows] /\ rows[s] \in Rows BY DEF BlobsInv, TypeInv, TypeOK, Rows
<1>2. UNCHANGED <<store, subjects, orphans, disk, may>> BY DEF Attach, Detach
<1>3. PICK state \in {"attached", "unreferenced"} :
        rows' = [rows EXCEPT ![s] = Moved(rows[s], state)]
  BY DEF Attach, Detach, AttachedRow, UnreferencedRow
<1>4. rows[s].state \notin {"none", "deleted"} BY DEF Attach, Detach, Attachable
<1>5. Moved(rows[s], state) \in Rows /\ Moved(rows[s], state).state = state
      /\ Moved(rows[s], state).reserved = rows[s].reserved /\ Moved(rows[s], state).bytes = rows[s].bytes
  BY <1>1, MovedRow DEF States
<1>6. Moved(rows[s], state).state \notin {"none", "deleted"} BY <1>5
<1> QED BY <1>1, <1>2, <1>3, <1>4, <1>5, <1>6, RowMoveCharges

LEMMA ClaimCharges ==
    ASSUME BlobsInv, ChargesInv, RecClaim
    PROVE  ChargesInv'
<1>1. rows \in [Slots -> Rows] BY DEF BlobsInv, TypeInv, TypeOK, Rows
<1>2. UNCHANGED <<store, subjects, orphans, disk, may>> BY DEF RecClaim
<1>3. rec.pc = "claim" /\ rec \in Pages /\ rec.queue # <<>> /\ Item \in Range(rec.queue) /\ InHand(Item)
      /\ Item \in Items
  <2>1. rec.pc = "claim" BY DEF RecClaim
  <2>2. rec \in Pages /\ rec.queue # <<>> BY <2>1 DEF BlobsInv, TypeInv, PageSound
  <2>3. rec.queue \in Seq(Items) BY <2>2 DEF Pages
  <2>4. Item \in Range(rec.queue) /\ Item \in Items BY <2>2, <2>3 DEF Item, Range
  <2> QED BY <2>1, <2>2, <2>4 DEF BlobsInv, PageSound
<1>4. PICK s : /\ s = Item.slot
               /\ \/ rows' = rows
                  \/ /\ rows[s].gen = Item.row.gen
                     /\ rows' = [rows EXCEPT ![s] = ClaimedRow(rows[s])]
  BY DEF RecClaim
<1>5. s \in Slots BY <1>3, <1>4 DEF Items
<1>6. CASE rows' = rows BY <1>2, <1>6, ChargesKept
<1>7. CASE rows[s].gen = Item.row.gen /\ rows' = [rows EXCEPT ![s] = ClaimedRow(rows[s])]
  <2> DEFINE t == Moved(rows[s], "deleting")
             r == ClaimedRow(rows[s])
  <2>1. rows[s].state \notin {"none", "deleted"} BY <1>3, <1>4, <1>7 DEF InHand, Claimable
  <2>2. t \in Rows /\ t.state = "deleting" /\ t.reserved = rows[s].reserved /\ t.bytes = rows[s].bytes
    BY <1>1, <1>5, MovedRow DEF States
  <2>3. r = [t EXCEPT !.process = process] /\ process \in Nat BY DEF ClaimedRow, BlobsInv, TypeInv
  <2>4. rows' = [rows EXCEPT ![s] = r] BY <1>7
  <2> HIDE DEF t, r
  <2>5. r \in Rows /\ r.state = "deleting" /\ r.reserved = rows[s].reserved /\ r.bytes = rows[s].bytes
    BY <2>2, <2>3 DEF Rows
  <2>6. r.state \notin {"none", "deleted"} BY <2>5
  <2> QED BY <1>1, <1>2, <1>5, <2>1, <2>4, <2>5, <2>6, RowMoveCharges
<1> QED BY <1>4, <1>6, <1>7

\* The names of unknown files are one each.
LEMMA StrayCharge ==
    ASSUME NEW U \in SUBSET Strays, \A k \in U : disk[k] = {"final"}
    PROVE  /\ IsFiniteSet(U) /\ Cardinality(U) \in Nat
           /\ OrphanCharge(U) = Charge(0, Limit * Cardinality(U), Cardinality(U))
<1>1. IsFiniteSet(U) BY BlobAssumption, FS_Subset
<1>2. Cardinality(U) \in Nat /\ Limit \in Nat BY <1>1, BlobAssumption, FS_CardinalityType
<1> DEFINE names == UNION {{k} \X disk[k] : k \in U}
           n == Cardinality(U)
<1>3. names = U \X {"final"}
  <2>1. \A p \in names : p \in U \X {"final"} OBVIOUS
  <2>2. ASSUME NEW p \in U \X {"final"} PROVE p \in names
    <3>1. p[1] \in U /\ p \in {p[1]} \X disk[p[1]] OBVIOUS
    <3> QED BY <3>1
  <2> HIDE DEF names
  <2> QED BY <2>1, <2>2
<1>4. IsFiniteSet({"final"}) /\ Cardinality({"final"}) = 1 BY FS_Singleton
<1>5. Cardinality(U \X {"final"}) = n * 1 BY <1>1, <1>4, FS_Product, Zenon
<1>6. OrphanCharge(U) = Charge(0, FileBytes(names), Cardinality(names)) BY DEF OrphanCharge
<1> HIDE DEF names
<1>7. Cardinality(names) = n
  <2>1. n \in Nat BY <1>2
  <2>2. Cardinality(names) = n * 1 BY <1>3, <1>5, Zenon
  <2> HIDE DEF n
  <2> QED BY <2>1, <2>2
<1>8. FileBytes(names) = n * Limit BY <1>7 DEF FileBytes
<1>9. n * Limit = Limit * n
  <2>1. n \in Int /\ Limit \in Int BY <1>2
  <2> HIDE DEF n
  <2> QED BY <2>1
<1>10. OrphanCharge(U) = Charge(0, Limit * n, n) BY <1>6, <1>7, <1>8, <1>9, Zenon
<1> QED BY <1>1, <1>2, <1>10 DEF n

LEMMA PageCharges ==
    ASSUME BlobsInv, ChargesInv, RecPage
    PROVE  ChargesInv'
<1> DEFINE unknown == {k \in rec.batch : ~Known(k) /\ disk[k] # {}}
           U == unknown \ orphans
<1>1. rec \in Pages /\ orphans \subseteq Strays BY DEF BlobsInv, TypeInv, TypeOK
<1>2. rec.batch \subseteq Keys BY <1>1 DEF Pages
<1>3. UNCHANGED <<rows, subjects, disk, may>> BY DEF RecPage
<1>4. \/ UNCHANGED <<orphans, store>>
      \/ /\ orphans' = orphans \cup unknown
         /\ store' = [store EXCEPT !.all = Plus(store.all, OrphanCharge(U))]
  BY DEF RecPage
<1>5. unknown \subseteq Strays
  <2>1. ASSUME NEW k \in Slots, k \in unknown PROVE FALSE
    <3>1. rows[k] = NoRow /\ disk[k] # {} BY <2>1 DEF Known
    <3>2. rows[k].state = "none" BY <3>1 DEF NoRow
    <3>3. disk[k] = {} BY <3>2 DEF BlobsInv, SlotSound, DiskSound, Gone
    <3> QED BY <3>1, <3>3
  <2> QED BY <1>2, <2>1 DEF Keys
<1>6. \A k \in U : disk[k] = {"final"} BY <1>5 DEF ChargesInv, StraysSound
<1>7. U \in SUBSET Strays /\ U \cap orphans = {} /\ orphans \cup unknown = orphans \cup U BY <1>5
<1>8. CASE UNCHANGED <<orphans, store>> BY <1>3, <1>8, ChargesKept
<1> HIDE DEF unknown, U
<1>9. CASE /\ orphans' = orphans \cup unknown
           /\ store' = [store EXCEPT !.all = Plus(store.all, OrphanCharge(U))]
  <2> DEFINE o == Owed(Slots)
             m == Cardinality(orphans)
             n == Cardinality(U)
             p == m + n
             b == Limit * m
             x == Limit * n
             y == Limit * p
  <2>1. IsFiniteSet(U) /\ n \in Nat /\ OrphanCharge(U) = Charge(0, x, n) BY <1>6, <1>7, StrayCharge
  <2>2. IsFiniteSet(orphans) /\ m \in Nat BY <1>1, OrphansFinite
  <2>3. Cardinality(orphans \cup U) = p
    <3>1. Cardinality(orphans \cup U) = Cardinality(orphans) + Cardinality(U) - Cardinality(orphans \cap U)
      BY <2>1, <2>2, FS_Union
    <3>2. Cardinality(orphans \cap U) = 0
      <4>1. orphans \cap U = {} BY <1>7
      <4> QED BY <4>1, FS_EmptySet
    <3> QED BY <2>1, <2>2, <3>1, <3>2
  <2>4. Limit \in Nat /\ o \in Charges
    <3>1. Slots \in SUBSET Slots OBVIOUS
    <3> QED BY <3>1, BlobAssumption, OwedType
  <2>5. OrphanDue = Charge(0, b, m) /\ OrphanDue' = Charge(0, y, p) BY <1>7, <1>9, <2>3 DEF OrphanDue
  <2> HIDE DEF o, m, n
  <2>6. b \in Int /\ x \in Int /\ y = b + x /\ p \in Int BY <2>1, <2>2, <2>4
  <2> HIDE DEF p, b, x, y
  <2>7. Plus(Plus(o, Charge(0, b, m)), Charge(0, x, n)) = Plus(o, Charge(0, y, p))
    <3> DEFINE l == Plus(o, Charge(0, b, m))
               q == Plus(l, Charge(0, x, n))
               r == Plus(o, Charge(0, y, p))
    <3>1. Charge(0, b, m) \in Charges /\ Charge(0, x, n) \in Charges /\ Charge(0, y, p) \in Charges
      <4>1. m \in Int /\ n \in Int /\ y \in Int BY <2>1, <2>2, <2>6
      <4> QED BY <2>6, <4>1, ChargeType
    <3>2. l \in Charges BY <2>4, <3>1, PlusType
    <3>3. q \in Charges /\ r \in Charges BY <2>4, <3>1, <3>2, PlusType
    <3>4. /\ l.reserved = o.reserved + Charge(0, b, m).reserved /\ l.used = o.used + Charge(0, b, m).used
          /\ l.objects = o.objects + Charge(0, b, m).objects
      BY PlusIs, Zenon
    <3>5. /\ r.reserved = o.reserved + Charge(0, y, p).reserved /\ r.used = o.used + Charge(0, y, p).used
          /\ r.objects = o.objects + Charge(0, y, p).objects
      BY PlusIs, Zenon
    <3>6. /\ q.reserved = l.reserved + Charge(0, x, n).reserved /\ q.used = l.used + Charge(0, x, n).used
          /\ q.objects = l.objects + Charge(0, x, n).objects
      BY PlusIs, Zenon
    <3>7. /\ l.reserved = o.reserved + 0 /\ l.used = o.used + b /\ l.objects = o.objects + m
          /\ r.reserved = o.reserved + 0 /\ r.used = o.used + y /\ r.objects = o.objects + p
          /\ q.reserved = l.reserved + 0 /\ q.used = l.used + x /\ q.objects = l.objects + n
      <4>1. Charge(0, b, m).reserved = 0 /\ Charge(0, b, m).used = b /\ Charge(0, b, m).objects = m BY ChargeIs
      <4>2. Charge(0, x, n).reserved = 0 /\ Charge(0, x, n).used = x /\ Charge(0, x, n).objects = n BY ChargeIs
      <4>3. Charge(0, y, p).reserved = 0 /\ Charge(0, y, p).used = y /\ Charge(0, y, p).objects = p BY ChargeIs
      <4> HIDE DEF l, q, r
      <4> QED BY <3>4, <3>5, <3>6, <4>1, <4>2, <4>3
    <3>8. o.reserved \in Int /\ o.used \in Int /\ o.objects \in Int BY <2>4, ChargeParts
    <3> HIDE DEF l, q, r
    <3>9. q.reserved = r.reserved /\ q.used = r.used BY <2>6, <3>7, <3>8
    <3>10. q.objects = r.objects BY <2>1, <2>2, <3>7, <3>8 DEF p
    <3>11. q = r BY <3>3, <3>9, <3>10, ChargeSame
    <3> QED BY <3>11 DEF l, q, r
  <2>8. store.all = Plus(o, OrphanDue) BY DEF ChargesInv, o
  <2>9. Plus(store.all, OrphanCharge(U)) = Plus(o, OrphanDue') BY <2>1, <2>5, <2>7, <2>8, Zenon
  <2>10. store = [all |-> store.all, anonymous |-> store.anonymous] BY DEF ChargesInv
  <2>11. store' = [all |-> Plus(o, OrphanDue'), anonymous |-> store.anonymous] BY <1>9, <2>9, <2>10
  <2>12. Owed(Slots)' = o /\ store.anonymous = Owed(AnonymousSlots) /\ Owed(AnonymousSlots)' = Owed(AnonymousSlots)
    BY <1>3 DEF ChargesInv, Owed, Objects, o
  <2>13. subjects' = [u \in Subjects |-> Owed(SlotsOf(u))]' BY <1>3 DEF ChargesInv, Owed, Objects
  <2>14. StraysSound' BY <1>3 DEF ChargesInv, StraysSound
  <2> QED BY <2>11, <2>12, <2>13, <2>14 DEF ChargesInv
<1> QED BY <1>4, <1>8, <1>9

\* No call of a worker is on a stray file.
LEMMA JobStepCharges ==
    ASSUME BlobsInv, ChargesInv, NEW j \in jobs, JobStep(j)
    PROVE  ChargesInv'
<1>1. UNCHANGED <<rows, store, subjects, orphans>> BY DEF JobStep, durable
<1>2. j.key \in Slots BY DEF BlobsInv, TypeInv, JobRecords
<1>3. \A k \in Strays : k # j.key BY <1>2, BlobAssumption
<1>4. disk \in [Keys -> SUBSET Names] /\ may \in [Keys -> SUBSET SUBSET Names] BY DEF BlobsInv, TypeInv, TypeOK
<1>5. \A k \in Strays : disk'[k] = disk[k] /\ may'[k] = may[k] BY <1>3, <1>4 DEF JobStep, Keys
<1>6. StraysSound' BY <1>5 DEF ChargesInv, StraysSound
<1> QED BY <1>1, <1>6 DEF ChargesInv, Owed, Objects, OrphanDue

LEMMA CrashCharges ==
    ASSUME ChargesInv, NEW power \in BOOLEAN, Crash(power)
    PROVE  ChargesInv'
<1>1. UNCHANGED <<rows, store, subjects, orphans>> BY DEF Crash, durable
<1>2. CASE UNCHANGED <<disk, may>> BY <1>1, <1>2, ChargesKept
<1>3. CASE /\ disk' \in {d \in [Keys -> UNION {may[k] : k \in Keys}] : \A k \in Keys : d[k] \in may[k]}
           /\ may' = [k \in Keys |-> {disk'[k]}]
  <2>1. \A k \in Strays : disk'[k] \in may[k] /\ may'[k] = {disk'[k]} BY <1>3 DEF Keys
  <2>2. \A k \in Strays : may[k] = {disk[k]} /\ disk[k] \in {{}, {"final"}} BY DEF ChargesInv, StraysSound
  <2>3. \A k \in Strays : disk'[k] = disk[k] /\ may'[k] = may[k] BY <2>1, <2>2
  <2>4. StraysSound' BY <2>2, <2>3 DEF StraysSound
  <2> QED BY <1>1, <2>4 DEF ChargesInv, Owed, Objects, OrphanDue
<1> QED BY <1>2, <1>3 DEF Crash

LEMMA InitCharges == Init => ChargesInv
<1> SUFFICES ASSUME Init PROVE ChargesInv OBVIOUS
<1>1. orphans = {} BY DEF Init
<1>2. store = [all |-> Owed(Slots), anonymous |-> Owed(AnonymousSlots)] BY DEF Init
<1>3. subjects = [u \in Subjects |-> Owed({s \in Slots : SubjectOf[s] = u})] BY DEF Init
<1>4. PICK files : /\ disk = [k \in Keys |-> IF k \in files THEN {"final"} ELSE {}]
                   /\ may = [k \in Keys |-> {disk[k]}]
  BY DEF Init
<1>5. StraysSound BY <1>4 DEF StraysSound, Keys
<1>6. OrphanDue = Empty
  <2>1. Cardinality(orphans) = 0 BY <1>1, FS_EmptySet
  <2>2. Limit * 0 = 0 BY BlobAssumption
  <2> QED BY <2>1, <2>2 DEF OrphanDue, Empty
<1>7. Slots \in SUBSET Slots OBVIOUS
<1>8. Plus(Owed(Slots), OrphanDue) = Owed(Slots) BY <1>6, <1>7, OwedType, PlusEmpty
<1> QED BY <1>2, <1>3, <1>5, <1>8 DEF ChargesInv, SlotsOf

LEMMA StepCharges == BlobsInv /\ BlobsInv' /\ ChargesInv /\ [Next]_vars => ChargesInv'
<1> SUFFICES ASSUME BlobsInv, BlobsInv', ChargesInv, [Next]_vars PROVE ChargesInv' OBVIOUS
<1>1. CASE Activation
  BY <1>1, ChargesKept DEF Activation, PreparePair, InstallPair, AcknowledgePair, durable
<1>2. CASE Maintenance
  <2>1. CASE RecInventory \/ RecPlan \/ RecDispatch \/ DropPage \/ RecEnd
    BY <2>1, ChargesKept DEF RecInventory, RecPlan, RecDispatch, DropPage, RecEnd, durable
  <2>2. CASE RecPage BY <2>2, PageCharges
  <2>3. CASE RecClaim BY <2>3, ClaimCharges
  <2>4. CASE RecDeleted BY <2>4, DeletedCharges
  <2> QED BY <1>2, <2>1, <2>2, <2>3, <2>4 DEF Maintenance
<1>3. ASSUME NEW s \in Slots,
             Prepare(s) \/ Dispatch(s) \/ Publish(s) \/ DropRequest(s)
             \/ Attach(s) \/ Detach(s) \/ Expire(s)
      PROVE  ChargesInv'
  <2>1. CASE Dispatch(s) \/ DropRequest(s) \/ Expire(s)
    BY <2>1, ChargesKept DEF Dispatch, DropRequest, Expire, durable
  <2> QED BY <1>3, <2>1, PrepareCharges, PublishCharges, AttachCharges
<1>4. ASSUME NEW j \in jobs, JobMoves(j) PROVE ChargesInv'
  <2>1. CASE JobStop(j) BY <2>1, ChargesKept DEF JobStop, durable
  <2> QED BY <1>4, <2>1, JobStepCharges DEF JobMoves
<1>5. ASSUME NEW power \in BOOLEAN, Crash(power) PROVE ChargesInv' BY <1>5, CrashCharges
<1>6. CASE UNCHANGED vars BY <1>6, ChargesKept DEF vars, durable
<1> QED BY <1>1, <1>2, <1>3, <1>4, <1>5, <1>6 DEF Next

\* The counters of the store, of the anonymous share and of every subject are the
\* sums of what the live rows and the orphans are charged: no reservation is lost
\* or released twice, whatever commit came back unknown, whichever process resumed
\* the deletion (reserve_upload, publish_upload, MetadataContext::deleted,
\* quarantine_unknown).
THEOREM ChargesAlwaysExact == Spec => []ChargesExact
<1>1. ChargesInv => ChargesExact
  <2> SUFFICES ASSUME ChargesInv PROVE ChargesExact OBVIOUS
  <2>1. store.all = Plus(Owed(Slots), OrphanDue) /\ store.anonymous = Owed(AnonymousSlots) BY DEF ChargesInv
  <2>2. \A u \in Subjects : subjects[u] = Owed({s \in Slots : SubjectOf[s] = u}) BY DEF ChargesInv, SlotsOf
  <2> QED BY <2>1, <2>2 DEF ChargesExact, OrphanDue
<1>2. Spec => []ChargesInv BY InitCharges, StepCharges, AlwaysSound, PTL DEF Spec
<1> QED BY <1>1, <1>2, PTL
=============================================================================
