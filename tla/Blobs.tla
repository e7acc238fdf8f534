-------------------------------- MODULE Blobs --------------------------------
(***************************************************************************)
(* Uploaded files: the metadata rows of nx_blobs with their quota          *)
(* counters, the files in the private store directory, and the process     *)
(* that moves both.  A file and its row are never written in one step: a   *)
(* reservation is committed before a native worker creates the file, the   *)
(* stage after the worker has synced and renamed it, the claim before      *)
(* another worker unlinks it, the release after.  Requests are dropped,    *)
(* commits come back unknown, workers outlive the request that started     *)
(* them, and the process or the machine dies between any two steps.        *)
(*                                                                         *)
(* A row is never removed, so a slot (one verified form) names one object  *)
(* key for good.  disk[k] is what the directory shows under key k, and     *)
(* may[k] what a power loss may leave of it.                               *)
(***************************************************************************)
EXTENDS Integers, FiniteSets, FiniteSetsExt, Sequences, SequencesExt

CONSTANTS
    Slots,          \* upload slots, in the order of their commitments (Nat)
    Strays,         \* keys of files an older database does not know
    Subjects,
    SubjectOf,      \* [Slots -> Subjects]
    AnonymousSlots,
    Limit,          \* bytes a reservation charges (the input's max_bytes)
    Sizes,          \* the sizes of the files received
    AppBytes, MaxObjects, LiveStages, AnonymousBytes,
    InspectionPage, \* INSPECTION_PAGE (16)
    MaxDeletions,   \* deletions per maintenance page (4)
    \* bounds of the explored instance
    MaxFaults, MaxProcess

ASSUME BlobAssumption ==
    /\ Slots \subseteq Nat \ {0} /\ IsFiniteSet(Slots) /\ IsFiniteSet(Strays)
    /\ Slots \cap Strays = {}
    /\ SubjectOf \in [Slots -> Subjects]
    /\ AnonymousSlots \subseteq Slots
    /\ Sizes \subseteq 0 .. Limit
    /\ {Limit, InspectionPage, MaxDeletions} \subseteq Nat \ {0}

Keys == Slots \cup Strays

VARIABLES
    rows,           \* nx_blobs
    store,          \* counters of nx_blob_store
    subjects,       \* counters of nx_blob_subjects
    orphans,        \* nx_blob_orphans
    expired,        \* rows whose expires_ms the lifecycle clock has passed
    disk, may,      \* the store directory, now and after a power loss
    pair,           \* nx_blob_store.pair_state
    marker,         \* the pairing marker file
    process,        \* number of the process holding the flock; its key
    phase,          \* activation of that process
    inventoried,    \* inventory_complete
    quarantined,
    scan,           \* the open directory scan, <<keys still to inspect>>, or <<>>
    cursor,         \* metadata_cursor
    workers, undispatched,  \* witnesses by object key
    leaked,         \* witnesses registered for reservations that rolled back
    jobs,           \* native workers running on an object
    requests,       \* the upload request of a slot
    rec,            \* the maintenance page in progress
    faults

durable == <<rows, store, subjects, orphans>>
volatile == <<inventoried, quarantined, scan, cursor, workers, undispatched, leaked>>
vars == <<durable, expired, disk, may, pair, marker, process, phase, volatile,
          jobs, requests, rec, faults>>

-----------------------------------------------------------------------------
NoRow == [state |-> "none", gen |-> 0, process |-> 0, reserved |-> 0, bytes |-> 0]
NoWitness == [gen |-> 0, stopped |-> FALSE, failed |-> FALSE]
Witness(gen) == [gen |-> gen, stopped |-> FALSE, failed |-> FALSE]
Unstarted(gen) == [gen |-> gen, stopped |-> TRUE, failed |-> TRUE]
NoRec == [pc |-> "idle", batch |-> {}, complete |-> FALSE, queue |-> <<>>,
          kind |-> "none", deleted |-> 0]

Ended(ok) == [NoRec EXCEPT !.pc = "ended", !.complete = ok]

Charge(reserved, bytes, objects) ==
    [reserved |-> reserved, used |-> bytes, objects |-> objects]
Plus(c, d) == Charge(c.reserved + d.reserved, c.used + d.used, c.objects + d.objects)
Minus(c, d) == Charge(c.reserved - d.reserved, c.used - d.used, c.objects - d.objects)
Empty == Charge(0, 0, 0)

\* The sum of amounts of at most Limit over the slots of S, byte by byte.
Sum(S, amount) == Cardinality({p \in S \X (1 .. Limit) : p[2] <= amount[p[1]]})
\* What the rows of S are charged.
Objects(S) == {s \in S : rows[s].state \notin {"none", "deleted"}}
Owed(S) == Charge(Sum(S, [s \in Slots |-> rows[s].reserved]), Sum(S, [s \in Slots |-> rows[s].bytes]),
                  Cardinality(Objects(S)))
Kept(size) == [state |-> "attached", gen |-> 3, process |-> 0,
               reserved |-> 0, bytes |-> size]

\* A commit is acknowledged, or comes back unknown having been applied or not.
Outcomes == {"acked"} \cup IF faults < MaxFaults THEN {"applied", "lost"} ELSE {}
Spend(outcome) == faults' = IF outcome = "acked" THEN faults ELSE faults + 1
Fault == faults < MaxFaults /\ faults' = faults + 1

\* Drop of a ReservationLease: its witness counts as stopped.
StopUnstarted(w) == [w EXCEPT !.stopped = TRUE, !.failed = TRUE]

Init ==
    /\ orphans = {} /\ expired = {}
    \* A new pair, or one in use whose restored database may miss later files.
    /\ \E kept \in SUBSET Slots, stray \in SUBSET Strays, size \in Sizes :
        /\ rows = [s \in Slots |-> IF s \in kept THEN Kept(size) ELSE NoRow]
        /\ store = [all |-> Owed(Slots), anonymous |-> Owed(AnonymousSlots)]
        /\ subjects = [u \in Subjects |-> Owed({s \in Slots : SubjectOf[s] = u})]
        /\ disk = [k \in Keys |-> IF k \in kept \cup stray THEN {"final"} ELSE {}]
        /\ may = [k \in Keys |-> {disk[k]}]
        /\ \/ kept \cup stray = {} /\ pair = "none" /\ marker = "none"
           \/ pair = "paired" /\ marker = "durable"
    /\ process = 1 /\ phase = "observe"
    /\ inventoried = FALSE /\ quarantined = FALSE
    /\ scan = <<>> /\ cursor = 0
    /\ workers = [k \in Keys |-> NoWitness]
    /\ undispatched = [k \in Keys |-> NoWitness]
    /\ leaked = 0
    /\ jobs = {} /\ requests = [s \in Slots |-> "idle"] /\ rec = NoRec
    /\ faults = 0

-----------------------------------------------------------------------------
(* Activation: pairing the directory with the database *)

NoFiles == \A k \in Keys : disk[k] = {}

\* PairObservation::decide on what the directory and nx_blob_store show.
Decide ==
    CASE pair = "none" ->
            IF marker = "none" /\ NoFiles THEN "create" ELSE "refuse"
      [] pair = "paired" ->
            IF marker \in {"renamed", "durable"} THEN "ready" ELSE "refuse"
      [] pair = "pending" ->
            IF ~NoFiles THEN "refuse"
            ELSE IF marker \in {"renamed", "durable"} THEN "acknowledge"
            ELSE "install"

\* observe_pair, prepare_pair and its commit.
PreparePair ==
    /\ phase = "observe" /\ Decide # "refuse"
    /\ \E outcome \in Outcomes :
        /\ Spend(outcome)
        /\ pair' = IF Decide = "create" /\ outcome # "lost" THEN "pending" ELSE pair
        /\ phase' = IF outcome # "acked" THEN "failed"
                    ELSE IF Decide = "ready" THEN "first" ELSE "install"
    /\ UNCHANGED <<durable, expired, disk, may, marker, process, volatile,
                   jobs, requests, rec>>

\* Slip: the renamed marker counts as durable without syncing its directory.
InstallPairUnsynced ==
    /\ phase = "install"
    /\ \/ /\ Decide = "install"
          /\ marker' = IF marker = "none" THEN "partial" ELSE "renamed"
          /\ UNCHANGED phase
       \/ Decide = "acknowledge" /\ phase' = "acknowledge" /\ UNCHANGED marker
    /\ UNCHANGED <<durable, expired, disk, may, pair, process, volatile, jobs,
                   requests, rec, faults>>

\* install_pair: write and sync the pending file, rename it, sync the root.
InstallPair ==
    /\ phase = "install"
    /\ \/ /\ Decide = "install"
          /\ marker' = IF marker = "none" THEN "partial" ELSE "renamed"
          /\ UNCHANGED phase
       \/ Decide = "acknowledge" /\ marker' = "durable" /\ phase' = "acknowledge"
    /\ UNCHANGED <<durable, expired, disk, may, pair, process, volatile, jobs,
                   requests, rec, faults>>

\* acknowledge_pair and its commit.
AcknowledgePair ==
    /\ phase = "acknowledge"
    /\ \E outcome \in Outcomes :
        /\ Spend(outcome)
        /\ pair' = IF outcome = "lost" THEN pair ELSE "paired"
        /\ phase' = IF outcome = "acked" THEN "first" ELSE "failed"
    /\ UNCHANGED <<durable, expired, disk, may, marker, process, volatile,
                   jobs, requests, rec>>

-----------------------------------------------------------------------------
(* The metadata state machine and its transactions *)

\* The transitions of a row; every one of them advances the generation.
Reserved == [state |-> "uploading", gen |-> 1, process |-> process,
             reserved |-> Limit, bytes |-> 0]
Moved(r, state) == [r EXCEPT !.state = state, !.gen = @ + 1]
StagedRow(r, size) == [Moved(r, "staged") EXCEPT !.reserved = 0, !.bytes = size]
AttachedRow(r) == Moved(r, "attached")
UnreferencedRow(r) == Moved(r, "unreferenced")
ClaimedRow(r) == [Moved(r, "deleting") EXCEPT !.process = process]
DeletedRow(r) == [Moved(r, "deleted") EXCEPT !.reserved = 0, !.bytes = 0]

\* BlobRow::parse: what every read of a row insists on.
Parsed(r) ==
    /\ r.reserved <= Limit /\ r.bytes <= Limit
    /\ CASE r.state = "uploading" -> r.reserved > 0 /\ r.bytes = 0
         [] r.state \in {"staged", "attached", "unreferenced"} -> r.reserved = 0
         [] r.state = "deleting" -> r.reserved = 0 \/ r.bytes = 0
         [] r.state = "deleted" -> r.reserved = 0 /\ r.bytes = 0

\* An upload or a deletion of an earlier process, which the store's lock rules out.
Prior(r) == r.process # process

Live(state) == state \in {"uploading", "staged"}
Anonymous(s) == s \in AnonymousSlots
\* Slip: the charge of a reservation stays when the object is deleted.
AnonymousPartUnreleased(s, charge) ==
    IF Anonymous(s) THEN [charge EXCEPT !.objects = 0] ELSE Empty

AnonymousPart(s, charge) == IF Anonymous(s) THEN charge ELSE Empty
Available == phase = "ready" /\ inventoried /\ ~quarantined

\* reserve_store and reserve_subject: what the quotas must leave free.
QuotaAdmits(s) ==
    /\ orphans = {}
    /\ store.all.reserved <= AppBytes - store.all.used - Limit
    /\ store.all.objects < MaxObjects
    /\ Anonymous(s) =>
        store.anonymous.reserved <= AnonymousBytes - store.anonymous.used - Limit
    /\ Cardinality({t \in Slots : SubjectOf[t] = SubjectOf[s] /\ Live(rows[t].state)})
        < LiveStages

Apply(s, charged, charge) ==
    LET moved(counter, by) == IF charged THEN Plus(counter, by) ELSE Minus(counter, by)
    IN /\ store' = [all |-> moved(store.all, charge),
                    anonymous |-> moved(store.anonymous, AnonymousPart(s, charge))]
       /\ subjects' = [subjects EXCEPT ![SubjectOf[s]] = moved(@, charge)]

Registered == {k \in Keys : workers[k] # NoWitness}

\* prepare_upload: reserve the slot, register the lease's witness, commit.
Prepare(s) ==
    /\ requests[s] = "idle" /\ Available
    /\ rows[s] = NoRow /\ QuotaAdmits(s)
    /\ Cardinality(Registered) + leaked < MaxObjects
    /\ \E outcome \in Outcomes :
        /\ Spend(outcome)
        /\ IF outcome = "lost"
           THEN leaked' = leaked + 1 /\ UNCHANGED <<rows, store, subjects, workers>>
           ELSE /\ rows' = [rows EXCEPT ![s] = Reserved]
                /\ Apply(s, TRUE, Charge(Limit, 0, 1))
                /\ workers' = [workers EXCEPT ![s] =
                    IF outcome = "acked" THEN Witness(1) ELSE Unstarted(1)]
                /\ UNCHANGED leaked
        /\ requests' = [requests EXCEPT ![s] =
            IF outcome = "acked" THEN "prepared" ELSE "idle"]
    /\ UNCHANGED <<orphans, expired, disk, may, pair, marker, process, phase,
                   inventoried, quarantined, scan, cursor, undispatched, jobs, rec>>

\* STAGE_BLOB: still the generation, the process and the time of the reservation.
Stageable(s) ==
    /\ rows[s].state = "uploading" /\ rows[s].gen = 1
    /\ rows[s].process = process /\ s \notin expired

\* transfer_file ends with the worker's success, then publish_upload commits;
\* when the request ends its PublicationLease cancels the witness.
Publish(s) ==
    /\ requests[s] = "transfer"
    /\ workers[s].gen = 1 /\ workers[s].stopped /\ ~workers[s].failed
    /\ Stageable(s)
    /\ \E outcome \in Outcomes, size \in Sizes :
        /\ Spend(outcome)
        /\ IF outcome = "lost" THEN UNCHANGED <<rows, store, subjects>>
           ELSE /\ rows' = [rows EXCEPT ![s] = StagedRow(@, size)]
                /\ LET charge == Charge(Limit, 0 - size, 0)
                   IN Apply(s, FALSE, charge)
    /\ requests' = [requests EXCEPT ![s] = "idle"]
    /\ workers' = [workers EXCEPT ![s].failed = TRUE]
    /\ UNCHANGED <<orphans, expired, disk, may, pair, marker, process, phase,
                   inventoried, quarantined, scan, cursor, undispatched, leaked,
                   jobs, rec>>

\* lock_stage and the verification of the stored bytes.
Attachable(s) == rows[s].state = "staged" /\ s \notin expired
Verified(s) == "final" \in disk[s]

\* The action's transaction: lock_stage, verify of the bytes, associate.
Attach(s) ==
    /\ phase = "ready"
    /\ Attachable(s) /\ Verified(s)
    /\ rows' = [rows EXCEPT ![s] = AttachedRow(@)]
    /\ UNCHANGED <<store, subjects, orphans, expired, disk, may, pair, marker,
                   process, phase, volatile, jobs, requests, rec, faults>>

\* detach_resource, in the transaction that deletes the record.
Detach(s) ==
    /\ phase = "ready" /\ rows[s].state = "attached"
    /\ rows' = [rows EXCEPT ![s] = UnreferencedRow(@)]
    /\ UNCHANGED <<store, subjects, orphans, expired, disk, may, pair, marker,
                   process, phase, volatile, jobs, requests, rec, faults>>

-----------------------------------------------------------------------------
(* Native workers *)

Job(k, kind, gen, step) ==
    [key |-> k, kind |-> kind, gen |-> gen, step |-> step, cancelled |-> "no"]
Temporary == {"partial", "sealed"}
\* Slip: the destination directory is not synced before the object is durable.
StepsUnsynced(kind) ==
    IF kind = "upload"
    THEN <<"begin", "sync", "rename", "syncPartial">>
    ELSE <<"unlinkPartial", "syncPartial", "unlinkFinal", "syncFinal">>

\* Slip: a removal is complete without syncing the directory.
StepsUnpersisted(kind) ==
    IF kind = "upload"
    THEN <<"begin", "sync", "rename", "syncObjects", "syncPartial">>
    ELSE <<"unlinkPartial", "syncPartial", "unlinkFinal">>

Steps(kind) ==
    IF kind = "upload"
    THEN <<"begin", "sync", "rename", "syncObjects", "syncPartial">>
    ELSE <<"unlinkPartial", "syncPartial", "unlinkFinal", "syncFinal">>
NextStep(j) ==
    LET steps == Steps(j.kind)
        i == CHOOSE n \in DOMAIN steps : steps[n] = j.step
    IN IF i = Len(steps) THEN "done" ELSE steps[i + 1]

Renamed(m) == {IF n = "sealed" THEN "final" ELSE "torn" : n \in m \cap Temporary}

\* What one system call does to the visible names of a key ...
Visible(step, d) ==
    CASE step = "begin" -> d \cup {"partial"}
      [] step = "sync" -> (d \ {"partial"}) \cup {"sealed"}
      [] step = "rename" -> (d \ Temporary) \cup Renamed(d)
      [] step = "unlinkPartial" -> d \ Temporary
      [] step = "unlinkFinal" -> d \ {"final", "torn"}
      [] OTHER -> d

\* ... and to what a power loss may leave of them.
Persisted(step, k) ==
    CASE step = "begin" -> may[k] \cup {{"partial"}}
      [] step = "sync" -> {Visible(step, m) : m \in may[k] \ {{}}} \cup {{}}
      [] step = "rename" ->
            may[k] \cup {Renamed(m) : m \in may[k]} \cup {m \cup Renamed(m) : m \in may[k]}
      [] step = "syncObjects" -> {m \in may[k] : m \ Temporary = disk[k] \ Temporary}
      [] step = "syncPartial" -> {m \ Temporary : m \in may[k]}
      [] step = "syncFinal" -> {m \ {"final", "torn"} : m \in may[k]}
      [] OTHER -> may[k] \cup {Visible(step, m) : m \in may[k]}

\* A dropped IoJob sets the flag; a worker past its last check makes one more call.
Cancelled(js, k, kind) ==
    {{IF j.key = k /\ j.kind = kind /\ j.cancelled = "no" THEN [j EXCEPT !.cancelled = c] ELSE j : j \in js}
        : c \in {"late", "yes"}}

\* One system call of begin, finalize or remove between two guard checks.
JobStep(j) ==
    /\ j.step # "done" /\ j.cancelled # "yes"
    /\ j.step = "begin" => disk[j.key] \cap Temporary = {}
    /\ j.step = "rename" => "final" \notin disk[j.key]
    /\ disk' = [disk EXCEPT ![j.key] = Visible(j.step, @)]
    /\ may' = [may EXCEPT ![j.key] = Persisted(j.step, j.key)]
    /\ jobs' = (jobs \ {j}) \cup {[j EXCEPT !.step = NextStep(j),
            !.cancelled = IF @ = "late" THEN "yes" ELSE @]}
    /\ UNCHANGED <<durable, expired, pair, marker, process, phase, volatile,
                   requests, rec, faults>>

\* The worker exits: its StopGuard publishes the witness, if still registered.
JobStop(j) ==
    /\ \/ j.step = "done" \/ j.cancelled = "yes"
       \/ j.cancelled = "no" /\ faults < MaxFaults
    /\ LET failed == j.step # "done" \/ j.cancelled # "no" IN
        /\ workers' = IF workers[j.key].gen = j.gen
                      THEN [workers EXCEPT ![j.key].stopped = TRUE,
                                           ![j.key].failed = @ \/ failed]
                      ELSE workers
        /\ faults' = IF failed /\ j.cancelled = "no" THEN faults + 1 ELSE faults
    /\ jobs' = jobs \ {j}
    /\ UNCHANGED <<durable, expired, disk, may, pair, marker, process, phase,
                   inventoried, quarantined, scan, cursor, undispatched, leaked,
                   requests, rec>>

\* transfer_file: start the worker, record its witness, release the lease.
Dispatch(s) ==
    /\ requests[s] = "prepared"
    /\ jobs' = jobs \cup {Job(s, "upload", 1, "begin")}
    /\ workers' = [workers EXCEPT ![s] = Witness(1)]
    /\ requests' = [requests EXCEPT ![s] = "transfer"]
    /\ UNCHANGED <<durable, expired, disk, may, pair, marker, process, phase,
                   inventoried, quarantined, scan, cursor, undispatched, leaked,
                   rec, faults>>

\* The request ends early: client gone, deadline, busy pool, failed worker or a
\* publication its fence refuses.  Leases and the job handle are dropped: those of
\* the upload, whoever has claimed its slot since.
DropRequest(s) ==
    /\ requests[s] # "idle"
    /\ IF requests[s] = "prepared"
       THEN workers' = [workers EXCEPT ![s] = StopUnstarted(@)] /\ UNCHANGED jobs
       ELSE /\ workers' = [workers EXCEPT ![s] =
                IF @.gen = 1 THEN [@ EXCEPT !.failed = TRUE] ELSE @]
            /\ jobs' \in Cancelled(jobs, s, "upload")
    /\ requests' = [requests EXCEPT ![s] = "idle"]
    /\ UNCHANGED <<durable, expired, disk, may, pair, marker, process, phase,
                   inventoried, quarantined, scan, cursor, undispatched, leaked,
                   rec, faults>>

-----------------------------------------------------------------------------
(* Maintenance: reconcile_page *)

\* The inventory worker takes the next batch of the open scan, outside any
\* transaction; the batch is no longer pending whatever becomes of the page.  Only
\* a batch that is not full has seen the end of the directories.
RecInventory ==
    /\ phase \in {"first", "ready"} /\ rec.pc = "idle"
    /\ LET open == IF scan = <<>> THEN {k \in Keys : disk[k] # {}} ELSE scan[1] IN
        \E batch \in SUBSET open :
            /\ Cardinality(batch) = Min({InspectionPage, Cardinality(open)})
            /\ LET complete == Cardinality(batch) < InspectionPage IN
                /\ rec' = [NoRec EXCEPT !.pc = "batch", !.batch = batch,
                                        !.complete = complete]
                /\ scan' = IF complete THEN <<>> ELSE <<open \ batch>>
    /\ UNCHANGED <<durable, expired, disk, may, pair, marker, process, phase,
                   inventoried, quarantined, cursor, workers, undispatched,
                   leaked, jobs, requests, faults>>

Known(k) == k \in Slots /\ rows[k] # NoRow
FileBytes(names) == Cardinality(names) * Limit

\* MetadataContext::page: the next rows after the cursor in the order of their
\* slots, as stored now.  There is one such sequence of slots.
After == {s \in Slots : s > cursor /\ rows[s] # NoRow}
NextSlots ==
    {q \in [1 .. Min({InspectionPage, Cardinality(After)}) -> After] :
        \A i \in DOMAIN q, s \in After :
            s < q[i] <=> \E j \in DOMAIN q : j < i /\ q[j] = s}
Page(slots) ==
    [i \in DOMAIN slots |->
        [slot |-> slots[i], row |-> rows[slots[i]], late |-> slots[i] \in expired]]

\* quarantine_unknown: every name of an unknown object is charged once.
OrphanCharge(unknown) ==
    LET names == UNION {{k} \X disk[k] : k \in unknown} IN
    Charge(0, FileBytes(names), Cardinality(names))

\* The page's transaction: charge unknown objects, read the rows.
RecPage ==
    /\ rec.pc = "batch"
    /\ LET unknown == {k \in rec.batch : ~Known(k) /\ disk[k] # {}} IN
        /\ quarantined' = (quarantined \/ unknown # {})
        /\ \E outcome \in Outcomes, slots \in NextSlots :
            /\ Spend(outcome)
            /\ IF outcome = "lost" THEN UNCHANGED <<orphans, store>>
               ELSE /\ orphans' = orphans \cup unknown
                    /\ store' = [store EXCEPT !.all =
                                    Plus(@, OrphanCharge(unknown \ orphans))]
            /\ IF outcome # "acked" THEN rec' = Ended(FALSE) /\ UNCHANGED <<inventoried, cursor>>
               ELSE /\ inventoried' = (inventoried \/ rec.complete)
                    /\ cursor' = IF Len(slots) = InspectionPage THEN Last(slots) ELSE 0
                    /\ rec' = IF slots = <<>> THEN Ended(TRUE)
                              ELSE [NoRec EXCEPT !.pc = "row", !.queue = Page(slots)]
    /\ UNCHANGED <<rows, subjects, expired, disk, may, pair, marker, process,
                   phase, scan, workers, undispatched, leaked, jobs, requests>>

\* Slip: a witness of the generation is proof before its worker stopped.
ProofUnstopped(w, gen) == w.gen = gen

\* stopped_witness: proof for exactly this generation.
Proof(w, gen) == w.stopped /\ w.gen = gen
Stopped(s, gen) ==
    IF Proof(workers[s], gen) THEN workers[s]
    ELSE IF Proof(undispatched[s], gen) THEN undispatched[s] ELSE NoWitness

\* InspectionPage::plan for one known row, from the row the page read.
Plan(item) ==
    LET s == item.slot
        r == item.row
        proof == Stopped(s, r.gen)
        complete == disk[s] = {"final"}
    IN CASE r.state = "uploading" ->
                IF Prior(r) THEN "recoverUpload"
                ELSE IF proof # NoWitness /\ (proof.failed \/ item.late)
                THEN "claimStopped" ELSE "retain"
         [] r.state = "staged" /\ item.late -> "claim"
         [] r.state \in {"staged", "attached"} ->
                IF complete THEN "retain"
                ELSE IF disk[s] = {} THEN "missing" ELSE "mismatch"
         [] r.state = "unreferenced" -> "claim"
         [] r.state = "deleting" ->
                IF Prior(r) THEN "recoverDeletion"
                ELSE IF proof # NoWitness THEN "resume" ELSE "retain"
         [] r.state = "deleted" -> IF disk[s] = {} THEN "tombstone" ELSE "clean"

Item == Head(rec.queue)
NextRow(deleted) ==
    LET rest == Tail(rec.queue)
    IN IF rest = <<>> \/ deleted = MaxDeletions THEN Ended(TRUE)
       ELSE [NoRec EXCEPT !.pc = "row", !.queue = rest, !.deleted = deleted]

Claims == {"claim", "claimStopped", "recoverUpload", "resume", "recoverDeletion"}

\* reconcile_row up to its transaction: snapshot, proof, plan.
RecPlan ==
    /\ rec.pc = "row"
    /\ LET kind == Plan(Item) IN
        /\ quarantined' = (quarantined \/ kind \in {"missing", "mismatch"})
        /\ workers' = IF kind = "tombstone"
                      THEN [workers EXCEPT ![Item.slot] = NoWitness] ELSE workers
        /\ undispatched' = IF kind = "tombstone"
                           THEN [undispatched EXCEPT ![Item.slot] = NoWitness]
                           ELSE undispatched
        /\ jobs' = IF kind = "clean" /\ rows[Item.slot].state = "deleted"
                   THEN jobs \cup {Job(Item.slot, "clean", Item.row.gen, "unlinkPartial")}
                   ELSE jobs
        /\ rec' = IF kind \in Claims THEN [rec EXCEPT !.pc = "claim", !.kind = kind]
                  ELSE NextRow(rec.deleted + IF kind = "clean" THEN 1 ELSE 0)
    /\ UNCHANGED <<durable, expired, disk, may, pair, marker, process, phase,
                   inventoried, scan, cursor, leaked, requests, faults>>

\* Slip: the proof found in `undispatched` is not kept in `workers`.
ArmedForgetful(s, gen, outcome) ==
    /\ UNCHANGED workers
    /\ undispatched' = [undispatched EXCEPT ![s] =
        IF outcome = "acked" THEN Witness(gen + 1) ELSE Unstarted(gen + 1)]

\* arm_deletion: keep the proof that allowed the claim, add one for the claim.
Armed(s, gen, outcome) ==
    /\ workers' = IF Stopped(s, gen) # NoWitness
                  THEN [workers EXCEPT ![s] = Stopped(s, gen)] ELSE workers
    /\ undispatched' = [undispatched EXCEPT ![s] =
        IF outcome = "acked" THEN Witness(gen + 1) ELSE Unstarted(gen + 1)]

\* The claim's transaction re-reads the row before it takes the fence.
RecClaim ==
    /\ rec.pc = "claim"
    /\ LET s == Item.slot
           r == rows[s] IN
        IF r.gen # Item.row.gen \/ r.state # Item.row.state
        THEN /\ rec' = NextRow(rec.deleted)
             /\ UNCHANGED <<rows, workers, undispatched, faults>>
        ELSE \E outcome \in Outcomes :
            /\ Spend(outcome)
            /\ rows' = IF outcome = "lost" THEN rows
                       ELSE [rows EXCEPT ![s] = ClaimedRow(@)]
            /\ Armed(s, r.gen, outcome)
            /\ rec' = IF outcome = "acked" THEN [rec EXCEPT !.pc = "dispatch"]
                      ELSE Ended(FALSE)
    /\ UNCHANGED <<store, subjects, orphans, expired, disk, may, pair, marker,
                   process, phase, inventoried, quarantined, scan, cursor,
                   leaked, jobs, requests>>

ClaimGen == Item.row.gen + 1

\* delete_claimed: start the removal, move the witness.
RecDispatch ==
    /\ rec.pc = "dispatch"
    /\ jobs' = jobs \cup {Job(Item.slot, "remove", ClaimGen, "unlinkPartial")}
    /\ workers' = [workers EXCEPT ![Item.slot] = Witness(ClaimGen)]
    /\ undispatched' = [undispatched EXCEPT ![Item.slot] = NoWitness]
    /\ rec' = [rec EXCEPT !.pc = "remove"]
    /\ UNCHANGED <<durable, expired, disk, may, pair, marker, process, phase,
                   inventoried, quarantined, scan, cursor, leaked, requests, faults>>

\* The removal succeeded: MetadataContext::deleted releases the charge.
RecDeleted ==
    /\ rec.pc = "remove"
    /\ LET s == Item.slot
           w == workers[s] IN
        /\ w.gen = ClaimGen /\ w.stopped /\ ~w.failed
        /\ rows[s].state = "deleting" /\ rows[s].gen = ClaimGen
        /\ \E outcome \in Outcomes :
            /\ Spend(outcome)
            /\ IF outcome = "lost" THEN UNCHANGED <<rows, store, subjects>>
               ELSE /\ rows' = [rows EXCEPT ![s] = DeletedRow(@)]
                    /\ Apply(s, FALSE, Charge(rows[s].reserved, rows[s].bytes, 1))
            /\ workers' = IF outcome = "acked" THEN [workers EXCEPT ![s] = NoWitness]
                          ELSE workers
            /\ rec' = IF outcome = "acked" THEN NextRow(rec.deleted + 1) ELSE Ended(FALSE)
    /\ UNCHANGED <<orphans, expired, disk, may, pair, marker, process, phase,
                   inventoried, quarantined, scan, cursor, undispatched, leaked,
                   jobs, requests>>

\* The page ends early: deadline, busy pool or a failed removal.
DropPage ==
    /\ rec.pc \notin {"idle", "ended"}
    /\ \/ rec.pc = "remove" /\ workers[Item.slot].stopped
          /\ workers[Item.slot].failed /\ UNCHANGED faults
       \/ Fault
    /\ undispatched' = IF rec.pc = "dispatch"
                       THEN [undispatched EXCEPT ![Item.slot] = StopUnstarted(@)]
                       ELSE undispatched
    /\ jobs' \in IF rec.pc = "remove" THEN Cancelled(jobs, Item.slot, "remove") ELSE {jobs}
    /\ workers' = IF rec.pc = "remove" THEN [workers EXCEPT ![Item.slot].failed = TRUE]
                  ELSE workers
    /\ rec' = Ended(FALSE)
    /\ UNCHANGED <<durable, expired, disk, may, pair, marker, process, phase,
                   inventoried, quarantined, scan, cursor, leaked, requests>>

\* The caller of reconcile_page: activation needs its first page, the clock
\* service ignores the result of the others.
RecEnd ==
    /\ rec.pc = "ended"
    /\ phase' = IF phase = "first" /\ ~rec.complete THEN "failed" ELSE "ready"
    /\ rec' = NoRec
    /\ UNCHANGED <<durable, expired, disk, may, pair, marker, process, volatile,
                   jobs, requests, faults>>

-----------------------------------------------------------------------------
\* The lifecycle clock passes a row's expires_ms.
Expire(s) ==
    /\ rows[s] # NoRow /\ s \notin expired
    /\ expired' = expired \cup {s}
    /\ UNCHANGED <<durable, disk, may, pair, marker, process, phase, volatile,
                   jobs, requests, rec, faults>>

Marked(m) ==
    CASE m = "partial" -> {"none", "partial"}
      [] m = "renamed" -> {"none", "partial", "renamed"}
      [] OTHER -> {m}

\* The process dies, alone or with the machine, and the next one takes the lock.
\* A process whose activation failed has exited.
Crash(power) ==
    /\ process < MaxProcess \/ phase = "failed"
    /\ process' = process + 1
    /\ IF power
       THEN /\ disk' \in {d \in [Keys -> UNION {may[k] : k \in Keys}] :
                            \A k \in Keys : d[k] \in may[k]}
            /\ may' = [k \in Keys |-> {disk'[k]}]
            /\ marker' \in Marked(marker)
       ELSE UNCHANGED <<disk, may, marker>>
    /\ phase' = "observe"
    /\ inventoried' = FALSE /\ quarantined' = FALSE
    /\ scan' = <<>> /\ cursor' = 0
    /\ workers' = [k \in Keys |-> NoWitness]
    /\ undispatched' = [k \in Keys |-> NoWitness]
    /\ leaked' = 0
    /\ jobs' = {} /\ requests' = [s \in Slots |-> "idle"] /\ rec' = NoRec
    /\ UNCHANGED <<durable, expired, pair, faults>>

Activation == PreparePair \/ InstallPair \/ AcknowledgePair
Maintenance == RecInventory \/ RecPage \/ RecPlan \/ RecClaim \/ RecDispatch
               \/ RecDeleted \/ DropPage \/ RecEnd
JobMoves(j) == JobStep(j) \/ JobStop(j)

Next ==
    \/ Activation \/ Maintenance
    \/ \E s \in Slots : Prepare(s) \/ Dispatch(s) \/ Publish(s) \/ DropRequest(s)
                        \/ Attach(s) \/ Detach(s) \/ Expire(s)
    \/ \E j \in jobs : JobMoves(j)
    \/ \E power \in BOOLEAN : Crash(power)

Spec == Init /\ [][Next]_vars

-----------------------------------------------------------------------------
States == {"none", "uploading", "staged", "attached", "unreferenced", "deleting",
           "deleted"}
Witnesses == [gen : Nat, stopped : BOOLEAN, failed : BOOLEAN]
Names == {"partial", "sealed", "final", "torn"}

\* The counters are left to ChargesExact, which gives their values.
TypeOK ==
    /\ rows \in [Slots -> [state : States, gen : Nat, process : Nat,
                           reserved : {0, Limit}, bytes : {0} \cup Sizes]]
    /\ \A s \in Slots : rows[s] = NoRow \/ Parsed(rows[s])
    /\ orphans \subseteq Strays /\ expired \subseteq Slots
    /\ disk \in [Keys -> SUBSET Names] /\ may \in [Keys -> SUBSET SUBSET Names]
    /\ pair \in {"none", "pending", "paired"}
    /\ marker \in {"none", "partial", "renamed", "durable"}
    /\ phase \in {"observe", "install", "acknowledge", "first", "ready", "failed"}
    /\ scan = <<>> \/ scan[1] \subseteq Keys
    /\ cursor \in {0} \cup Slots
    /\ workers \in [Keys -> Witnesses] /\ undispatched \in [Keys -> Witnesses]
    /\ requests \in [Slots -> {"idle", "prepared", "transfer"}]
    /\ rec.pc \in {"idle", "batch", "row", "claim", "dispatch", "remove", "ended"}

\* What a row promises is on the disk and survives a power loss: while it is
\* staged or attached, whatever dies, exactly its finished object remains, so
\* neither `missing` nor `mismatch` is ever found by code of this repository
\* (publish, claim_*, finalize, remove).
ReferencedDurable ==
    \A s \in Slots : rows[s].state \in {"staged", "attached", "unreferenced"} =>
        disk[s] = {"final"} /\ may[s] = {{"final"}}

\* A charge is released only when no byte of the object can be there or come
\* back after a power loss; before a reservation there is none either.
ChargedWhilePresent ==
    \A s \in Slots : rows[s].state \in {"none", "deleted"} =>
        may[s] = {{}} /\ ~\E j \in jobs : j.key = s /\ j.kind # "clean"

\* The counters of the store, of the anonymous share and of every subject are
\* the sums over the live rows and orphans, whatever was interrupted or resumed.
ChargesExact ==
    /\ store.all = Plus(Owed(Slots),
            Charge(0, Limit * Cardinality(orphans), Cardinality(orphans)))
    /\ store.anonymous = Owed(AnonymousSlots)
    /\ \A u \in Subjects : subjects[u] = Owed({s \in Slots : SubjectOf[s] = u})

\* A running worker has its object to itself, under the generation that started
\* it: no upload beside a removal, no removal under a claim that was not
\* committed or was taken over while it may still unlink.
WorkersFenced ==
    \A j \in jobs :
        /\ rows[j.key].gen = j.gen
        /\ rows[j.key].state = IF j.kind = "upload" THEN "uploading" ELSE "deleting"
        /\ \A i \in jobs : i.key = j.key => i = j

\* A paired database implies a marker that survives a power loss: no restart can
\* meet "paired database lacks matching durable marker".
PairedMarkerDurable == pair = "paired" => marker = "durable"

\* What the database says of the disk survives a power loss: a referenced object
\* is there, a released one is gone, and so is the marker of the pair in place.
ObjectsDurable ==
    TypeOK /\ ReferencedDurable /\ ChargedWhilePresent /\ PairedMarkerDurable

\* Unknown files block uploads: no slot is reserved while a file without a row is
\* in the store ("Completely unknown files are retained, accounted, and block new
\* uploads").
UnknownBlocksUploads == Available => \A k \in Strays : disk[k] = {}

-----------------------------------------------------------------------------
\* serving_maintenance runs a page per turn; requests and native workers have
\* deadlines; the supervisor starts the process again; the clock moves on.
Fairness ==
    /\ WF_vars(Activation) /\ WF_vars(phase = "failed" /\ Crash(FALSE))
    /\ WF_vars(Maintenance)
    /\ \A s \in Slots :
        /\ WF_vars(Dispatch(s) \/ Publish(s) \/ DropRequest(s))
        /\ WF_vars(Expire(s))
        /\ WF_vars(\E j \in jobs : j.key = s /\ JobMoves(j))

FairSpec == Spec /\ Fairness

\* Every object is either kept for someone or collected: what is uploading,
\* detached or claimed ends staged, attached or deleted, so no proof that a worker
\* stopped is ever lost between the registries (stopped_witness, arm_deletion).
CollectedEventually ==
    \A s \in Slots :
        rows[s].state \in {"uploading", "unreferenced", "deleting"}
            ~> rows[s].state \in {"staged", "attached", "deleted"}
=============================================================================
