# A TLA+ model of noxide

noxide is a server-rendered web framework: an untrusted guest component describes
pages and actions, and a trusted host authorizes, executes and persists them on
SQLite or PostgreSQL. This directory holds TLA+ models of the parts of the host
whose correctness depends on the order of events: several processes and several
transactions per unit of work, leases that expire, commits whose outcome is
unknown, operators who change authority meanwhile, and restarts.

## Inventory

Every crate below `src/crates/` is listed in `PROJECT.json` with its status. The
ones that carry state and ordering are described here.

**Effect outbox** (`noxide-effects`, `noxide-effect-delivery`,
`noxide-store/src/statements/effects.rs`). A successful action captures external
HTTP effects as rows of `nx_outbox` in its own transaction. A separate worker
process claims a row (lease, fence, attempt charge), checks it again (preflight),
POSTs it over Tor and records the result (finalize). State: outbox rows, the shared
runtime row (deployment generation, contract, epoch, state), grants per tenant and
endpoint, grants per secret slot, the queue row (owner directory, claim sequence,
limits), the per-tenant claim sequence, and in each process the physical slots with
the capture they have marked. Operators cancel, resume, retry, grant, revoke and
fork; startup binds a new generation; clock recovery retires one. Correct means: no
send under authority that has been withdrawn, at most the allowed number of sends
per round, one slot per capture, a late answer never overwrites a newer round,
nothing is stranded, and the quotas hold.

**Durable jobs** (`noxide-jobs`, `noxide-host/src/application/jobs.rs`,
`job_worker.rs`). Internal follow-up work scheduled by actions and by recurrence.
State: job rows (state, attempts, fence, lease, eligibility, authority envelope),
grants per service worker, receipts, the same runtime row, recurrence rows (version,
next time, cutoff, cursor). A worker claims, locks the execution, runs the guest
action and commits mutation, receipt and success together. Correct means: the
mutation of a job happens at most once although claims are retried after lost
commits; revoked or superseded work never commits; attempts are bounded; a recurring
occurrence is emitted once.

**Lifecycle clock** (`noxide-store/src/lifecycle_clock.rs`). A durable, monotonic
millisecond watermark advanced by a tick, an observed-seconds row with a rollback
tolerance, and per process a freshness state that quarantines the process when its
own monotonic progress and the durable clock disagree. Correct means: durable time
never goes back, and an attempt runs only under a recent, published tick.

**Store transactions** (`noxide-store/src/database.rs`, `database/lifecycle*`,
`database/commit.rs`). A request gets a permit, opens SERIALIZABLE transactions one
after another through its own gate, and each owns a PostgreSQL session with a second
connection that can cancel it and watch it end. State: permits, the request's statement
meter with a reserve for clean-up, the provider lease, the registry of live sessions.
A COMMIT is acknowledged, refused or of unknown outcome. Correct means: no session runs
outside a permit, each is stopped or quarantined by its request's deadline, the answer
about a COMMIT is true, and a shutdown that succeeds left nothing running.

**Delivery ownership** (`noxide-effect-delivery/src/owner.rs`). A process-wide
exclusive lease on a directory (flock), physical slots with a gate per slot, and
drain at shutdown; a slot whose native work cannot be confirmed stopped is retained.

**Action and page requests** (`noxide-host/src/application`). A page signs a token for
each form it shows; a submission claims the token's receipt in the transaction that
performs the action, retries it up to three times and recovers an unknown outcome by
that receipt. State: receipts, records with revision and capability version, the
server's key incarnation and clock memory. Correct means: a form takes effect once and
as a whole, what the visitor is told is true, reviewed edits and capabilities are
current when they commit.

**Record repository** (`noxide-repository`, `noxide-authority/src/authority*`). Lists as
one scan or a merge of bounded streams, searches over postings, aggregates, followed
references; the writes that maintain rows and postings. State: rows, postings, cursors
in the visitor's hands, membership witnesses of an attempt. Correct means: a walk
returns each record once and none is lost, answers are exact or refused, and authority
is judged on current facts.

**Admission and query planning** (`noxide-admission`). Pure checks of a manifest before
it is served, with the interval arithmetic of its expressions, the disclosures shown to
the approver, and the plans and indexes of its lists. Correct means: what is admitted
executes without an internal failure, and a result depends on nothing undisclosed.

**Blobs** (`noxide-blobs`, `noxide-host/src/application/blobs.rs`). Uploads reserved in
the database, written by a native worker, published, attached by an action, detached and
collected; the directory and the database are paired at startup. State: rows with
generation and charge, counters of store, anonymous share and subject, files, witnesses
of workers. Correct means: no row without its object, whatever dies; charges match what
may be on the disk; one worker has an object to itself; nothing is leaked for good.

**Guest pool** (`noxide-guest`, `noxide-sandbox/src/worker.rs`, `lib.rs`). Worker
processes started by a broker, parked for one isolation key, discarded on any failure.
State: idle workers, counters of live, starting and waiting, the broker's children, the
budget of an exchange on both sides. Correct means: no process serves two isolation
keys as `Effects::isolation` assigns them, no wakeup or kill is lost, the server's budget holds against a hostile guest.

**Component admission** (`noxide-sandbox/src/admission.rs`). One pass that bounds what
instantiating a component expands to.

**Accounts, sessions and limiter** (`noxide-authority/src/auth.rs`, `limiter.rs`,
`security.rs`, `noxide-host/src/application/accounts.rs`, `noxide-keys`). Accounts with
epochs, sessions, roles, invitations; lanes of permits, password workers that outlive
their request, circuit budgets with an LRU. Correct means: no ended session is served,
permits cover the work that really runs, an invitation is redeemed once.

**Without order of events** (`noxide-render`, `noxide-assets`,
`noxide-asset-admission`, `noxide-protocol`, `noxide-sql`, `noxide-sql-macros`,
`noxide-macros`, `noxide`, `noxide-confine`). Parsing, generation and rendering.

How they interact: an action's transaction writes records, receipts, jobs and
outbox rows together; the serving process and the effects worker share only the
database and the clock; the runtime row is the meeting point of jobs and effects,
because its generation, epoch and state are part of the envelope of both; operator
commands and startup run as further processes on the same database. A request passes
the gateway (Accounts), holds a permit and a transaction (Store), may run guest code
(Guests), and commits an action (Requests) over records (Listing) and uploads (Blobs).

## Modules

| module | models | against |
|---|---|---|
| `Outbox` | effect outbox, delivery slots, effect operators, startup | `noxide-effects`, `noxide-effect-delivery/src/delivery.rs`, `owner.rs` |
| `EffectLifecycle` | abstract: what the outbox promises of one capture | refined by `Outbox` |
| `Jobs` | durable jobs, job workers, job operators, startup | `noxide-jobs`, `application/jobs.rs`, `job_worker.rs` |
| `JobLifecycle` | abstract: what the queue promises of one job | refined by `Jobs` |
| `Recurrence` | recurring schedules: polls, paged scans, occurrence keys | `noxide-jobs/src/recurrence.rs`, `job_selection.rs`, `run_recurrence_once` |
| `LifecycleClock` | the clock row, maintenance leases, freshness of a process | `noxide-store/src/lifecycle_clock.rs`, `database/maintenance.rs`, `application/clock.rs` |
| `Store` | permits, provider sessions, commit outcomes, shutdown | `noxide-store/src/database.rs`, `database/lifecycle*`, `commit.rs` |
| `Requests` | forms, submissions, receipts, recovery, capabilities | `application/submission.rs`, `action.rs`, `targets.rs`, `capabilities.rs`, `page.rs`; `repository/transaction.rs` |
| `Blobs` | uploads, pairing, reconciliation, collection | `noxide-blobs`, `application/blobs.rs`, `noxide-http/src/blobs.rs` |
| `Accounts` | sessions, roles, invitations, lanes, password workers, circuits | `noxide-authority`, `noxide-keys`, `noxide-http`, `application/accounts.rs` |
| `Guests` | guest pool, broker, exchange with a worker | `noxide-guest`, `noxide-sandbox/src/lib.rs`, `worker.rs` |
| `Manifest` | admission of a manifest and the executor that relies on it | `noxide-admission`, `repository/computation.rs`, `transaction.rs` |
| `Listing` | lists, searches, aggregates, follows, witnesses | `noxide-repository/src/repository/*`, `noxide-admission/src/query_plan*`, `policy.rs`, `noxide-authority/src/authority*` |
| `Expansion` | the pass over a component's payloads | `noxide-sandbox/src/admission.rs` |
| `MCOutbox`, `MCJobs`, `MCBlobs`, `MCGuests`, `MCManifest`, `MCListing` | finite instances for TLC | |
| `MCRequests`, `MCRecurrence`, `MCGateway`, `MCAdmission` | instances of several modules, or of one with two sets of constants, side by side | |
| `OutboxProofs`, `JobsProofs`, `RecurrenceProofs`, `ClockProofs`, `RequestsProofs`, `StoreProofs`, `BlobsProofs` | theorems about the module of that name | |
| `GatewayProofs` | theorems about `Accounts` and `Guests` | |

**Side by side.** The modules of the last row put several components into one run. The
components share no state there, so their product would only multiply states: the
variable `part` picks one when a behaviour starts, that one explores its whole instance
and the others keep a first state. What a run says of a component is thus exactly what
a run of that component alone would say. `MCRecurrence` explores a scan and, in a copy of
`Recurrence` with other constants (`INSTANCE`), schedules that take turns; `MCGateway`
explores accounts, guests and an outbox that is full, and `MCRequests` submissions and the
clock that dates what a request reads.

In every module one SERIALIZABLE transaction is one action, because the store runs
all of them at that isolation level and each of these takes its row locks first. The
transactions that are longer than that are split where the code can be interrupted:

* A delivery attempt is claim, preflight, (release), POST and finalize, four
  transactions and one exchange on the wire, with a process exit, a lost commit or
  an operator command possible between any two.
* A job execution is two steps, taking its locks and committing. While it is open the
  row lock and the share locks on runtime and grant are held, and actions that need
  them exclusively wait (`RowLocked`, `RuntimeExclusive`). These are PostgreSQL's
  locks; SQLite admits one writer and so fewer interleavings.
* A clock tick is begin, commit, cleanup and publish, each with its uncertain
  outcome; a request reads the row and asks for its time in two steps.
* A submission is prepare and commit, up to three times, with a refused, lost or late
  COMMIT between; `Store` has the provider's side of the same.
* A request of `Accounts` reads in one step and writes in a later one, since a login
  hashes its password between the two.

A COMMIT whose answer is lost is the action with its durable effect and without the
local one (`ClaimLost`, `FailLost`, `FinalizeFail`, `TickUnknown` and `LateCommit`,
`CommitLost` with `Land` or `Vanish`, the outcome `"lost"` and `"unknown"` of `Blobs`).

Data is reduced to what the properties distinguish. Random epochs and generations are
counters, so they are new when the code makes a new one. The approved contract is part
of the generation, which changes with it. A capture's payload is its identity; its
endpoint, tenant and secret slot are fixed functions of it. Ties that SQL breaks by
identifier are left open. Jitter is a nondeterministic choice. Wall clocks show
anything in a set. Tokens and passwords are names that open under the right key only.

### Outbox

`rows` is `nx_outbox`; `runtime`, `grants`, `secrets` and `queue` are the tables of
those names; `owner` is the process of a directory with the generation it was started
for; `workers` are its physical slots with the capture they have marked
(`active_claims`), the fence and the lease of their claim. `sent` and `acks` are
history: sends admitted in the present round, and fences under which the receiver
answered 2xx. `Claim` includes the sequence and attempt charge of `claim_effect`;
`PreflightSend`, `PreflightSettle` and `PreflightFail` are the outcomes of
`preflight`; `Release` is `release_unsent`; `Finalize` covers every delivery result.
`Retain` is a slot whose native work was not confirmed stopped. Operator commands and
the startup paths (`ActivateSame`, rebinding, `RestoreFork`) pause the rows they
affect in the same step, as the code does in the same transaction.

### Jobs

`rows`, `receipts`, `grants`, `runtime` and the claim sequences are the tables;
`workers` the slots with claim, fence, lease and the number of transactions tried;
`ran` and `mutations` are history. `ExecuteCommit` writes mutation, receipt, success
and at most one follow-up job (the code allows two; one reaches the same checks).
The claim sequence that an empty poll advances is left out. An action that overruns
its lease counts as an interruption, since the request deadline is shorter. Two
defensive branches are unreachable by what the runs show and have no action: the
pause of a claimed job whose authority changed (`EnvelopeCurrent`) and recovery by
receipt of a running row (`StoredSound`).

### Recurrence

`rows` is `nx_job_recurring`, `occurrences` the stored occurrence keys. A poll is one
transaction; it has one action per outcome (`TargetFree`, `SelectPage`, `OpenScan`,
`DeferScan`), and a poll that fails rolls back and is a stuttering step. Records are
named by their creation sequence. What a record is to a selection is `eligible`,
`hidden` (listed, then refused: the frontier passes it) or `out`. The number of
candidates a page can afford is any member of `Caps`; in the code it follows from the
statement budget of the request. `scans`, `emitted`, `missed` and `twice` are
history. The row's version column is constant between lock and update and is left
out; the branch of `begin_recurrence` that pauses a row with stale authority is
unreachable by `ActiveGranted`, a part of `ScanSound`.

### LifecycleClock

`clock` and `observed` are `nx_clock`; `procs` the `Freshness` state and the clock
memory of each process; `leases` its maintenance lease with the permit and the
backends that may still be running; `requests` the open request transactions. `past`
keeps the watermark at the end of the last `Limit` instants, `committed` the ticks
that took effect, `written` the latest time a committed write used. Monotonic time is
shared, ticks start at most once per unit per process, and a beginning that fails to
connect has no effect and no action. A database that is put back under a live process
is not modelled.

### Store

`hour` is where the clock stands against a request's deadline (before the reserve of
clean-up time, within it, past it), `front` where its future is, `lease` the provider
task with its transaction and the state of its COMMIT, `session` the backend as the
provider sees it. `meter` and `cleanup` are the two statement budgets. The future may
be cancelled in any step; the tasks that open and stop a session go on without it. What
cannot be confirmed stopped (`StopUnconfirmed`) keeps its permit for good, as
`std::mem::forget` does. SQLite, whose sessions stop by closing a handle, is left out.

### Requests

`db` is the committed database for one post with comments: revision, capability
version, counter, queued work, receipts, the observed second, keys and generation.
`server` is the process, `form` the signed tokens, `req` the submissions with their
tries and budget, `tx` their transactions. `Kinds` are four actions: a reviewed edit,
a reply that adds a comment, increases the counter and enqueues work, a removal, and
the rotation of a capability. A transaction is stale as soon as another one committed,
which is serializable isolation at its strictest; a stale COMMIT is refused and the
code retries. `effects` is history: what each form's action committed. Time is scaled
down, so that tokens expire, receipts are pruned and the clock is set back within it.

### Blobs

A slot is one verified form and one object for good, because rows are never removed.
`disk` is what the directory shows (`partial`, `sealed`, `final`, `torn` files of a
key) and `may` what a power loss can leave of it: an unsynced rename may be lost or
kept. `jobs` are the native workers, which outlive requests and take one step of the
write, sync, rename, sync sequence at a time; `workers` and `undispatched` are the two
registries of witnesses; `rec` is the page of reconciliation in progress. `Crash` ends
the process alone or with the machine. `DropRequest` fails the upload's own witness and
cancels its own worker only, as the two leases of the request hold a witness and a job
each: whoever has claimed the slot meanwhile is not disturbed.

### Accounts, Guests

A call of `Accounts` goes through the circuit budget, the session preflight, a lane,
its own transaction and, for a password, a worker with its own permits. `Traffic` is
what visitors offer; operators create, disable, enable and delete accounts, grant
roles and mint invitations; the key service may be lost and come back. `revoked` and
`recent` are history. Commits there never fail for a conflict, which admits more
interleavings than either database.

An attempt of `Guests` waits for a worker, runs an exchange in which the guest calls the
host, and ends; its future may be dropped at its deadline. `Escape` makes a guest
hostile: from then on its process sends whatever frames the wire allows. An offer is a
visitor and what the request carries: a route, an action with an input (`action`), one
without (`bare`), a capability, or nothing to do with storage (`none`). `Isolation` assigns
the keys as the code does: an anonymous request is single-use when it carries an input, an
inspection or a capability, and has the key of the anonymous pages when it carries none of
them, a submission too (finding 3). The broker is
a process of its own with a socket in each direction. Fuel is bounded as host calls are.

### Manifest, Listing, Expansion

`Manifest` offers each manifest of a set, decides it as `validate` does, and executes
each action of an admitted one in every environment; `AdmissionSound` compares the two.
Integers are `LOW .. HIGH`, so overflow happens at the ends. `Listing` is a table of
records with the columns the query code tells apart, a walk of a visitor over one list,
and aggregates, while records, memberships, gates and time change. SQL is the set of
rows it selects in the order it returns them. `Expansion` reads a component payload by
payload and keeps the tree of instantiations beside the summaries as the reference.

## What is checked

Twelve runs; the bounds of each are in its `.cfg`.

| run | properties | what it shows |
|---|---|---|
| `captures` | `ClaimsSound`, `DeliveredAcknowledged`, `LiveAuthority`, `LifecycleSpec` | two processes in two directories on one capture, with retries within and beyond the window (Retry-After), stalls in any phase, one new round, every operator command, fork and restart |
| `outbox_progress` | `SendsWithinAllowance`, `OneSlotPerCapture`, `Settles` | two slots of one process, waiting retries, refunds of failed preflights, leases reclaimed in time for another send, a lost commit or exit, a second round started under a running attempt; every queued capture settles |
| `job_queue` | `StoredSound`, `EnvelopeCurrent`, `JobQuotaRespected`, `JobLifecycleSpec` | two slots, one job and its replacement, two attempts, one interruption around lease and window, two epochs, every operator command, on a queue that holds one job of the tenant |
| `jobs_progress` | `RunningWithinConcurrency`, `AttemptsBounded`, `JobSettles` | two tenants on a concurrency of one, two attempts of two transactions; every live job settles |
| `recurrence_turns` | `EmittedOnce`, `ScanSound`, `TurnsServed` | a newest-first repair scan in pages of one or none with edits, grants and a fork between pages; beside it an ordinary selection and a target-free schedule with grants and two epochs, and each due one gets its turn |
| `blobs_recovery` | `ObjectsDurable`, `ChargesExact`, `WorkersFenced`, `CollectedEventually` | one anonymous object and an unknown file, three faults, one restart or power loss |
| `requests` | `SubmissionsSound`, `AnswersHonest`, `EditsCurrent`, `ClockSound`, `StalenessBounded`, `PublishedCommitted` | two submissions of two forms of four kinds, one fault, clock recovery, pruning; beside it two processes tick one clock row, with two generations, arbitrary walls and one uncertain outcome |
| `gateway` | `LimitsKept`, `RevokedNeverServed`, `WorkerIsolated`, `PoolSound`, `QuotaRespected` | two calls with logins, registrations and operators; beside it attempts of two principals on a pool of one or two workers with hostile guests, and captures of two tenants that compete for an outbox of one |
| `admission` | `ProvidersAccounted`, `AnswersHonest`, `LeaseEnds`, `AdmissionSound`, `InferenceDisclosed`, `ListsSound`, `AnswersExact`, `ExpansionExact` | a request with its sessions; every manifest one or two edits from a shop; ten lists and five aggregates under edits; every component of up to seven payloads |
| `guests_slots` | `SlotsExact` | violated, finding 1 |
| `blobs_inventory` | `UnknownBlocksUploads` | violated, finding 2 |
| `guests_shared` | `SubmissionsAlone` | violated, finding 3 |

Where a run names a conjunction (`ClaimsSound`, `StoredSound`, `ClockSound`,
`ScanSound`, `ObjectsDurable`, `ChargesExact`, `SubmissionsSound`, `ProvidersAccounted`,
`AdmissionSound`, `InferenceDisclosed`, `ListsSound`, `AnswersExact`, `LimitsKept`,
`PoolSound`), its parts are named definitions with their own comments, right above it.

**Why the bounds are enough to meet the cases.** Two attempts give a first, a repeated
and an exhausted claim; a lease of one instant in three to five lets it
expire in every phase. Two slots or processes are the fewest that can race, and no
transaction involves more than two attempts on one row. Two epochs give current and
stale authority. A retry window as long as the lease, or longer, ends both before and
after the allowance; in `captures` the backoff is shorter than one instant, so that a
retry fits into the window and a Retry-After of one instant does not. A lease and a window
of one instant leave no time there for a refund or for a send under a reclaimed lease;
`outbox_progress`, where `SendsWithinAllowance` is checked, has both, and a behaviour in
which one follows the other. Two captures of
two tenants on an app limit of one, and two jobs of a tenant limited to one, are the
fewest that exceed a quota. Pages of one record over two records and an edit give a full
page, an empty one and a scan over several polls. Two ticks, a
list of two and a window of two instants let a request be served from the older tick, and
both ticks age out of the window; that the list never grows past `Keep` is proved.
One object with its reservation, a stray file and three faults let each commit of its
life be lost and each worker be killed in each of its file-system steps. Two forms and two
submissions are the fewest that compete; one form submitted twice is the same instance.
Two calls and two password attempts a minute let a login race anything an operator does.
A pool of one worker has evictions and one of two has parallel starts. In `Listing`
tables of four or five records with streams of two and windows of six end streams
before, at and behind their limits, and one change falls between any two pages. Every property is also shown to fail for a plausible slip in the code it is
about; the slips are the operators introduced by "Slip:" and are named in
`PROJECT.json`.

**Deadlock** is checked in `blobs_recovery` and `blobs_inventory`. The other
instances stop when their time, versions and epochs are used up and all work is
settled, which is the end of the instance and not of the system.

**Fairness.** `Settles` and `JobSettles` assume weak fairness of each worker slot (the
loops poll every second, and each phase of an attempt ends at its own deadline), of
starting a process (a supervisor restarts it) and of the clock (ticked every second).
Interruptions are bounded, which stands for "commits are not lost for ever". A slot
that is retained (`Retain`) is left out of `outbox_progress`: the code frees it only
by a restart, and two of them leave the process without slots. `TurnsServed` assumes
weak fairness of polling and of jobs leaving the queue, and that a page fits into the
queue. With `pending_per_tenant` below the page size, or a queue full of paused jobs,
`run_recurrence_once` would fail on the same oldest schedule for ever and no other
schedule, of any tenant, would be reached: the assumption is needed.
`CollectedEventually` assumes that maintenance runs a page per turn, that requests and
native workers end by their deadlines, that the supervisor starts a process whose
activation failed, and that the lifecycle clock passes. `LeaseEnds` assumes that the
runtime polls the tasks it was given and that timers fire, nothing about the provider.

## Findings

1. `guests_slots`. `live` is documented as the "Workers idle, busy or starting"
   (`noxide-guest/src/pool.rs:117`). Callers wrap the whole attempt in `timeout_at` with
   the same deadline that `run` extends by `WORKER_GRACE`, so `run` is dropped during an
   exchange that reaches its deadline; the worker is killed, and neither `park` nor `discard`
   takes its slot off `live`. After `concurrency` such drops no worker is started any more.
2. `blobs_inventory`. New uploads shall wait for the initial inventory, and unknown files
   shall block them (`docs/architecture/blobs.md:175`, `:188`). `Inventory::batch` takes
   keys off the scan before the transaction that accounts them; when that page fails its
   keys are not seen again before the next restart, and `inventory_complete` is set.
3. `guests_shared`. "Anything they submit, or reach through a capability, gets a worker of
   its own", says `Effects::isolation` of anonymous visitors
   (`noxide-repository/src/repository.rs:76-78`, also `docs/architecture/layers.md:138`).
   The function looks at the input, the inspection and the capability, not at whether the
   request is an action: a public action without inputs has the key of the anonymous pages,
   so with `guest_worker_requests` above one it may run in a process that has served other
   visitors.

## Observations

Met while modelling and kept here because the invariants are stated around them:

* `preflight` requeues a claim whose lease expired before the send as pending with its
  attempt kept. On the fifth claim this stores a pending row with five attempts, which
  `OutboxContext::row` denies (`"pending" => row.attempts < 5`, `store.rs:447`). The
  next claim is marked exhausted, and the capture goes dead though its fifth attempt was
  never sent.
* `activate_effects` says that a restart under the same approval "preserves
  independently revoked row states" (`operator.rs:187`). The initial state is taken from
  the runtime alone: after a fork, one grant makes the runtime active and the next
  restart activates every grant of an older epoch. Rows stay paused, so `LiveAuthority`
  holds.
* `State::published` says that a snapshot "taken before a newer tick committed still
  sees one of these exact clocks" (`lifecycle_clock.rs:124`). A process publishes only its
  own ticks: a request that has read a peer's tick is refused as busy once its own
  process publishes a newer one.
* `validate_assignment` admits an adjustment of an optional bounded integer, and
  `adjusted_value` fails on an empty one with an internal error. `AdmittedExecutes`
  exempts exactly this case.
* An aggregate over a search without tokens, with more policy rules than remaining
  search allowance, ends in an internal error instead of a limit. `AggregateExact`
  exempts it.
* A page that exceeds its guest deadline while a storage call is answered parks its
  worker with the reply unread; the next exchange of that worker fails and discards it.
* `checkout` decrements `waiting` only when it returns; a dropped request leaves it
  raised, so later waiters start more workers than they need.

## What is proved

TLAPS checks the theorems below for every value of the constants: any number of
captures, jobs, schedules, requests, forms, processes and slots, and every limit and
bound that satisfies the assumptions of the module. Those are `MapAssumption` (which
endpoint a capture has, which process a slot) and `LimitAssumption` of `Outbox` and
`Jobs`, and `RecurrenceAssumption`, `ClockAssumption`, `RequestsAssumption`,
`StoreAssumption`, `BlobAssumption`, `GuestsAssumption`, `AccountsAssumption` and
`PermitsAssumption`. They only type the constants and keep `Nobody` apart from what it
stands for the absence of, with exceptions taken from the code: calls, guest attempts and
upload slots and unknown files are finitely many (a call and an attempt hold a connection, a
slot is a digest of fixed length, a directory is finite), fresh identities and nonces are picked as the least unused numbers, the
last tick of the circuit table is beyond its capacity (2^64 - 1 and 65536), a circuit
starts with no more than it may hold,
quotas per tenant do not exceed those of the app, concurrency is one or two, a page
never exceeds the queue limit (`Caps`), and a connection's statement reserve pays for the
longest stop (`POSTGRES_CLEANUP` is at least `6 + 2 * Checks`; in the code 40 and 38). The
bound on the processes a run explores lets the warm workers start (`MaxStarts`).
TLC evaluates each of them in a run.

The argument is always the same: an invariant that holds initially, that every action
preserves, and that implies the property. None of the properties is inductive alone; what
has to be added is the explanation of why the code is right, and is told here.

**Outbox, `OutboxProofs`.** `TypeCorrect` (`TypeOK`) needs that an attempt beyond its
claim names a capture (`UnderWayNamesCapture`), whose row it updates, and that a running
row has been charged (`RunningCharged`), since a retry looks its backoff up by attempts.
`NoStaleAuthority` (`LiveAuthority`): the commands that change a grant, a secret or the
runtime pause in the same step all rows whose envelope they affect, every action that
makes a row live checks the authority first, and no other action touches it.
`DeliveryIsAcknowledged` (`DeliveredAcknowledged`) adds that an attempt that holds a 2xx
answer has its fence among the acknowledged ones (`PostAcknowledged`).

`SlotsWorkApart` (`OneSlotPerCapture`): a claim excludes
every capture that a slot of its process has marked, and the mark outlives the lease.
`ClaimsFitTheirRows` (`ClaimsSound`) and `SendsStayWithinAllowance`
(`SendsWithinAllowance`) share `ClaimsInv`: an attempt holds a fence its row has issued;
while it is still the row's fence, the row is running under this very claim, or was
paused or cancelled meanwhile; and as long as a charged attempt has not been admitted,
fewer sends than attempts are on record. The refund of `release_unsent` is sound because
it needs just that fence. Fences are unique because a claim takes a number above the row's.

`OutboxImplementsLifecycle` (`LifecycleSpec`): under
`ClaimsInv` and `DeliveredInv` each action maps to a move of `EffectLifecycle` or leaves
its view unchanged; a late finalization is a stutter because its fence does not hold.
`QuotaKept` (`QuotaRespected`): the occupied places are finitely many even where captures
are not, and a row enters them only through `QuotaFree`.

**Jobs, `JobsProofs`.** `JobsInv` rests on one equation: the attempts of a row are its
fence, capped at the allowance. With it an attempt needs to know nothing of its row but
the fence it was issued, and an attempt that is not exhausted runs under one of the first
`MaxAttempts` fences. From it: `EveryRowReadable` (`StoredSound`), `EnvelopesStayCurrent`
(`EnvelopeCurrent`), `AttemptsWithinAllowance` (`AttemptsBounded`) and
`JobsImplementLifecycle` (`JobLifecycleSpec`). `ConcurrencyKept`
(`RunningWithinConcurrency`) and `JobQuotaKept` (`JobQuotaRespected`) count finite sets
of rows: a reclaimed lease stays in the set it was in, and a replacement takes the place
of what it replaces.

**Recurrence, `RecurrenceProofs`.** `RecurrenceInv` follows a scan across its polls: while
a cursor is stored, the row has the cutoffs the scan began with, and every record the scan
owes is listed and either emitted or ahead of the cursor (`Underway`). Stored keys are
those of the emitted jobs and no others (`Keyed`). `NoOccurrenceTwice` (`EmittedOnce`)
follows from the keys, `ScansAreSound` (`ScanSound`) from the cursor: a page is the first
part of the list in its order, so what it leaves is behind its last record. The order of a
finite page, that it has a last record, is proved by induction over the library's theorem on
finite sets of numbers.

**Lifecycle clock, `ClockProofs`.** `ClockInv`: a tick's clock is no earlier than any
watermark from before the instant the tick started (`Covers`), however late it is
committed; an unanswered COMMIT keeps the row locked until it is settled, so what it would
write is still ahead of the row when it takes effect (`PendingAhead`, `RowHeldOnce`).
`FreshTime` (`StalenessBounded`), `OnlyCommittedPublished` (`PublishedCommitted`) and
`MarkCoversWrites` (`ClockSound`) follow.

**Requests, `RequestsProofs`.** `RequestsInv`: a transaction that may still commit was
judged over the database as it is now (`Judged`), so its form has no receipt; and a form
whose action took effect has its receipt or can never be verified again, because its key
was replaced or the observed second is past its lifetime (`Spent`). This is what makes
pruning receipts and setting the clock back safe. `FormsTakeEffectOnce`
(`SubmissionsSound`), `VisitorsAreToldTheTruth` (`AnswersHonest`) and
`ReviewsAndCapabilitiesCurrent` (`EditsCurrent`, an action property).

**Store, `StoreProofs`.** `StoreInv` asks four things of each request: what covers its
session (`Covered`: a live session has its gate, and the gate its permit), what is left of
its protected statements (`Funded`: for each place of the lease, the price of the stop
still ahead), where its COMMIT stands (`Committing`) and what the registry knows
(`Listed`). `ProvidersStayAccounted` (`ProvidersAccounted`) and `ClientsAreToldTheTruth`
(`AnswersHonest`).

**Blobs, `BlobsProofs`.** `BlobsInv` is told slot by slot (`SlotSound`), with the page in
progress beside it. A worker that runs is known by an unstopped witness of the row's own
generation, in `workers` and never in `undispatched` (`JobSound`); so a stopped witness of
that generation proves that nobody writes the object any more (`ProofOfRow`), and a row of
an earlier process has no workers at all. `PlannedClaim` concludes that the page claims a
row only when nobody writes its object or will, and `Beside` that this stays so until the
claim commits, or the generation shows that it did not. Each system call starts from what
the call before it left on the disk and of a power loss (`Progress`, `UploadCall`,
`RemovalCall`), and a witness that stopped without failing did them all (`WitnessSound`):
what publication and release rely on. `ObjectsAlwaysDurable` (`ObjectsDurable`) and
`WorkersAlwaysFenced` (`WorkersFenced`) follow. On the way `PlanStep` shows that a deleted
row never has a file left, so the branch of `reconcile_row` that cleans up behind a
tombstone only drops its witnesses. `ChargesInv` gives the counters as functions of the
rows and the orphans. What a set of rows owes is a cardinality (`Sum` counts the charged
bytes, `Objects` the rows that hold an object), so it moves by the difference of one row's
due (`OwedMoves`), and each step that moves a row with a charge applies just that difference
to the three counters of its slot (`Moves`, `ChargeApplied`), whether the commit is
acknowledged or came back unknown; a page charges unknown files by their single name, which
nothing ever touches (`StraysSound`). `ChargesAlwaysExact` (`ChargesExact`) follows.

**Accounts, `GatewayProofs`.** `AccountsInv` has a part for each concern. Sessions
(`SessionsInv`): a session that a logout or an operator has ended is gone or carries an
epoch its account has left (`Outdated`), and a login that still hashes has read an epoch no
later than the account's (`ReadBefore`), so the session it writes is either current or
outdated from the start; epochs only grow (`Grow`), hence what is outdated stays so and
`RevokedAreRefused` (`RevokedNeverServed`, an action property) follows at the one step that
serves, `ServePage`. Permits (`PermitsInv`): what a lane lacks is the number of calls that
use it, themselves or through their password worker (`Uses`), a cardinality which each step
of a call changes by at most one (`PermitsMove`); it needs to know which calls may have a
worker and that a worker's permits are its call's and one of hashing (`Works`), which is why
a deadline may return none of them. Circuits (`CircuitsInv`): the table's entries are the
circuits of `recent`, each once, with ticks that grow along it and stay below the table's;
the least tick is therefore the circuit used longest ago (`EvictedIs`), and numbering the
entries by how many are older keeps their order (`RenumberedIs`). A login may outlast its
account and store a session for one that is disabled or gone; `BarredInv` shows that this
session, and the read of any login that is still hashing for such an account, carries an
epoch the account has left, because passwords are checked for active accounts only and
whatever bars an account moves its epoch. `LimitsAreKept` (`LimitsKept`) is the permits, the
circuits, the invitations and these sessions together.

**Guest pool, `GatewayProofs`.** `PoolInv` gives every process one holder (`HeldOnce`,
`HeldApart`): the idle list, an exchange, an answer of the broker on its way or unread, or a
start in progress. What a process has seen fits the key its holder has it for
(`Isolated`), and since a worker is passed on only under that key or when it has served
nobody, `WorkersServeOneKey` (`WorkerIsolated`) follows. A process without a holder was
given up by `Killed`, whose message is still ahead of the broker (`KillsFind`), and the
broker's list of children has it until then (`Listed`): a start the broker has not read is
no process yet, and an answer nobody waits for is discarded. `PoolStaysSound` (`PoolSound`)
adds that an attempt that has looked and was not told since could take nothing
(`Informed`), where each change to the idle list is followed by `Bump` or takes a worker
away, and an inequality over the exchange: what an honest guest still may ask for is never
more than what the server still grants (`Owed`, `Credit`). That slots cover the workers is
counted over finite sets: only lost slots make `live` exceed its workers, which the
violating run `guests_slots` exhibits.

Only model-checked:

* liveness (`Settles`, `JobSettles`, `TurnsServed`, `CollectedEventually`,
  `LeaseEnds`), since the prover knows nothing of fairness and ENABLED;
* `ExpansionExact`, whose reference is a recursive operator, and `ListsSound` and
  `AnswersExact`, whose references fold over the records: all would need induction over
  data;
* `AdmissionSound` and `InferenceDisclosed`, which compare recursive evaluations of an
  expression.

## Not modelled

Code generation, SQL text, rendering, assets and the command line have no state of
their own and no order of events. The wire under a POST (Tor, TLS, DNS) is its result.
The guest's computation is the outcome of an action; the Wasm engine is a library.
Confinement of processes is the operating system's. Backup files are not modelled; what
a restored database means to its runtime is (`Fork`, `RestoreFork`). Storage layout
audits at startup either pass or stop the process. Of the modelled parts, the following
is left out: the flock, drain and native TLS of the delivery owner; SQLite's connection
thread; reading an object back and the media checks of its bytes; header and body
parsing; names, sizes and wording in manifests; encodings of values and cursors.
