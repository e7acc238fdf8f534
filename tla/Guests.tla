------------------------------- MODULE Guests -------------------------------
(***************************************************************************)
(* The guest pool: requests that wait for a worker process, the broker     *)
(* that starts and kills the processes, and the exchange in which a worker *)
(* runs guest code and asks the server for storage.                        *)
(*                                                                         *)
(* A worker is trusted with nothing: at any moment its guest may escape    *)
(* the sandbox and send whatever it likes.  Requests and outputs are       *)
(* opaque; fuel is bounded in the same way as host calls and left out.     *)
(***************************************************************************)
EXTENDS Naturals, FiniteSets, Sequences, SequencesExt

CONSTANTS
    Attempts,       \* guest attempts in progress at once
    Offers,         \* the attempts made: <<principal, kind>>, where the kind is "none" (no
                    \* repository), "route", "action", "bare" (an action with neither input nor
                    \* inspected fields) or "capability" (an action under a capability's grant)
    Anonymous,      \* PrincipalKey::Anonymous
    Anybody,        \* the empty key, of attempts without a repository
    Single,         \* Isolation::Single
    NoWorker,       \* no worker, no key
    Concurrencies,  \* the values of limits.concurrency explored (16)
    WARM_WORKERS,   \* unassigned workers kept ready (4)
    RETIRE_AFTER,   \* requests a worker serves (1 by default)
    HOST_CALLS,     \* limits.host_calls
    MaxStarts,      \* concurrency -> processes ever started
    MaxMade     \* concurrency -> attempts ever made

ASSUME GuestsAssumption ==
    /\ Concurrencies \cup {RETIRE_AFTER, HOST_CALLS} \subseteq Nat \ {0} /\ WARM_WORKERS \in Nat
    /\ IsFiniteSet(Attempts) /\ NoWorker \notin Nat \cup {Anybody, Single}
    /\ \A offer \in Offers : offer[1] # NoWorker /\ offer[2] \in {"none", "route", "action", "bare", "capability"}
    /\ \A size \in Concurrencies : /\ MaxStarts[size] \in Nat /\ MaxStarts[size] >= WARM_WORKERS
                                   /\ MaxMade[size] \in Nat

VARIABLES
    pool,       \* the server: [size, idle, live, starting, waiting, asking, sent]; asking
                \* counts threads waiting for the broker and sent is its request socket
    broker,     \* [alive, replies, starting, children, next]
    process,    \* id -> [alive, runs, seen, stale, escaped]
    arriving,   \* workers received from the broker and not yet parked
    tries,      \* attempt -> its progress
    woken,      \* waiting attempts with a change they have not seen
    made        \* attempts made so far

guestVars == <<pool, broker, process, arriving, tries, woken, made>>

Unborn == [alive |-> FALSE, runs |-> 0, seen |-> {}, stale |-> 0, escaped |-> FALSE]
Idling == [at |-> "idle", key |-> NoWorker, grant |-> "none", ahead |-> 0, worker |-> NoWorker, served |-> 0,
           calls |-> 0, failure |-> FALSE, own |-> 0, pending |-> 0, doing |-> "guest", next |-> "report",
           outcome |-> "Output", left |-> FALSE, over |-> FALSE, stored |-> 0, result |-> "none"]
ProcessIds == 1 .. MaxStarts[pool.size]
Waiters == {a \in Attempts : tries[a].at \in {"look", "evict", "add", "wait"}}

(* `isolation`, and the key without one: what tells an anonymous submission  *)
(* from an anonymous page is what it carries, not that it is an action.      *)
Isolation(principal, kind) ==
    CASE kind = "none" -> Anybody
      [] principal = Anonymous /\ kind \in {"action", "capability"} -> Single
      [] OTHER -> principal
(* `storage_allowed`: the server answers storage calls of a route only. *)
StorageAllowed(kind) == kind = "route"

-----------------------------------------------------------------------------
(* The pool, as functions of its state. *)

(* `add_worker`, several times over: takes a slot and asks the broker, while there is room. *)
Room(p) == IF p.live < p.size THEN p.size - p.live ELSE 0
Added(p, times) ==
    LET n == IF times < Room(p) THEN times ELSE Room(p) IN
    [p EXCEPT !.live = @ + n, !.starting = @ + n, !.asking = @ + n,
              !.sent = IF broker.alive THEN @ \o [i \in 1 .. n |-> <<"START", 0>>] ELSE @]
Unassigned(p) == {i \in DOMAIN p.idle : p.idle[i].key = NoWorker}
(* `keep_warm`. *)
Warmed(p) ==
    LET ready == Cardinality(Unassigned(p)) + p.starting IN
    Added(p, IF ready < WARM_WORKERS THEN WARM_WORKERS - ready ELSE 0)
(* `Worker::drop`: the socket closes and the broker is asked to kill. *)
Killed(p, id) == [p EXCEPT !.sent = IF broker.alive THEN Append(@, <<"KILL", id>>) ELSE @]
(* `discard`. *)
Discarded(p, id) == LET q == Killed(p, id) IN Warmed(Added([q EXCEPT !.live = @ - 1], 1))
(* `take`: this key's worker, else one that has served nobody. *)
\* Slip: any idle worker will do.
SuitableAny(p, key) == DOMAIN p.idle
Suitable(p, key) ==
    LET own == {i \in DOMAIN p.idle : key # Single /\ p.idle[i].key = key} IN
    IF own # {} THEN own ELSE Unassigned(p)
(* `swap_remove`: the last idle worker takes the free place. *)
SwapRemoved(seq, i) == LET last == Len(seq) IN
    [j \in 1 .. last - 1 |-> IF j = i THEN seq[last] ELSE seq[j]]
(* `changed.send_modify`. *)
\* Slip: nobody is told.
BumpSilent == UNCHANGED woken
Bump == woken' = Waiters

-----------------------------------------------------------------------------
(* Checkout. *)

Try(a, next) == tries' = [tries EXCEPT ![a] = next]
Ended(a, result) == [Idling EXCEPT !.at = "done", !.result = result, !.calls = tries[a].calls,
                                    !.failure = tries[a].failure, !.stored = tries[a].stored]
Gone(result) == [Idling EXCEPT !.at = "done", !.result = result]

Request(a, principal, kind) ==
    /\ tries[a].at \in {"idle", "done"} /\ made < MaxMade[pool.size] /\ made' = made + 1
    /\ pool' = [pool EXCEPT !.waiting = @ + 1]
    /\ Try(a, [Idling EXCEPT !.at = "look", !.key = Isolation(principal, kind), !.grant = kind,
                            !.ahead = pool.waiting + 1])
    /\ woken' = woken \ {a}
    /\ UNCHANGED <<broker, process, arriving>>
(* One turn of `wait_for_worker`; a worker found is sent the request. *)
Look(a) ==
    LET found == Suitable(pool, tries[a].key)
        i == CHOOSE j \in found : \A k \in found : j <= k
        worker == pool.idle[i] IN
    /\ tries[a].at = "look" /\ woken' = woken \ {a}
    /\ IF found # {}
       THEN /\ pool' = Warmed([pool EXCEPT !.idle = SwapRemoved(@, i), !.waiting = @ - 1])
            /\ Try(a, [tries[a] EXCEPT !.at = "running", !.worker = worker.id, !.served = worker.served,
                                       !.calls = HOST_CALLS, !.own = HOST_CALLS])
            /\ process' = [process EXCEPT ![worker.id].runs = @ + 1,
                              ![worker.id].seen = @ \cup {IF tries[a].key = Single THEN <<Single, made, a>>
                                                          ELSE <<tries[a].key, 0, 0>>}]
       ELSE /\ Try(a, [tries[a] EXCEPT !.at = IF pool.starting < tries[a].ahead THEN "evict" ELSE "wait"])
            /\ UNCHANGED <<pool, process>>
    /\ UNCHANGED <<broker, arriving, made>>
(* `evict_one`: an idle worker of another key makes room. *)
Evict(a) ==
    /\ tries[a].at = "evict" /\ Try(a, [tries[a] EXCEPT !.at = "add"])
    /\ pool' = IF pool.live < pool.size \/ pool.idle = << >> THEN pool
               ELSE [Killed(pool, Head(pool.idle).id) EXCEPT !.idle = Tail(pool.idle), !.live = @ - 1]
    /\ UNCHANGED <<broker, process, arriving, woken, made>>
Reinforce(a) ==
    /\ tries[a].at = "add" /\ Try(a, [tries[a] EXCEPT !.at = "wait"]) /\ pool' = Added(pool, 1)
    /\ UNCHANGED <<broker, process, arriving, woken, made>>
Wake(a) ==
    /\ tries[a].at = "wait" /\ a \in woken /\ Try(a, [tries[a] EXCEPT !.at = "look"])
    /\ UNCHANGED <<pool, broker, process, arriving, woken, made>>
Expire(a) ==
    /\ tries[a].at = "wait" /\ Try(a, Gone("deadline")) /\ pool' = [pool EXCEPT !.waiting = @ - 1]
    /\ UNCHANGED <<broker, process, arriving, woken, made>>
(* The caller's own deadline, or a closed connection, drops the attempt. *)
DropAttempt(a) ==
    /\ tries[a].at \in {"wait", "running", "asked"} /\ Try(a, Gone("gone"))
    /\ pool' = IF tries[a].at = "wait" THEN pool ELSE Killed(pool, tries[a].worker)
    /\ UNCHANGED <<broker, process, arriving, woken, made>>

-----------------------------------------------------------------------------
(* Starting workers. *)

(* The blocking thread's `worker()` returns; a failed start gives its slot back. *)
StartAnswered ==
    /\ pool.asking > 0 /\ (broker.replies # << >> \/ ~broker.alive)
    /\ LET ready == broker.replies # << >> /\ Head(broker.replies)[1] = "READY"
           p == [pool EXCEPT !.asking = @ - 1, !.starting = @ - 1] IN
          IF ready THEN pool' = p /\ arriving' = arriving \cup {Head(broker.replies)[2]} /\ UNCHANGED woken
          ELSE pool' = [p EXCEPT !.live = @ - 1] /\ UNCHANGED arriving /\ Bump
    /\ broker' = IF broker.replies # << >> THEN [broker EXCEPT !.replies = Tail(@)] ELSE broker
    /\ UNCHANGED <<process, tries, made>>
(* `park`. *)
Arrived(id) ==
    /\ id \in arriving /\ arriving' = arriving \ {id} /\ Bump
    /\ pool' = [pool EXCEPT !.idle = Append(@, [id |-> id, served |-> 0, key |-> NoWorker])]
    /\ UNCHANGED <<broker, process, tries, made>>

(* The broker: `serve`, one message at a time; starts run on threads. *)
Alive(ids) == {id \in ids : process[id].alive}
BrokerReads ==
    /\ broker.alive /\ pool.sent # << >> /\ pool' = [pool EXCEPT !.sent = Tail(@)]
    /\ LET kind == Head(pool.sent)[1]
           id == IF kind = "START" THEN broker.next + 1 ELSE Head(pool.sent)[2]
           swept == Alive(broker.children) IN
       IF kind = "START"
       THEN /\ broker.next < MaxStarts[pool.size]
            /\ broker' = IF Cardinality(swept) + Cardinality(broker.starting) >= 2 * pool.size
                         THEN [broker EXCEPT !.next = id, !.children = swept, !.replies = Append(@, <<"FAILED", id>>)]
                         ELSE [broker EXCEPT !.next = id, !.children = swept, !.starting = @ \cup {id}]
            /\ UNCHANGED process
       ELSE /\ broker' = [broker EXCEPT !.children = Alive(@) \ {id}]
            /\ process' = IF id \in broker.children THEN [process EXCEPT ![id] = Unborn] ELSE process
    /\ UNCHANGED <<arriving, tries, woken, made>>
(* `Broker::start`, on a thread: the child is listed, and only then reported. *)
\* Slip: the reply comes first.
StartStagesSwapped == <<"report", "list">>
StartStages == <<"list", "report">>
Staged(b, id, n) == IF StartStages[n] = "list" THEN [b EXCEPT !.children = @ \cup {id}]
                    ELSE [b EXCEPT !.replies = Append(@, <<"READY", id>>)]
BrokerStarts(id) ==
    /\ broker.alive /\ id \in broker.starting /\ ~process[id].alive
    /\ \/ process' = [process EXCEPT ![id].alive = TRUE] /\ broker' = Staged(broker, id, 1)
       \/ broker' = [broker EXCEPT !.starting = @ \ {id}, !.replies = Append(@, <<"FAILED", id>>)]
          /\ UNCHANGED process
    /\ UNCHANGED <<pool, arriving, tries, woken, made>>
BrokerReports(id) ==
    /\ broker.alive /\ id \in broker.starting /\ process[id].alive
    /\ broker' = [Staged(broker, id, 2) EXCEPT !.starting = @ \ {id}]
    /\ UNCHANGED <<pool, process, arriving, tries, woken, made>>
BrokerDies ==
    /\ broker.alive /\ broker' = [broker EXCEPT !.alive = FALSE, !.starting = {}, !.children = {}]
    /\ pool' = [pool EXCEPT !.sent = << >>]
    /\ UNCHANGED <<process, arriving, tries, woken, made>>

-----------------------------------------------------------------------------
(* The exchange. *)

(* `run` after the exchange: a worker is parked for its key or discarded. *)
Reusable(a, kept) == kept /\ tries[a].key # Single /\ tries[a].served + 1 < RETIRE_AFTER
Concluded(a, kept, calls, result) ==
    /\ Try(a, [Ended(a, IF tries[a].failure THEN "failed" ELSE result) EXCEPT !.calls = calls])
    /\ IF Reusable(a, kept)
       THEN /\ pool' = [pool EXCEPT !.idle = Append(@, [id |-> tries[a].worker, served |-> tries[a].served + 1,
                                                        key |-> tries[a].key])]
            /\ Bump
       ELSE pool' = Discarded(pool, tries[a].worker) /\ UNCHANGED woken
    /\ UNCHANGED <<broker, process, arriving, made>>
(* A malformed frame, a closed socket, a death or the server's own timeout. *)
Broken(a) ==
    /\ tries[a].at \in {"running", "asked"}
    /\ \E result \in {"failed", "deadline"} : Concluded(a, FALSE, tries[a].calls, result)
(* `granted` and `settle`: the server's checks of one storage call. *)
Storage(a, t) ==
    IF t.calls = 0 THEN [t EXCEPT !.over = TRUE]
    ELSE IF ~StorageAllowed(t.grant) THEN [t EXCEPT !.calls = @ - 1, !.failure = TRUE]
    ELSE [t EXCEPT !.calls = @ - 1, !.at = "asked"]
Exceeds(a) == tries[a].calls = 0
Escaped(a) == process[tries[a].worker].escaped
Going(a) == tries[a].at = "running" /\ ~Escaped(a) /\ process[tries[a].worker].alive
Inner(a, next) == Try(a, next) /\ UNCHANGED <<pool, broker, process, arriving, woken, made>>
(* A worker whose socket still holds a reply it gave up on reads it in place *)
(* of the request, and ends.                                                 *)
OutOfStep(a) ==
    /\ Going(a) /\ process[tries[a].worker].stale > 0
    /\ process' = [process EXCEPT ![tries[a].worker] = Unborn]
    /\ UNCHANGED <<pool, broker, arriving, tries, woken, made>>
InStep(a) == Going(a) /\ process[tries[a].worker].stale = 0
(* Guest code: every import is charged before anything else (`charge`). *)
GuestLocal(a) ==
    /\ InStep(a) /\ tries[a].doing = "guest" /\ tries[a].own > 0
    /\ Inner(a, [tries[a] EXCEPT !.own = @ - 1])
GuestSource(a) ==
    /\ InStep(a) /\ tries[a].doing = "guest" /\ tries[a].own > 0
    /\ Inner(a, [tries[a] EXCEPT !.own = @ - 1, !.pending = @ + 1])
GuestAsk(a) ==
    /\ InStep(a) /\ tries[a].doing = "guest" /\ tries[a].own > 0
    /\ Inner(a, [tries[a] EXCEPT !.own = @ - 1, !.doing = "flush", !.next = "ask"])
(* The guest returns, traps or runs out of its budgets; then what it owes is sent. *)
GuestEnds(a, outcome) ==
    /\ InStep(a) /\ tries[a].doing = "guest"
    /\ Inner(a, [tries[a] EXCEPT !.doing = "flush", !.next = "report", !.outcome = outcome])
(* The worker's own deadline: a question under way is given up. *)
GuestDeadline(a) ==
    /\ tries[a].at \in {"running", "asked"} /\ ~Escaped(a)
    /\ tries[a].doing \in {"guest", "ask"} \/ tries[a].next = "ask"
    /\ Inner(a, [tries[a] EXCEPT !.outcome = "Deadline", !.doing = "flush", !.next = "report",
                                 !.pending = IF @ > 0 /\ tries[a].doing = "flush" THEN 0 ELSE @,
                                 !.left = tries[a].at = "asked"])
(* `flush`: sources travel one by one; a refusal ends the guest's call. *)
FlushSource(a) ==
    LET t == Storage(a, tries[a]) IN
    /\ InStep(a) /\ tries[a].doing = "flush" /\ tries[a].pending > 0
    /\ \E ok \in BOOLEAN :
          Inner(a, IF t.at = "asked" /\ ok
                   THEN [t EXCEPT !.at = "running", !.pending = @ - 1, !.stored = @ + 1]
                   ELSE [t EXCEPT !.at = "running", !.failure = TRUE, !.pending = 0, !.next = "report",
                                  !.outcome = IF @ = "Deadline" THEN @ ELSE "Failed"])
Ask(a) ==
    /\ InStep(a) /\ tries[a].doing = "flush" /\ tries[a].next = "ask" /\ tries[a].pending = 0
    /\ LET t == Storage(a, tries[a]) IN
          Inner(a, IF t.at = "asked" THEN [t EXCEPT !.doing = "ask"]
                   ELSE [t EXCEPT !.doing = "flush", !.next = "report", !.outcome = "Failed"])
HostAnswers(a) ==
    /\ tries[a].at = "asked"
    /\ \E ok \in BOOLEAN :
          LET t == [tries[a] EXCEPT !.at = "running", !.failure = @ \/ ~ok, !.stored = @ + 1] IN
          /\ Try(a, IF t.left \/ Escaped(a) THEN t
                    ELSE IF ok THEN [t EXCEPT !.doing = "guest"]
                    ELSE [t EXCEPT !.doing = "flush", !.next = "report", !.outcome = "Failed"])
          /\ process' = IF t.left THEN [process EXCEPT ![t.worker].stale = @ + 1] ELSE process
    /\ UNCHANGED <<pool, broker, arriving, woken, made>>
(* `Done`: no worker grants itself budget or undoes calls the server counted. *)
\* Slip: the worker's figure is believed.
CountedClaim(a, claim) == claim
Counted(a, claim) == IF claim < tries[a].calls THEN claim ELSE tries[a].calls
ResultOf(outcome) == CASE outcome = "Output" -> "page" [] outcome = "Deadline" -> "deadline" [] OTHER -> "failed"
Report(a) ==
    /\ tries[a].at = "running" /\ ~Escaped(a) /\ process[tries[a].worker].alive
    /\ tries[a].doing = "flush" /\ tries[a].next = "report" /\ tries[a].pending = 0
    /\ process[tries[a].worker].stale = 0 \/ tries[a].left
    /\ Concluded(a, TRUE, Counted(a, tries[a].own), ResultOf(tries[a].outcome))
(* A guest that escaped: it controls every byte its worker sends. *)
Escape(a) ==
    /\ InStep(a) /\ tries[a].doing = "guest" /\ process' = [process EXCEPT ![tries[a].worker].escaped = TRUE]
    /\ Try(a, [tries[a] EXCEPT !.own = 0, !.pending = 0])
    /\ UNCHANGED <<pool, broker, arriving, woken, made>>
HostileCall(a) ==
    /\ tries[a].at = "running" /\ Escaped(a)
    /\ IF Exceeds(a) THEN Concluded(a, FALSE, 0, "failed") ELSE Inner(a, Storage(a, tries[a]))
HostileDone(a, claim) ==
    /\ tries[a].at = "running" /\ Escaped(a)
    /\ \E outcome \in {"Output", "Failed"} : Concluded(a, TRUE, Counted(a, claim), ResultOf(outcome))
(* A process whose socket the server closed ends by itself, unless escaped. *)
HeldIds == {pool.idle[i].id : i \in DOMAIN pool.idle} \cup {tries[a].worker : a \in Attempts} \cup arriving
           \cup {broker.replies[i][2] : i \in DOMAIN broker.replies} \cup broker.starting
Exits(id) ==
    /\ process[id].alive /\ id \notin HeldIds /\ ~process[id].escaped
    /\ process' = [process EXCEPT ![id] = Unborn]
    /\ UNCHANGED <<pool, broker, arriving, tries, woken, made>>

-----------------------------------------------------------------------------
(* `GuestPool::start` leaves the warm workers idle. *)
Warm(size) == IF WARM_WORKERS < size THEN WARM_WORKERS ELSE size
GuestsInit ==
    /\ \E size \in Concurrencies :
          /\ pool = [size |-> size, idle |-> [i \in 1 .. Warm(size) |-> [id |-> i, served |-> 0, key |-> NoWorker]],
                     live |-> Warm(size), starting |-> 0, waiting |-> 0, asking |-> 0, sent |-> << >>]
          /\ broker = [alive |-> TRUE, replies |-> << >>, starting |-> {}, children |-> 1 .. Warm(size),
                       next |-> Warm(size)]
          /\ process = [i \in 1 .. MaxStarts[size] |-> [Unborn EXCEPT !.alive = i <= Warm(size)]]
    /\ arriving = {} /\ tries = [a \in Attempts |-> Idling] /\ woken = {} /\ made = 0
Checkout(a) == Look(a) \/ Evict(a) \/ Reinforce(a) \/ Wake(a) \/ Expire(a) \/ DropAttempt(a)
Exchange(a) ==
    \/ Broken(a) \/ OutOfStep(a) \/ GuestLocal(a) \/ GuestSource(a) \/ GuestAsk(a)
    \/ GuestEnds(a, "Output") \/ GuestEnds(a, "Failed") \/ GuestDeadline(a)
    \/ FlushSource(a) \/ Ask(a) \/ HostAnswers(a) \/ Report(a)
    \/ Escape(a) \/ HostileCall(a) \/ \E claim \in 0 .. HOST_CALLS + 1 : HostileDone(a, claim)
Brokerage == BrokerReads \/ \E id \in ProcessIds : BrokerStarts(id) \/ BrokerReports(id)
GuestsNext ==
    \/ \E a \in Attempts : \/ \E offer \in Offers : Request(a, offer[1], offer[2])
                           \/ Checkout(a) \/ Exchange(a)
    \/ StartAnswered \/ \E id \in ProcessIds : Arrived(id) \/ Exits(id)
    \/ Brokerage \/ BrokerDies
GuestsSpec == GuestsInit /\ [][GuestsNext]_guestVars

-----------------------------------------------------------------------------
(* Properties. *)

(* A process serves the requests of one isolation key only, as `isolation`  *)
(* assigns the keys; a submission that carries something, or comes through  *)
(* a capability, shares its process with nobody; and no process serves more *)
(* than RETIRE_AFTER requests, whatever order workers are parked and taken. *)
WorkerIsolated ==
    \A id \in ProcessIds : Cardinality(process[id].seen) <= 1 /\ process[id].runs <= RETIRE_AFTER

(* The slots taken cover every worker that is idle, busy or starting, and   *)
(* never exceed the concurrency: dropped attempts, failed starts, evictions *)
(* and replacements never let the pool run more workers than it may.        *)
Busy == {a \in Attempts : tries[a].worker # NoWorker}
SlotsUsed == Len(pool.idle) + Cardinality(Busy) + pool.asking + Cardinality(arriving)
SlotsCovered == SlotsUsed <= pool.live /\ pool.live <= pool.size /\ pool.starting = pool.asking

(* No wakeup is lost: an attempt that waits without a change to look at has *)
(* no idle worker it could have taken.                                      *)
NoLostWakeup ==
    \A a \in Attempts : tries[a].at = "wait" /\ a \notin woken => Suitable(pool, tries[a].key) = {}

(* The budget is the server's: an attempt never leaves with more calls than *)
(* its grant less the storage calls made for it, a storage error or refusal *)
(* is never hidden behind a forged page, and a worker that kept to the      *)
(* protocol is never taken for one that exceeded its calls.                 *)
BudgetKept ==
    \A a \in Attempts :
       /\ tries[a].stored + tries[a].calls <= HOST_CALLS
       /\ tries[a].at = "done" /\ tries[a].result = "page" => ~tries[a].failure
       /\ ~tries[a].over

(* A process the server has let go of, escaped or not, is killed: while the *)
(* broker lives, the request to kill it is on its way, and will find the    *)
(* process among the broker's children.                                     *)
KillsFind ==
    broker.alive =>
       \A id \in ProcessIds : process[id].alive /\ id \notin HeldIds =>
          id \in broker.children /\ \E i \in DOMAIN pool.sent : pool.sent[i] = <<"KILL", id>>

(* What `live` counts, by its own comment: the workers idle, busy or starting. *)
SlotsExact == pool.live = SlotsUsed

\* "Anything they submit, or reach through a capability, gets a worker of its own":
\* what an anonymous visitor submits finds a worker that has served nobody.
SubmissionsAlone ==
    \A a \in Busy : tries[a].key \in {Anonymous, Single} /\ tries[a].grant # "route" =>
        process[tries[a].worker].runs = 1

\* The pool counts what it uses, and neither a waiting attempt nor a process that
\* was let go of is forgotten.
PoolSound == SlotsCovered /\ BudgetKept /\ NoLostWakeup /\ KillsFind
=============================================================================
