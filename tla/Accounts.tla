------------------------------ MODULE Accounts ------------------------------
(***************************************************************************)
(* Accounts, sessions, invitations and roles, and the gateway that admits  *)
(* the requests using them: the circuit budget, the session preflight, the *)
(* lanes of permits and the password workers that outlive their request.   *)
(*                                                                         *)
(* A call is one HTTP request.  Its reads happen when its transaction      *)
(* begins and its writes when it commits; commits never fail for a         *)
(* conflict, which admits every interleaving SQLite's single writer or     *)
(* PostgreSQL's SERIALIZABLE would let through and some they would abort.  *)
(* Passwords and tokens are names: a sealed token opens only under the key *)
(* incarnation that sealed it.                                             *)
(***************************************************************************)
EXTENDS Naturals, FiniteSets, FiniteSetsExt, Sequences, SequencesExt

CONSTANTS
    Nobody,             \* no account, no cookie, no permit
    Calls,              \* requests in progress at once
    Ids, Logins, Codes, \* account identities, login names, invitation codes
    FirstLogin,         \* the account the operator created first
    Nonces,             \* nonces of session tokens
    Traffic,            \* the requests offered: [kind, peer, name, code, right],
                        \* peer a Tor circuit, or Nobody for a local connection
    REQUESTS, DATABASE, \* permits of the process (64, 8)
    SESSION_SHARE,      \* permits set aside for session checks (4, 1)
    RESERVE,            \* signed_in_reserve, a percentage (at most 50)
    ARGON2,             \* password workers (2)
    ARGON2_PER_MINUTE,
    PER_CIRCUIT,        \* connections one circuit may hold (4)
    TABLE_CAPACITY,     \* circuits remembered (65536)
    CIRCUIT_START, CIRCUIT_CAPACITY, CIRCUIT_REFILL,
    COST,               \* class -> price of a request
    LAST_TICK,          \* the largest value of the table's tick (2^64 - 1)
    SESSION_TTL, INVITE_TTL,
    MAX_ROLES,
    REGISTRATION,       \* "Closed", "Invite" or "Open"
    MaxEvents           \* bound of the explored instance

ASSUME AccountsAssumption ==
    /\ {REQUESTS, DATABASE, ARGON2, TABLE_CAPACITY, CIRCUIT_CAPACITY, SESSION_TTL} \subseteq Nat \ {0}
    /\ {ARGON2_PER_MINUTE, SESSION_SHARE, CIRCUIT_START, CIRCUIT_REFILL, LAST_TICK, INVITE_TTL, MAX_ROLES} \subseteq Nat
    /\ COST \in [{"PasswordHash", "Get", "AuthenticatedAction"} -> Nat]
    /\ RESERVE \in 0 .. 50 /\ REGISTRATION \in {"Closed", "Invite", "Open"}
    /\ LAST_TICK > TABLE_CAPACITY /\ CIRCUIT_START <= CIRCUIT_CAPACITY
    /\ IsFiniteSet(Calls) /\ Ids \cup Nonces \subseteq Nat
    /\ \A offered \in Traffic : offered.code \in Codes \cup {Nobody}
    /\ Nobody \notin Ids \cup Nonces \cup Codes \cup [expires : Nat, by : Ids \cup {Nobody}]

VARIABLES
    accounts,   \* id -> [login, tenant, state, epoch], state "unborn" before it exists
    sessions,   \* nonce -> [principal, epoch, expires] or Nobody
    roles,      \* id -> set of <<role, tenant>>, tenant "" for a global role
    invites,    \* code -> [expires, by] or Nobody
    wall,       \* the observed clock
    keys,       \* [incarnation, serving]
    cookies,    \* session cookies browsers hold
    calls,      \* call -> its progress
    worker,     \* call -> the password worker it spawned, with its permits
    free,       \* permits left of each lane
    attempts,   \* credit of argon2_attempts
    circuits,   \* [entries, tick]: the circuit budgets and their LRU
    events,     \* requests, operator changes and ticks so far
    revoked,    \* nonces of sessions a logout or an account change ended
    recent      \* circuits in the order of their last use

accountsVars == <<accounts, sessions, roles, invites, wall, keys, cookies, calls, worker, free,
                  attempts, circuits, events, revoked, recent>>
stored == <<accounts, sessions, roles, invites>>
gateway == <<worker, free, attempts, circuits, recent>>

Resting == [at |-> "idle", kind |-> Nobody, peer |-> Nobody, cookie |-> Nobody, name |-> Nobody,
            code |-> Nobody, right |-> FALSE, who |-> Nobody, held |-> {}, read |-> Nobody, answer |-> Nobody]

-----------------------------------------------------------------------------
(* Lanes. *)

(* `shares`: anonymous, session-check and verified permits of one resource. *)
Shares(total, session) ==
    IF RESERVE = 0 THEN [anonymous |-> total, session |-> 0, verified |-> 0]
    ELSE LET verified == (total * RESERVE + 50) \div 100 IN
         [anonymous |-> total - session - verified, session |-> session, verified |-> verified]
Lanes == {"anonymous", "session", "verified"}
Resources == {"requests", "database"}
PermitTotal(res) == IF res = "requests" THEN REQUESTS ELSE DATABASE
Share(lane, res) == Shares(PermitTotal(res), SESSION_SHARE)[lane]
Partitioned == Share("verified", "requests") # 0
(* `requests`, `database`, `session_requests`, `session_database`: an empty *)
(* verified database share falls back to the shared lane.                   *)
LaneOf(call, res) ==
    IF call.who # Nobody /\ Partitioned /\ (res = "requests" \/ Share("verified", res) # 0)
    THEN "verified" ELSE "anonymous"
SessionLane == IF Partitioned THEN "session" ELSE "anonymous"
Permits == (Lanes \X Resources) \cup {<<"argon2", "hash">>}
ASSUME PermitsAssumption == \A ps \in SUBSET Permits : ps # Nobody
PermitCapacity(p) == IF p[1] = "argon2" THEN ARGON2 ELSE Share(p[1], p[2])
Acquired(c, ps) == /\ \A p \in ps : free[p] > 0
                   /\ free' = [p \in Permits |-> IF p \in ps THEN free[p] - 1 ELSE free[p]]
Returned(ps) == [p \in Permits |-> IF p \in ps THEN free[p] + 1 ELSE free[p]]

-----------------------------------------------------------------------------
(* The circuit table: `Buckets::charge`. *)

Known(c) == c \in DOMAIN circuits.entries
Evicted(entries) ==
    LET oldest == CHOOSE c \in DOMAIN entries : \A d \in DOMAIN entries : entries[c].tick <= entries[d].tick IN
    [c \in DOMAIN entries \ {oldest} |-> entries[c]]
(* Renumbered before the tick would wrap, keeping every entry's place. *)
\* Slip: the counter restarts without renumbering the entries.
RenumberedReset(table) == IF table.tick = LAST_TICK THEN [table EXCEPT !.tick = 0] ELSE table
Renumbered(table) ==
    IF table.tick # LAST_TICK THEN table
    ELSE [entries |-> [c \in DOMAIN table.entries |->
            [table.entries[c] EXCEPT !.tick =
                Cardinality({d \in DOMAIN table.entries : table.entries[d].tick < table.entries[c].tick})]],
          tick |-> Cardinality(DOMAIN table.entries)]
ChargedTable(c, cost, drain) ==
    LET kept == IF ~Known(c) /\ Cardinality(DOMAIN circuits.entries) = TABLE_CAPACITY
                THEN Evicted(circuits.entries) ELSE circuits.entries
        table == Renumbered([entries |-> kept, tick |-> circuits.tick])
        tokens == IF Known(c) THEN table.entries[c].tokens ELSE CIRCUIT_START
        left == IF tokens >= cost THEN tokens - cost ELSE IF drain THEN 0 ELSE tokens IN
    [entries |-> [d \in DOMAIN table.entries \cup {c} |->
                    IF d = c THEN [tokens |-> left, tick |-> table.tick] ELSE table.entries[d]],
     tick |-> table.tick + 1]
Affords(c, cost) == (IF Known(c) THEN circuits.entries[c].tokens ELSE CIRCUIT_START) >= cost
Remembered(c) ==
    LET uses == {i \in DOMAIN recent : recent[i] = c}
        others == IF uses = {} THEN recent ELSE RemoveAt(recent, CHOOSE i \in uses : TRUE)
        seq == Append(others, c) IN
    IF Len(seq) > TABLE_CAPACITY THEN Tail(seq) ELSE seq
(* `charge_circuit` prices a request; `failed_session` drains a known circuit. *)
ChargeCircuit(c, cost) ==
    IF c = Nobody THEN UNCHANGED <<circuits, recent>>
    ELSE circuits' = ChargedTable(c, cost, FALSE) /\ recent' = Remembered(c)
FailedSession(c) ==
    IF c = Nobody \/ ~Known(c) THEN UNCHANGED <<circuits, recent>>
    ELSE circuits' = ChargedTable(c, COST["PasswordHash"], TRUE) /\ recent' = Remembered(c)

-----------------------------------------------------------------------------
(* Tokens and authentication. *)

(* The key service opens what the same keys sealed, while it answers at all. *)
Opens(cookie) == keys.serving /\ cookie.incarnation = keys.incarnation
Sealed(nonce, id) == [nonce |-> nonce, subject |-> id, issued |-> wall, expires |-> wall + SESSION_TTL,
                      incarnation |-> keys.incarnation]
(* `verify`: the envelope opens under these keys and has not expired. *)
Verified(cookie) ==
    /\ cookie # Nobody /\ Opens(cookie)
    /\ cookie.issued <= wall /\ wall < cookie.expires
(* SESSION_ACCOUNT. *)
\* Slip: the session is not tied to the account's epoch.
SessionAccountLoose(cookie) ==
    LET row == sessions[cookie.nonce] IN
    /\ row # Nobody /\ row.principal = cookie.subject
    /\ accounts[row.principal].state = "active" /\ row.expires > wall
SessionAccount(cookie) ==
    LET row == sessions[cookie.nonce] IN
    /\ row # Nobody /\ row.principal = cookie.subject
    /\ row.epoch = accounts[row.principal].epoch
    /\ accounts[row.principal].state = "active" /\ row.expires > wall
(* `authenticate`. *)
Authenticated(cookie) ==
    /\ Verified(cookie) /\ SessionAccount(cookie)
    /\ Cardinality(roles[cookie.subject]) <= MAX_ROLES

-----------------------------------------------------------------------------
(* The gateway: `dispatch`. *)

Event == events < MaxEvents /\ events' = events + 1

ClassOf(kind) ==
    CASE kind \in {"login", "register"} -> "PasswordHash"
      [] kind \in {"page", "optional"} -> "Get"
      [] OTHER -> "AuthenticatedAction"
Progress(c, next) == calls' = [calls EXCEPT ![c] = next]
Done(answer) == [Resting EXCEPT !.at = "done", !.answer = answer]
(* `CircuitConnection`: the connections of a circuit; one request each here. *)
Connections(peer) == {d \in Calls : calls[d].at \notin {"idle", "done"} /\ calls[d].peer = peer}
Connects(peer) == peer = Nobody \/ Cardinality(Connections(peer)) < PER_CIRCUIT
(* `serve`, `classify`, `dispatch`: the budget is charged before anything else. *)
Arrive(c, offered, cookie) ==
    LET class == ClassOf(offered.kind)
        affords == offered.peer = Nobody \/ Affords(offered.peer, COST[class]) IN
    /\ calls[c].at \in {"idle", "done"} /\ worker[c] = Nobody /\ Connects(offered.peer) /\ Event
    /\ ChargeCircuit(offered.peer, COST[class])
    /\ Progress(c,
          [Resting EXCEPT !.kind = offered.kind, !.peer = offered.peer, !.cookie = cookie,
                          !.name = offered.name, !.code = offered.code, !.right = offered.right,
                          !.answer = IF affords THEN Nobody ELSE "busy",
                          !.at = CASE ~affords -> "done"
                                   [] affords /\ class # "PasswordHash" /\ Verified(cookie) -> "candidate"
                                   [] OTHER -> "waiting"])
    /\ UNCHANGED <<stored, wall, keys, cookies, worker, free, attempts, revoked>>
(* `session_candidate` looks the session up in a lane of its own: scheduling  *)
(* only.  `principal_action` may find the budget of a verified user spent.    *)
CheckCandidate(c) ==
    /\ calls[c].at = "candidate" /\ calls[c].held = {}
    /\ LET ps == {<<SessionLane, "requests">>, <<SessionLane, "database">>} IN
          /\ Acquired(c, ps)
          /\ Progress(c, [calls[c] EXCEPT !.held = ps])
    /\ UNCHANGED <<stored, wall, keys, cookies, worker, attempts, circuits, recent, events, revoked>>
CandidateChecked(c) ==
    /\ calls[c].at = "candidate" /\ calls[c].held # {}
    /\ free' = Returned(calls[c].held)
    /\ IF Authenticated(calls[c].cookie)
       THEN /\ \/ Progress(c, [calls[c] EXCEPT !.at = "waiting", !.held = {}, !.who = calls[c].cookie.subject])
               \/ ClassOf(calls[c].kind) = "AuthenticatedAction" /\ Progress(c, Done("busy"))
            /\ UNCHANGED <<circuits, recent>>
       ELSE /\ Progress(c, [calls[c] EXCEPT !.at = "waiting", !.held = {}])
            /\ FailedSession(calls[c].peer)
    /\ UNCHANGED <<stored, wall, keys, cookies, worker, attempts, events, revoked>>
(* The request permit, then the handler's database permit and transaction. *)
EnterLane(c) ==
    /\ calls[c].at = "waiting"
    /\ LET ps == {<<LaneOf(calls[c], "requests"), "requests">>, <<LaneOf(calls[c], "database"), "database">>} IN
          Acquired(c, ps) /\ Progress(c, [calls[c] EXCEPT !.at = "begun", !.held = ps])
    /\ UNCHANGED <<stored, wall, keys, cookies, worker, attempts, circuits, recent, events, revoked>>
Leave(c, answer) == Progress(c, Done(answer)) /\ free' = Returned(calls[c].held)

-----------------------------------------------------------------------------
(* Handlers. *)

(* `post`, `read_form`, `decode_form`: a form that is not one ends the request. *)
Malformed(c) ==
    /\ calls[c].at = "begun" /\ calls[c].kind \in {"login", "register", "logout"}
    /\ Leave(c, "rejected")
    /\ UNCHANGED <<stored, wall, keys, cookies, worker, attempts, circuits, recent, events, revoked>>
(* `route_identity` and `account_identity`: authority is decided here, not in the preflight. *)
RouteUser(call) == Authenticated(call.cookie)
Anyone(kind) == kind = "optional"
ServePage(c) ==
    LET user == RouteUser(calls[c]) IN
    /\ calls[c].at = "begun" /\ calls[c].kind \in {"page", "optional", "action"}
    /\ Progress(c, [Done(IF user \/ Anyone(calls[c].kind) THEN "served" ELSE "authentication")
                      EXCEPT !.read = IF user THEN calls[c].cookie.nonce ELSE Nobody])
    /\ free' = Returned(calls[c].held)
    /\ UNCHANGED <<stored, wall, keys, cookies, worker, attempts, circuits, recent, events, revoked>>
SignedIn(call) == call.cookie # Nobody /\ Authenticated(call.cookie)
Logout(c) ==
    LET nonce == calls[c].cookie.nonce IN
    /\ calls[c].at = "begun" /\ calls[c].kind = "logout"
    /\ IF SignedIn(calls[c])
       THEN /\ sessions' = [sessions EXCEPT ![nonce] = Nobody]
            /\ revoked' = revoked \cup {nonce}
            /\ Leave(c, "ok")
       ELSE Leave(c, "authentication") /\ UNCHANGED <<sessions, revoked>>
    /\ UNCHANGED <<accounts, roles, invites, wall, keys, cookies, worker, attempts, circuits, recent, events>>
(* The password work: an attempt of the rate, a permit, and a blocking worker *)
(* that keeps the call's permits until it ends.                               *)
UsedNonces == {k.nonce : k \in cookies} \cup revoked \cup {n \in Nonces : sessions[n] # Nobody}
(* Identities and nonces are fresh random names. *)
FreshId == CHOOSE id \in Ids : accounts[id].state = "unborn" /\ \A j \in Ids : accounts[j].state = "unborn" => id <= j
FreshNonce == CHOOSE n \in Nonces : n \notin UsedNonces /\ \A m \in Nonces : m \notin UsedNonces => n <= m
Credentials(name) == {id \in Ids : accounts[id].login = name /\ accounts[id].state = "active"}
RefuseHash(c) ==
    /\ calls[c].at = "begun" /\ calls[c].kind \in {"login", "register"}
    /\ attempts = 0 \/ ~keys.serving \/ (calls[c].kind = "register" /\ REGISTRATION = "Closed")
    /\ Leave(c, "busy")
    /\ UNCHANGED <<stored, wall, keys, cookies, worker, attempts, circuits, recent, events, revoked>>
SpawnHash(c) ==
    LET found == Credentials(calls[c].name) IN
    /\ calls[c].at = "begun" /\ calls[c].kind \in {"login", "register"} /\ keys.serving /\ attempts > 0
    /\ calls[c].kind = "register" => REGISTRATION # "Closed"
    /\ attempts' = attempts - 1
    /\ free[<<"argon2", "hash">>] > 0
    /\ free' = [free EXCEPT ![<<"argon2", "hash">>] = @ - 1]
    /\ worker' = [worker EXCEPT ![c] = calls[c].held \cup {<<"argon2", "hash">>}]
    /\ Progress(c, [calls[c] EXCEPT !.at = "hashing",
                      !.read = IF found = {} THEN Nobody
                               ELSE LET id == CHOOSE i \in found : TRUE IN <<id, accounts[id].epoch>>])
    /\ UNCHANGED <<stored, wall, keys, cookies, circuits, recent, events, revoked>>
(* The worker ends whether or not its call is still there. *)
HashEnds(c) ==
    LET gone == IF calls[c].at = "hashing" THEN {<<"argon2", "hash">>} ELSE worker[c] IN
    /\ worker[c] # Nobody
    /\ worker' = [worker EXCEPT ![c] = Nobody] /\ free' = Returned(gone)
    /\ IF calls[c].at = "hashing" THEN Progress(c, [calls[c] EXCEPT !.at = "hashed"]) ELSE UNCHANGED calls
    /\ UNCHANGED <<stored, wall, keys, cookies, attempts, circuits, recent, events, revoked>>
(* `login`: a session bound to the epoch read before the password was checked. *)
\* Slip: the epoch is read when the session is written.
BoundEpochNow(read) == accounts[read[1]].epoch
BoundEpoch(read) == read[2]
Session(read) == [principal |-> read[1], epoch |-> BoundEpoch(read), expires |-> wall + SESSION_TTL]
(* A commit that may have failed hands out no cookie. *)
LoginEnds(c) ==
    LET read == calls[c].read
        nonce == FreshNonce IN
    /\ calls[c].at = "hashed" /\ calls[c].kind = "login"
    /\ IF calls[c].right /\ read # Nobody
       THEN /\ UsedNonces # Nonces
            /\ sessions' = [sessions EXCEPT ![nonce] = Session(read)]
            /\ revoked' = IF accounts[read[1]].epoch # read[2] THEN revoked \cup {nonce} ELSE revoked
            /\ \/ cookies' = cookies \cup {Sealed(nonce, read[1])} /\ Leave(c, "ok")
               \/ UNCHANGED cookies /\ Leave(c, "unknown")
       ELSE Leave(c, "authentication") /\ UNCHANGED <<sessions, cookies, revoked>>
    /\ UNCHANGED <<accounts, roles, invites, wall, keys, worker, attempts, circuits, recent, events>>
(* `register`: the account and its invitation are one transaction. *)
FreshAccount(name, tenant) == [login |-> name, tenant |-> tenant, state |-> "active", epoch |-> 1]
Taken(name) == \E id \in Ids : accounts[id].login = name
\* Slip: an invitation is redeemed again.
RedeemableTwice(code) == code # Nobody /\ invites[code] # Nobody /\ invites[code].expires > wall
Redeemable(code) ==
    code # Nobody /\ invites[code] # Nobody /\ invites[code].by = Nobody /\ invites[code].expires > wall
Registers(call) == ~Taken(call.name) /\ (REGISTRATION = "Invite" => Redeemable(call.code))
RegisterEnds(c) ==
    LET call == calls[c]
        id == FreshId IN
    /\ call.at = "hashed" /\ call.kind = "register" /\ \E i \in Ids : accounts[i].state = "unborn"
    /\ IF Registers(call)
       THEN /\ accounts' = [accounts EXCEPT ![id] = FreshAccount(call.name, "")]
            /\ invites' = IF REGISTRATION = "Invite" THEN [invites EXCEPT ![call.code].by = id] ELSE invites
            /\ \E answer \in {"ok", "unknown"} : Leave(c, answer)
       ELSE Leave(c, "rejected") /\ UNCHANGED <<accounts, invites>>
    /\ UNCHANGED <<sessions, roles, wall, keys, cookies, worker, attempts, circuits, recent, events, revoked>>
(* The deadline drops the call; a running worker keeps the permits it shares. *)
\* Slip: cancellation gives the worker's permits back.
ReleasedAtDeadlineAll(c) == calls[c].held
ReleasedAtDeadline(c) == IF worker[c] # Nobody THEN {} ELSE calls[c].held
Deadline(c) ==
    /\ calls[c].at \notin {"idle", "done"}
    /\ Progress(c, Done("busy")) /\ free' = Returned(ReleasedAtDeadline(c))
    /\ UNCHANGED <<stored, wall, keys, cookies, worker, attempts, circuits, recent, events, revoked>>

-----------------------------------------------------------------------------
(* Operators. *)

CreateAccount(name) ==
    /\ Event /\ ~Taken(name) /\ \E i \in Ids : accounts[i].state = "unborn"
    /\ accounts' = [accounts EXCEPT ![FreshId] = FreshAccount(name, "team")]
    /\ UNCHANGED <<sessions, roles, invites, wall, keys, cookies, calls, gateway, revoked>>
MintInvite(code) ==
    /\ Event /\ invites[code] = Nobody
    /\ invites' = [invites EXCEPT ![code] = [expires |-> wall + INVITE_TTL, by |-> Nobody]]
    /\ UNCHANGED <<accounts, sessions, roles, wall, keys, cookies, calls, gateway, revoked>>
(* `account_state`: the epoch moves, the sessions go; deletion erases the rest. *)
AccountState(id, state) ==
    /\ Event /\ accounts[id].state \notin {"unborn", "deleted"}
    /\ accounts' = [accounts EXCEPT ![id].state = state, ![id].epoch = @ + 1,
                                    ![id].login = IF state = "deleted" THEN Nobody ELSE @,
                                    ![id].tenant = IF state = "deleted" THEN "" ELSE @]
    /\ sessions' = [n \in Nonces |-> IF sessions[n] # Nobody /\ sessions[n].principal = id
                                     THEN Nobody ELSE sessions[n]]
    /\ roles' = IF state = "deleted" THEN [roles EXCEPT ![id] = {}] ELSE roles
    /\ revoked' = revoked \cup {k.nonce : k \in {j \in cookies : j.subject = id}}
    /\ UNCHANGED <<invites, wall, keys, cookies, calls, gateway>>
\* Slip: the limit is not checked.
GrantableUnbounded(id, role) == role \notin roles[id]
Grantable(id, role) == role \notin roles[id] /\ Cardinality(roles[id]) < MAX_ROLES
GrantRole(id, role) ==
    /\ Event /\ accounts[id].state \notin {"unborn", "deleted"}
    /\ role[2] = "" \/ role[2] = accounts[id].tenant
    /\ Grantable(id, role)
    /\ roles' = [roles EXCEPT ![id] = @ \cup {role}]
    /\ UNCHANGED <<accounts, sessions, invites, wall, keys, cookies, calls, gateway, revoked>>
RevokeRole(id, role) ==
    /\ Event /\ accounts[id].state \notin {"unborn", "deleted"} /\ role \in roles[id]
    /\ roles' = [roles EXCEPT ![id] = @ \ {role}]
    /\ UNCHANGED <<accounts, sessions, invites, wall, keys, cookies, calls, gateway, revoked>>
(* The key service stops answering and is given up for good: `KeyClient::call`. *)
KeysLost ==
    /\ Event /\ keys.serving /\ keys' = [keys EXCEPT !.serving = FALSE]
    /\ UNCHANGED <<stored, wall, cookies, calls, gateway, revoked>>
(* The host starts again, after `generate` with new keys: nothing sealed before opens. *)
Restart(fresh) ==
    /\ Event
    /\ keys' = [incarnation |-> IF fresh THEN keys.incarnation + 1 ELSE keys.incarnation, serving |-> TRUE]
    /\ calls' = [c \in Calls |-> Resting] /\ worker' = [c \in Calls |-> Nobody]
    /\ free' = [p \in Permits |-> PermitCapacity(p)] /\ attempts' = ARGON2_PER_MINUTE
    /\ circuits' = [entries |-> << >>, tick |-> 0] /\ recent' = << >>
    /\ UNCHANGED <<stored, wall, cookies, revoked>>
Pass ==
    /\ Event /\ wall' = wall + 1
    /\ attempts' = ARGON2_PER_MINUTE
    /\ circuits' = [circuits EXCEPT !.entries =
                      [c \in DOMAIN circuits.entries |->
                         [circuits.entries[c] EXCEPT !.tokens = Min({@ + CIRCUIT_REFILL, CIRCUIT_CAPACITY})]]]
    /\ UNCHANGED <<stored, keys, cookies, calls, worker, free, revoked, recent>>

AccountsInit ==
    /\ accounts = [i \in Ids |-> IF i = 1 THEN FreshAccount(FirstLogin, "team")
                                 ELSE [login |-> Nobody, tenant |-> "", state |-> "unborn", epoch |-> 0]]
    /\ sessions = [n \in Nonces |-> Nobody]
    /\ roles = [i \in Ids |-> {}]
    /\ invites = [c \in Codes |-> Nobody]
    /\ wall = 0
    /\ keys = [incarnation |-> 1, serving |-> TRUE]
    /\ cookies = {}
    /\ calls = [c \in Calls |-> Resting]
    /\ worker = [c \in Calls |-> Nobody]
    /\ free = [p \in Permits |-> PermitCapacity(p)]
    /\ attempts = ARGON2_PER_MINUTE
    /\ circuits = [entries |-> << >>, tick |-> 0]
    /\ events = 0
    /\ revoked = {}
    /\ recent = << >>
Roles == {<<"editor", "">>, <<"editor", "team">>}
CallStep(c) ==
    \/ CheckCandidate(c) \/ CandidateChecked(c) \/ EnterLane(c) \/ Malformed(c) \/ ServePage(c) \/ Logout(c)
    \/ RefuseHash(c) \/ SpawnHash(c) \/ HashEnds(c)
    \/ LoginEnds(c) \/ RegisterEnds(c) \/ Deadline(c)
Arrivals(c) ==
    \E offered \in Traffic, cookie \in cookies \cup {Nobody} :
       /\ offered.kind \in {"login", "register"} => cookie = Nobody
       /\ Arrive(c, offered, cookie)
AccountsNext ==
    \/ \E c \in Calls : Arrivals(c) \/ CallStep(c)
    \/ \E name \in Logins : CreateAccount(name)
    \/ \E id \in Ids : \/ \E state \in {"active", "disabled", "deleted"} : AccountState(id, state)
                       \/ \E role \in Roles : GrantRole(id, role) \/ RevokeRole(id, role)
    \/ \E code \in Codes : MintInvite(code)
    \/ KeysLost \/ Pass
    \/ \E fresh \in BOOLEAN : Restart(fresh)
AccountsSpec == AccountsInit /\ [][AccountsNext]_accountsVars

-----------------------------------------------------------------------------
(* Properties. *)

(* No request is ever served as a user by a session that a logout, or any   *)
(* change of the account's state since its password was read, has ended:    *)
(* not by one whose login was still hashing when the account was disabled   *)
(* and enabled again, nor by one the preflight found valid a moment before. *)
RevokedNeverServed ==
    [][\A c \in Calls : calls[c].at = "begun" /\ calls'[c].at = "done" /\ calls'[c].answer = "served" =>
          calls'[c].read \notin revoked]_accountsVars

(* The permits of a lane cover the work that really runs: a password worker *)
(* whose request has timed out still counts against the hashing, request    *)
(* and database permits it was given, so none of them is lent twice.        *)
WorkCovered ==
    \A p \in Permits :
       free[p] + Cardinality({c \in Calls : p \in calls[c].held \/ (worker[c] # Nobody /\ p \in worker[c])})
          = PermitCapacity(p)

(* Every account that registered by invitation redeemed one of its own, and *)
(* an account that is gone keeps no name and no role.                       *)
RegistrationsInvited ==
    /\ REGISTRATION = "Invite" =>
          \A id \in Ids : accounts[id].state # "unborn" /\ accounts[id].tenant = "" =>
             \/ accounts[id].state = "deleted"
             \/ \E code \in Codes : invites[code] # Nobody /\ invites[code].by = id
    /\ \A id \in Ids : accounts[id].state = "deleted" =>
          roles[id] = {} /\ accounts[id].login = Nobody
    /\ \A id \in Ids : Cardinality(roles[id]) <= MAX_ROLES

(* The circuit table stays within its capacity, never grants more than a    *)
(* bucket holds, and forgets the circuit used longest ago: the ticks order  *)
(* the entries as they were used, across the renumbering at the last tick.  *)
CircuitsInOrder ==
    /\ DOMAIN circuits.entries = Range(recent)
    /\ \A c \in DOMAIN circuits.entries : circuits.entries[c].tokens <= CIRCUIT_CAPACITY
    /\ \A i, j \in DOMAIN recent : i < j =>
          circuits.entries[recent[i]].tick < circuits.entries[recent[j]].tick

(* An account that is disabled or gone may still get a session, from a      *)
(* login that was hashing meanwhile; it is bound to an epoch that the       *)
(* account has left, so that enabling the account again cannot revive it.   *)
Barred(id) == accounts[id].state \in {"disabled", "deleted"}
BarredSessionsLeft ==
    \A n \in Nonces : sessions[n] # Nobody /\ Barred(sessions[n].principal) =>
        sessions[n].epoch < accounts[sessions[n].principal].epoch

\* The lanes, the invitations, the sessions and the circuit table count what
\* really happened.
LimitsKept == WorkCovered /\ RegistrationsInvited /\ BarredSessionsLeft /\ CircuitsInOrder
=============================================================================
