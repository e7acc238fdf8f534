----------------------------- MODULE StoreProofs -----------------------------
(***************************************************************************)
(* Theorems about Store: provider sessions stay within the permits of      *)
(* their requests until they are known to have stopped, the statements set *)
(* aside for stopping them suffice, a successful shutdown left nothing     *)
(* running, and what a client is told of its COMMIT is true for good.      *)
(*                                                                         *)
(* The invariant follows one request through four questions: what its      *)
(* session is covered by (Covered), what is left of its protected          *)
(* statements (Funded), where its COMMIT stands (Committing), and what the *)
(* registry knows of it (Listed).                                          *)
(***************************************************************************)
EXTENDS Store, TLAPS

-----------------------------------------------------------------------------
(* The inductive invariant *)

Pcs == {"none", "dialing", "identify", "unnamed", "setup", "open", "stop", "cancel", "close"}
Leases == [pc : Pcs, started : BOOLEAN, control : BOOLEAN, setup : BOOLEAN,
           inFlight : BOOLEAN, active : BOOLEAN,
           commit : {"not_attempted", "sent", "acknowledged", "refused"}]
Meters == [free : Nat, reserved : Nat, spent : Nat]

\* The shape of every variable.
Shaped ==
    /\ hour \in [Requests -> {"work", "reserve", "over"}]
    /\ front \in [Requests -> {"arriving", "running", "awaiting", "ended"}]
    /\ answer \in [Requests -> {"none", "ok", "busy", "unknown", "rejected"}]
    /\ permit \in [Requests -> {"none", "held", "returned", "retained"}]
    /\ quarantine \in [Requests -> BOOLEAN]
    /\ pending \in [Requests -> BOOLEAN]
    /\ gate \in [Requests -> {"free", "held", "forgotten"}]
    /\ meter \in [Requests -> Meters]
    /\ cleanup \in [Requests -> Nat]
    /\ lease \in [Requests -> Leases]
    /\ registry \in [closed : BOOLEAN, active : SUBSET Requests, quarantined : BOOLEAN]
    /\ shutdown \in {"none", "stopped", "unconfirmed"}
    /\ session \in [Requests -> {"none", "live"}]
    /\ applied \in [Requests -> BOOLEAN]
    /\ spent \in [Requests -> [transactions : Nat, statements : Nat]]

\* The three parts of a meter add up, and its reserve holds what is left for
\* stopping the session.
Metered(r) ==
    /\ meter[r].free + meter[r].reserved + meter[r].spent = StatementLimit
    /\ cleanup[r] <= meter[r].reserved

\* What a session still needs to be stopped, by how far its lease has come.
Funded(r) ==
    /\ lease[r].pc \in {"dialing", "identify"} => cleanup[r] >= 6 + 2 * Checks
    /\ lease[r].pc \in {"dialing", "identify", "unnamed"} => ~lease[r].control
    /\ lease[r].pc \in {"setup", "open"} => lease[r].control
    /\ lease[r].pc \in {"setup", "open", "stop"} /\ lease[r].control =>
           cleanup[r] >= 5 + 2 * Checks
    /\ lease[r].pc = "cancel" => cleanup[r] >= 3 + 2 * Checks
    /\ lease[r].pc = "close" => cleanup[r] >= 2 * Checks

\* A session that may live holds its gate, or has left it shut for good; both
\* keep the request's permits.
Covered(r) ==
    /\ (gate[r] = "held") <=> (lease[r].pc # "none")
    /\ lease[r].pc # "none" => permit[r] = "held"
    /\ gate[r] = "forgotten" => quarantine[r] /\ permit[r] \in {"held", "retained"}
    /\ front[r] = "arriving" => permit[r] = "none" /\ lease[r].pc = "none"
    /\ front[r] \in {"running", "awaiting"} => permit[r] = "held"
    /\ session[r] = "live" => gate[r] # "free"
    /\ lease[r].pc \in {"none", "dialing"} => ~lease[r].started
    /\ lease[r].pc \in {"identify", "unnamed", "setup", "open", "cancel", "close"} =>
           lease[r].started
    /\ lease[r].control => lease[r].started
    /\ session[r] = "live" /\ lease[r].pc # "none" => lease[r].started

\* Where the COMMIT stands, and what has been told of it.
Committing(r) ==
    /\ lease[r].pc \in {"dialing", "identify", "unnamed", "setup"} =>
           lease[r].commit = "not_attempted"
    /\ front[r] = "arriving" => lease[r].commit = "not_attempted"
    /\ lease[r].commit = "sent" =>
           pending[r] /\ (front[r] = "ended" \/ (lease[r].pc = "open" /\ lease[r].inFlight))
    /\ lease[r].commit = "acknowledged" => front[r] = "ended"
    /\ applied[r] => lease[r].commit \in {"sent", "acknowledged"}
    /\ answer[r] # "none" => front[r] = "ended"
    /\ answer[r] = "ok" => applied[r]
    /\ answer[r] \in {"busy", "rejected"} => lease[r].commit \in {"not_attempted", "refused"}
    /\ lease[r].pc = "open" => front[r] = "running"

\* The registry lists every lease, and remembers that one was not confirmed.
Listed(r) ==
    /\ (r \in registry.active) <=> (lease[r].pc # "none")
    /\ gate[r] = "forgotten" => registry.quarantined

\* A shutdown waits for a closed registry, and success for an empty one.
ShutSoundly ==
    /\ shutdown # "none" => registry.closed
    /\ shutdown = "stopped" => registry.active = {} /\ ~registry.quarantined

StoreInv ==
    /\ Shaped
    /\ \A r \in Requests : Metered(r) /\ Funded(r) /\ Covered(r) /\ Committing(r) /\ Listed(r)
    /\ ShutSoundly

-----------------------------------------------------------------------------
(* How a step touches the requests *)

\* What is asked of one request.
Kept(r) == Metered(r) /\ Funded(r) /\ Covered(r) /\ Committing(r) /\ Listed(r)

\* The step leaves every other request and its place in the registry alone.
Elsewhere(r) ==
    /\ \A p \in Requests \ {r} :
        /\ front'[p] = front[p] /\ answer'[p] = answer[p] /\ permit'[p] = permit[p]
        /\ quarantine'[p] = quarantine[p] /\ pending'[p] = pending[p] /\ gate'[p] = gate[p]
        /\ meter'[p] = meter[p] /\ cleanup'[p] = cleanup[p] /\ lease'[p] = lease[p]
        /\ session'[p] = session[p] /\ applied'[p] = applied[p]
        /\ (p \in registry'.active) <=> (p \in registry.active)
    /\ registry.quarantined => registry'.quarantined

\* The values one request has.
LEMMA Values ==
    ASSUME Shaped, NEW r \in Requests
    PROVE  /\ hour[r] \in {"work", "reserve", "over"}
           /\ front[r] \in {"arriving", "running", "awaiting", "ended"}
           /\ answer[r] \in {"none", "ok", "busy", "unknown", "rejected"}
           /\ permit[r] \in {"none", "held", "returned", "retained"}
           /\ gate[r] \in {"free", "held", "forgotten"}
           /\ session[r] \in {"none", "live"}
           /\ quarantine[r] \in BOOLEAN /\ pending[r] \in BOOLEAN /\ applied[r] \in BOOLEAN
           /\ meter[r] \in Meters /\ cleanup[r] \in Nat /\ lease[r] \in Leases
           /\ spent[r] \in [transactions : Nat, statements : Nat]
BY DEF Shaped

\* Units move between the parts of a meter and none is lost.  Meter::charge:
LEMMA ChargedMeter ==
    ASSUME NEW m \in Meters, NEW n \in Nat, n <= m.free
    PROVE  /\ Charged(m, n) \in Meters /\ Charged(m, n).reserved = m.reserved
           /\ Charged(m, n).free = m.free - n /\ Charged(m, n).spent = m.spent + n
<1>1. m.free \in Nat /\ m.reserved \in Nat /\ m.spent \in Nat
  BY DEF Meters
<1> DEFINE x == m.free - n
           y == m.spent + n
<1>2. x \in Nat /\ y \in Nat
  BY <1>1
<1>3. Charged(m, n) = [m EXCEPT !.free = x, !.spent = y]
  BY DEF Charged
<1> HIDE DEF x, y
<1>4. /\ Charged(m, n) \in Meters /\ Charged(m, n).free = x /\ Charged(m, n).spent = y
      /\ Charged(m, n).reserved = m.reserved
  BY <1>2, <1>3 DEF Meters
<1> QED
  BY <1>4 DEF x, y

\* Meter::reserve:
LEMMA ReservedMeter ==
    ASSUME NEW m \in Meters, NEW n \in Nat, n <= m.free
    PROVE  /\ Reserved(m, n) \in Meters /\ Reserved(m, n).spent = m.spent
           /\ Reserved(m, n).free = m.free - n /\ Reserved(m, n).reserved = m.reserved + n
<1>1. m.free \in Nat /\ m.reserved \in Nat /\ m.spent \in Nat
  BY DEF Meters
<1> DEFINE x == m.free - n
           y == m.reserved + n
<1>2. x \in Nat /\ y \in Nat
  BY <1>1
<1>3. Reserved(m, n) = [m EXCEPT !.free = x, !.reserved = y]
  BY DEF Reserved
<1> HIDE DEF x, y
<1>4. /\ Reserved(m, n) \in Meters /\ Reserved(m, n).free = x /\ Reserved(m, n).reserved = y
      /\ Reserved(m, n).spent = m.spent
  BY <1>2, <1>3 DEF Meters
<1> QED
  BY <1>4 DEF x, y

\* Cleanup::charge:
LEMMA CleanupChargedMeter ==
    ASSUME NEW m \in Meters, NEW n \in Nat, n <= m.reserved
    PROVE  /\ CleanupCharged(m, n) \in Meters /\ CleanupCharged(m, n).free = m.free
           /\ CleanupCharged(m, n).reserved = m.reserved - n
           /\ CleanupCharged(m, n).spent = m.spent + n
<1>1. m.free \in Nat /\ m.reserved \in Nat /\ m.spent \in Nat
  BY DEF Meters
<1> DEFINE x == m.reserved - n
           y == m.spent + n
<1>2. x \in Nat /\ y \in Nat
  BY <1>1
<1>3. CleanupCharged(m, n) = [m EXCEPT !.reserved = x, !.spent = y]
  BY DEF CleanupCharged
<1> HIDE DEF x, y
<1>4. /\ CleanupCharged(m, n) \in Meters /\ CleanupCharged(m, n).reserved = x /\ CleanupCharged(m, n).spent = y
      /\ CleanupCharged(m, n).free = m.free
  BY <1>2, <1>3 DEF Meters
<1> QED
  BY <1>4 DEF x, y

\* Cleanup::confirmed:
LEMMA RefundedMeter ==
    ASSUME NEW m \in Meters, NEW n \in Nat, n <= m.reserved
    PROVE  /\ Refunded(m, n) \in Meters /\ Refunded(m, n).spent = m.spent
           /\ Refunded(m, n).free = m.free + n /\ Refunded(m, n).reserved = m.reserved - n
<1>1. m.free \in Nat /\ m.reserved \in Nat /\ m.spent \in Nat
  BY DEF Meters
<1> DEFINE x == m.free + n
           y == m.reserved - n
<1>2. x \in Nat /\ y \in Nat
  BY <1>1
<1>3. Refunded(m, n) = [m EXCEPT !.free = x, !.reserved = y]
  BY DEF Refunded
<1> HIDE DEF x, y
<1>4. /\ Refunded(m, n) \in Meters /\ Refunded(m, n).free = x /\ Refunded(m, n).reserved = y
      /\ Refunded(m, n).spent = m.spent
  BY <1>2, <1>3 DEF Meters
<1> QED
  BY <1>4 DEF x, y

\* A step of one request keeps the invariant if it keeps that request's part.
LEMMA OneRequest ==
    ASSUME StoreInv, NEW r \in Requests, Shaped', Elsewhere(r), Kept(r)', ShutSoundly'
    PROVE  StoreInv'
<1>1. ASSUME NEW p \in Requests PROVE Kept(p)'
  <2>1. CASE p = r
    BY <2>1
  <2>2. CASE p # r
    <3>1. Kept(p)
      BY DEF StoreInv, Kept
    <3>2. Metered(p)' /\ Funded(p)'
      BY <2>2, <3>1 DEF Kept, Elsewhere, Metered, Funded
    <3>3. Covered(p)'
      BY <2>2, <3>1 DEF Kept, Elsewhere, Covered
    <3>4. Committing(p)'
      BY <2>2, <3>1 DEF Kept, Elsewhere, Committing
    <3>5. Listed(p)'
      BY <2>2, <3>1 DEF Kept, Elsewhere, Listed
    <3> QED
      BY <3>2, <3>3, <3>4, <3>5 DEF Kept
  <2> QED
    BY <2>1, <2>2
<1> QED
  BY <1>1 DEF StoreInv, Kept

\* Initially no request has been admitted.
LEMMA InitInv == StoreInit => StoreInv
<1> SUFFICES ASSUME StoreInit PROVE StoreInv
  OBVIOUS
<1>1. Unleased \in Leases
  BY DEF Unleased, Leases, Pcs
<1>2. [free |-> StatementLimit, reserved |-> 0, spent |-> 0] \in Meters
  BY StoreAssumption DEF Meters
<1>3. Shaped
  BY <1>1, <1>2 DEF StoreInit, Shaped
<1>4. ASSUME NEW r \in Requests PROVE Kept(r)
  <2>1. Metered(r)
    BY StoreAssumption DEF StoreInit, Metered
  <2>2. Funded(r) /\ Covered(r) /\ Committing(r) /\ Listed(r)
    BY DEF StoreInit, Unleased, Funded, Covered, Committing, Listed
  <2> QED
    BY <2>1, <2>2 DEF Kept
<1>5. ShutSoundly
  BY DEF StoreInit, ShutSoundly
<1> QED
  BY <1>3, <1>4, <1>5 DEF StoreInv, Kept

-----------------------------------------------------------------------------
(* Admission and opening *)

\* A permit is taken before anything else is owned.
LEMMA AdmitStep ==
    ASSUME StoreInv, NEW r \in Requests, Admit(r)
    PROVE  StoreInv'
<1>1. Shaped /\ Kept(r) /\ ShutSoundly
  BY DEF StoreInv, Kept
<1>2. Shaped' /\ Elsewhere(r) /\ ShutSoundly'
  BY <1>1 DEF Admit, Shaped, Elsewhere, ShutSoundly
<1>3. front'[r] = "running" /\ permit'[r] = "held"
  BY <1>1 DEF Admit, Shaped
<1>4. Kept(r)'
  BY <1>1, <1>3 DEF Kept, Metered, Funded, Covered, Committing, Listed, Admit
<1> QED
  BY <1>2, <1>4, OneRequest

\* A request that never was admitted is told so.
LEMMA AdmitTimeoutStep ==
    ASSUME StoreInv, NEW r \in Requests, AdmitTimeout(r)
    PROVE  StoreInv'
<1>1. Shaped /\ Kept(r) /\ ShutSoundly
  BY DEF StoreInv, Kept
<1>2. Shaped' /\ Elsewhere(r) /\ ShutSoundly'
  BY <1>1 DEF AdmitTimeout, Answered, Shaped, Elsewhere, ShutSoundly
<1>3. front'[r] = "ended" /\ answer'[r] = "busy"
  BY <1>1 DEF AdmitTimeout, Answered, Shaped
<1>4. Kept(r)'
  BY <1>1, <1>3 DEF Kept, Metered, Funded, Covered, Committing, Listed, AdmitTimeout
<1> QED
  BY <1>2, <1>4, OneRequest

\* The gate, the reserve and the registry's entry come with the lease.
LEMMA BeginStep ==
    ASSUME StoreInv, NEW r \in Requests, Begin(r)
    PROVE  StoreInv'
<1>1. Shaped /\ Kept(r) /\ ShutSoundly
  BY DEF StoreInv, Kept
<1> DEFINE l == [Unleased EXCEPT !.pc = "dialing"]
           m == Reserved(meter[r], POSTGRES_CLEANUP)
<1>2. /\ l \in Leases /\ l.pc = "dialing" /\ ~l.started /\ ~l.control
      /\ l.commit = "not_attempted"
  BY DEF Unleased, Leases, Pcs
<1>3. /\ m \in Meters /\ m.free = meter[r].free - POSTGRES_CLEANUP
      /\ m.reserved = meter[r].reserved + POSTGRES_CLEANUP /\ m.spent = meter[r].spent
  <2>1. POSTGRES_CLEANUP \in Nat /\ POSTGRES_CLEANUP <= meter[r].free
    BY <1>1, Values, StoreAssumption DEF Begin, Affordable, Meters
  <2>2. meter[r] \in Meters
    BY <1>1, Values
  <2> QED
    BY <2>1, <2>2, ReservedMeter
<1>4. /\ front' = [front EXCEPT ![r] = "awaiting"] /\ gate' = [gate EXCEPT ![r] = "held"]
      /\ meter' = [meter EXCEPT ![r] = m]
      /\ cleanup' = [cleanup EXCEPT ![r] = POSTGRES_CLEANUP]
      /\ lease' = [lease EXCEPT ![r] = l]
      /\ registry' = [registry EXCEPT !.active = @ \cup {r}]
      /\ UNCHANGED <<hour, answer, permit, quarantine, pending, shutdown, session, applied>>
  BY DEF Begin
<1>5. spent' \in [Requests -> [transactions : Nat, statements : Nat]]
  BY <1>1, Values DEF Begin, Shaped
<1> HIDE DEF l, m
<1>6. POSTGRES_CLEANUP \in Nat
  BY StoreAssumption
<1>7. Shaped'
  BY <1>1, <1>2, <1>3, <1>4, <1>5, <1>6 DEF Shaped
<1>8. Elsewhere(r)
  BY <1>1, <1>4 DEF Shaped, Elsewhere
<1>9. ShutSoundly'
  BY <1>1, <1>4 DEF Shaped, ShutSoundly, Begin
<1>10. /\ front'[r] = "awaiting" /\ gate'[r] = "held" /\ meter'[r] = m /\ lease'[r] = l
       /\ cleanup'[r] = POSTGRES_CLEANUP /\ r \in registry'.active
       /\ registry'.quarantined = registry.quarantined
  BY <1>1, <1>4 DEF Shaped
<1>11. Metered(r)'
  BY <1>1, <1>3, <1>6, <1>10, Values DEF Kept, Metered, Meters
<1>12. Funded(r)'
  BY <1>2, <1>10, StoreAssumption DEF Funded
<1>13. Covered(r)'
  BY <1>1, <1>2, <1>4, <1>10 DEF Kept, Covered, Begin, MayBegin
<1>14. Committing(r)'
  BY <1>1, <1>2, <1>4, <1>10 DEF Kept, Committing, Begin, MayBegin
<1>15. Listed(r)'
  BY <1>2, <1>10 DEF Listed
<1> QED
  BY <1>7, <1>8, <1>9, <1>11, <1>12, <1>13, <1>14, <1>15, OneRequest DEF Kept

\* A transaction refused before it has a provider: at most units are lost.
LEMMA BeginRefusedStep ==
    ASSUME StoreInv, NEW r \in Requests, BeginRefused(r)
    PROVE  StoreInv'
<1>1. Shaped /\ Kept(r) /\ ShutSoundly
  BY DEF StoreInv, Kept
<1>2. /\ front' = [front EXCEPT ![r] = "ended"] /\ answer' = [answer EXCEPT ![r] = "busy"]
      /\ UNCHANGED <<hour, permit, quarantine, pending, gate, cleanup, lease, registry,
                     shutdown, session, applied, spent>>
      /\ lease[r].pc = "none" /\ front[r] = "running"
  BY DEF BeginRefused, MayBegin, Refuse, Answered
<1>3. PICK m \in Meters :
          /\ meter' = [meter EXCEPT ![r] = m] /\ m.reserved >= meter[r].reserved
          /\ m.free + m.reserved + m.spent = meter[r].free + meter[r].reserved + meter[r].spent
  <2>1. CASE UNCHANGED meter
    BY <1>1, <2>1, Values DEF Shaped, Meters
  <2>2. CASE ~UNCHANGED meter
    <3>1. /\ meter' = [meter EXCEPT ![r] = Reserved(meter[r], POSTGRES_CLEANUP)]
          /\ meter[r].free >= POSTGRES_CLEANUP
      BY <2>2 DEF BeginRefused, Affordable
    <3>2. meter[r] \in Meters /\ POSTGRES_CLEANUP \in Nat
      BY <1>1, Values, StoreAssumption
    <3>3. meter[r].free \in Nat /\ meter[r].reserved \in Nat /\ meter[r].spent \in Nat
      BY <3>2 DEF Meters
    <3> DEFINE m == Reserved(meter[r], POSTGRES_CLEANUP)
    <3>4. /\ m \in Meters /\ m.free = meter[r].free - POSTGRES_CLEANUP
          /\ m.reserved = meter[r].reserved + POSTGRES_CLEANUP /\ m.spent = meter[r].spent
      BY <3>1, <3>2, <3>3, ReservedMeter
    <3>5. meter' = [meter EXCEPT ![r] = m]
      BY <3>1
    <3> HIDE DEF m
    <3>6. /\ m.reserved >= meter[r].reserved
          /\ m.free + m.reserved + m.spent
               = meter[r].free + meter[r].reserved + meter[r].spent
      BY <3>2, <3>3, <3>4
    <3> QED
      BY <3>4, <3>5, <3>6
  <2> QED
    BY <2>1, <2>2
<1>4. Shaped'
  BY <1>1, <1>2, <1>3 DEF Shaped
<1>5. Elsewhere(r) /\ ShutSoundly'
  BY <1>1, <1>2, <1>3 DEF Shaped, Elsewhere, ShutSoundly
<1>6. front'[r] = "ended" /\ answer'[r] = "busy" /\ meter'[r] = m
  BY <1>1, <1>2, <1>3 DEF Shaped
<1>7. meter[r] \in Meters /\ cleanup[r] \in Nat
  BY <1>1, Values
<1>8. Metered(r)'
  BY <1>1, <1>2, <1>3, <1>6, <1>7 DEF Kept, Metered, Meters
<1>9. Funded(r)' /\ Listed(r)'
  BY <1>1, <1>2 DEF Kept, Funded, Listed
<1>10. Covered(r)'
  BY <1>1, <1>2, <1>6 DEF Kept, Covered
<1>11. Committing(r)'
  BY <1>1, <1>2, <1>6, Values DEF Kept, Committing, Leases
<1> QED
  BY <1>4, <1>5, <1>8, <1>9, <1>10, <1>11, OneRequest DEF Kept

\* The lease is marked started before the provider can have a session for it.
LEMMA DialStep ==
    ASSUME StoreInv, NEW r \in Requests, Dial(r)
    PROVE  StoreInv'
<1>1. Shaped /\ Kept(r) /\ ShutSoundly
  BY DEF StoreInv, Kept
<1>2. lease[r] \in Leases /\ lease[r].pc = "dialing"
  BY <1>1, Values DEF Dial
<1>3. PICK l \in Leases, s \in {"none", "live"} :
          /\ lease' = [lease EXCEPT ![r] = l] /\ session' = [session EXCEPT ![r] = s]
          /\ l.started /\ l.control = lease[r].control /\ l.commit = lease[r].commit
          /\ l.pc \in {"identify", "unnamed"}
  <2>1. PICK reached \in BOOLEAN, ok \in BOOLEAN :
            /\ session' = [session EXCEPT ![r] = IF reached THEN "live" ELSE @]
            /\ lease' = [lease EXCEPT ![r].started = TRUE,
                                      ![r].setup = TRUE,
                                      ![r].pc = IF ok THEN "identify" ELSE "unnamed"]
    BY DEF Dial
  <2> DEFINE pc == IF ok THEN "identify" ELSE "unnamed"
             l == [lease[r] EXCEPT !.started = TRUE, !.setup = TRUE, !.pc = pc]
             s == IF reached THEN "live" ELSE session[r]
  <2>2. lease' = [lease EXCEPT ![r] = l]
    BY <1>1, <2>1 DEF Shaped
  <2>3. session' = [session EXCEPT ![r] = s] /\ s \in {"none", "live"}
    BY <1>1, <2>1, Values
  <2>4. /\ l \in Leases /\ l.started /\ l.control = lease[r].control
        /\ l.commit = lease[r].commit /\ l.pc \in {"identify", "unnamed"}
    BY <1>2 DEF Leases, Pcs
  <2> HIDE DEF pc, l, s
  <2> QED
    BY <2>2, <2>3, <2>4
<1>4. UNCHANGED <<hour, front, answer, permit, quarantine, pending, gate, meter, cleanup,
                  registry, shutdown, applied, spent>>
  BY DEF Dial
<1>5. Shaped'
  BY <1>1, <1>3, <1>4 DEF Shaped
<1>6. Elsewhere(r) /\ ShutSoundly'
  BY <1>1, <1>3, <1>4 DEF Shaped, Elsewhere, ShutSoundly
<1>7. lease'[r] = l /\ session'[r] = s
  BY <1>1, <1>3 DEF Shaped
<1>8. Metered(r)' /\ Listed(r)'
  BY <1>1, <1>2, <1>3, <1>4, <1>7 DEF Kept, Metered, Listed
<1>9. Funded(r)'
  BY <1>1, <1>2, <1>3, <1>4, <1>7 DEF Kept, Funded
<1>10. Covered(r)'
  BY <1>1, <1>2, <1>3, <1>4, <1>7 DEF Kept, Covered
<1>11. Committing(r)'
  BY <1>1, <1>2, <1>3, <1>4, <1>7 DEF Kept, Committing
<1> QED
  BY <1>5, <1>6, <1>8, <1>9, <1>10, <1>11, OneRequest DEF Kept

\* The identity costs one protected statement, named or not.
LEMMA IdentifyStep ==
    ASSUME StoreInv, NEW r \in Requests, Identify(r)
    PROVE  StoreInv'
<1>1. Shaped /\ Kept(r) /\ ShutSoundly
  BY DEF StoreInv, Kept
<1>2. /\ lease[r] \in Leases /\ meter[r] \in Meters /\ cleanup[r] \in Nat
      /\ lease[r].pc = "identify" /\ cleanup[r] >= 1
  BY <1>1, Values DEF Identify
<1>3. PICK l \in Leases :
          /\ lease' = [lease EXCEPT ![r] = l] /\ l.started = lease[r].started
          /\ l.commit = lease[r].commit
          /\ \/ l.pc = "setup" /\ l.control
             \/ l.pc = "unnamed" /\ ~l.control
  <2>1. PICK ok \in BOOLEAN :
            lease' = [lease EXCEPT ![r].control = ok,
                                   ![r].pc = IF ok THEN "setup" ELSE "unnamed"]
    BY DEF Identify
  <2> DEFINE pc == IF ok THEN "setup" ELSE "unnamed"
             l == [lease[r] EXCEPT !.control = ok, !.pc = pc]
  <2>2. lease' = [lease EXCEPT ![r] = l]
    BY <1>1, <2>1 DEF Shaped
  <2>3. /\ l \in Leases /\ l.started = lease[r].started /\ l.commit = lease[r].commit
        /\ l.pc = pc /\ l.control = ok
    BY <1>2 DEF Leases, Pcs
  <2>4. (pc = "setup" /\ ok) \/ (pc = "unnamed" /\ ~ok)
    OBVIOUS
  <2> HIDE DEF pc, l
  <2> QED
    BY <2>2, <2>3, <2>4
<1> DEFINE m == CleanupCharged(meter[r], 1)
           c == cleanup[r] - 1
<1>4. /\ UNCHANGED <<hour, front, answer, permit, quarantine, pending, gate, registry,
                     shutdown, session, applied, spent>>
      /\ meter' = [meter EXCEPT ![r] = m] /\ cleanup' = [cleanup EXCEPT ![r] = c]
  BY DEF Identify
<1>5. cleanup[r] <= meter[r].reserved /\ meter[r].reserved \in Nat
  BY <1>1, <1>2 DEF Kept, Metered, Meters
<1>6. /\ m \in Meters /\ m.free = meter[r].free /\ m.reserved = meter[r].reserved - 1
      /\ m.spent = meter[r].spent + 1
  BY <1>2, <1>5, CleanupChargedMeter
<1>7. c \in Nat
  BY <1>2
<1> HIDE DEF m
<1>8. Shaped'
  <2> HIDE DEF c
  <2> QED
    BY <1>1, <1>3, <1>4, <1>6, <1>7 DEF Shaped
<1>9. Elsewhere(r) /\ ShutSoundly'
  BY <1>1, <1>3, <1>4 DEF Shaped, Elsewhere, ShutSoundly
<1>10. lease'[r] = l /\ meter'[r] = m /\ cleanup'[r] = c
  BY <1>1, <1>3, <1>4 DEF Shaped
<1>11. Metered(r)'
  BY <1>1, <1>2, <1>5, <1>6, <1>10 DEF Kept, Metered, Meters
<1>12. Funded(r)'
  BY <1>1, <1>2, <1>3, <1>10, StoreAssumption DEF Kept, Funded
<1>13. Covered(r)'
  BY <1>1, <1>2, <1>3, <1>4, <1>10 DEF Kept, Covered
<1>14. Committing(r)' /\ Listed(r)'
  BY <1>1, <1>2, <1>3, <1>4, <1>10 DEF Kept, Committing, Listed
<1> QED
  BY <1>8, <1>9, <1>11, <1>12, <1>13, <1>14, OneRequest DEF Kept

\* The transaction opens, or is dropped with its half-made setup.
LEMMA SetupStep ==
    ASSUME StoreInv, NEW r \in Requests, Setup(r)
    PROVE  StoreInv'
<1>1. Shaped /\ Kept(r) /\ ShutSoundly
  BY DEF StoreInv, Kept
<1>2. lease[r] \in Leases /\ meter[r] \in Meters /\ lease[r].pc = "setup"
  BY <1>1, Values DEF Setup
<1>3. PICK n \in {1, SetupStatements} :
        /\ meter[r].free >= n
        /\ meter' = [meter EXCEPT ![r] = Charged(@, n)]
        /\ lease' = [lease EXCEPT ![r].active = (n = SetupStatements),
                                  ![r].setup = (n # SetupStatements),
                                  ![r].pc = IF n # SetupStatements \/ front[r] = "ended"
                                            THEN "stop" ELSE "open"]
        /\ IF front[r] = "ended" THEN UNCHANGED <<front, answer>>
           ELSE IF n = SetupStatements
                THEN front' = [front EXCEPT ![r] = "running"] /\ UNCHANGED answer
                ELSE Refuse(r)
  BY DEF Setup, Affordable
<1>4. UNCHANGED <<hour, permit, quarantine, pending, gate, cleanup, registry, shutdown,
                  session, applied, spent>>
  BY DEF Setup
<1> DEFINE m == Charged(meter[r], n)
           pc == IF n # SetupStatements \/ front[r] = "ended" THEN "stop" ELSE "open"
           act == n = SetupStatements
           l == [lease[r] EXCEPT !.active = act, !.setup = ~act, !.pc = pc]
<1>5. n \in Nat
  BY <1>3 DEF SetupStatements
<1>6. /\ m \in Meters /\ m.free = meter[r].free - n /\ m.reserved = meter[r].reserved
      /\ m.spent = meter[r].spent + n
  <2>1. meter[r].free \in Nat
    BY <1>2 DEF Meters
  <2> QED
    BY <1>2, <1>3, <1>5, <2>1, ChargedMeter
<1>7. lease' = [lease EXCEPT ![r] = l] /\ meter' = [meter EXCEPT ![r] = m]
  BY <1>1, <1>3 DEF Shaped
<1>8. /\ l \in Leases /\ l.started = lease[r].started /\ l.control = lease[r].control
      /\ l.commit = lease[r].commit /\ l.inFlight = lease[r].inFlight /\ l.pc = pc
  <2>1. act \in BOOLEAN /\ pc \in Pcs
    BY DEF Pcs
  <2> HIDE DEF act, pc
  <2> QED
    BY <1>2, <2>1 DEF Leases
<1>9. /\ front' \in [Requests -> {"arriving", "running", "awaiting", "ended"}]
      /\ answer' \in [Requests -> {"none", "ok", "busy", "unknown", "rejected"}]
      /\ \A p \in Requests \ {r} : front'[p] = front[p] /\ answer'[p] = answer[p]
      /\ \/ front'[r] = "ended" /\ pc = "stop" /\ front[r] = "ended"
            /\ answer'[r] = answer[r]
         \/ front'[r] = "running" /\ pc = "open" /\ front[r] # "ended"
            /\ answer'[r] = answer[r]
         \/ front'[r] = "ended" /\ pc = "stop" /\ front[r] # "ended" /\ answer'[r] = "busy"
  <2>1. CASE front[r] = "ended"
    BY <1>1, <1>3, <2>1 DEF Shaped
  <2>2. CASE front[r] # "ended" /\ act
    BY <1>1, <1>3, <2>2 DEF Shaped
  <2>3. CASE front[r] # "ended" /\ ~act
    <3>1. /\ front' = [front EXCEPT ![r] = "ended"] /\ answer' = [answer EXCEPT ![r] = "busy"]
          /\ pc = "stop"
      BY <1>3, <2>3 DEF Refuse, Answered
    <3> HIDE DEF pc
    <3> QED
      BY <1>1, <2>3, <3>1 DEF Shaped
  <2> QED
    BY <2>1, <2>2, <2>3
<1> HIDE DEF m, l, pc, act
<1>10. Shaped'
  BY <1>1, <1>4, <1>6, <1>7, <1>8, <1>9 DEF Shaped
<1>11. Elsewhere(r) /\ ShutSoundly'
  BY <1>1, <1>4, <1>7, <1>9 DEF Shaped, Elsewhere, ShutSoundly
<1>12. lease'[r] = l /\ meter'[r] = m
  BY <1>1, <1>7 DEF Shaped
<1>13. Metered(r)'
  BY <1>1, <1>2, <1>4, <1>5, <1>6, <1>12 DEF Kept, Metered, Meters
<1>14. Funded(r)'
  BY <1>1, <1>2, <1>4, <1>8, <1>9, <1>12 DEF Kept, Funded
<1>15. Covered(r)'
  BY <1>1, <1>2, <1>4, <1>8, <1>9, <1>12 DEF Kept, Covered
<1>16. Committing(r)'
  BY <1>1, <1>2, <1>4, <1>8, <1>9, <1>12 DEF Kept, Committing
<1>17. Listed(r)'
  BY <1>1, <1>2, <1>4, <1>8, <1>9, <1>12 DEF Kept, Listed
<1> QED
  BY <1>10, <1>11, <1>13, <1>14, <1>15, <1>16, <1>17, OneRequest DEF Kept

\* A lease that could not be set up is stopped like any other.
LEMMA OpenFailsStep ==
    ASSUME StoreInv, NEW r \in Requests, OpenFails(r)
    PROVE  StoreInv'
<1>1. Shaped /\ Kept(r) /\ ShutSoundly
  BY DEF StoreInv, Kept
<1>2. lease[r] \in Leases /\ lease[r].pc \in {"dialing", "identify", "setup", "unnamed"}
  BY <1>1, Values DEF OpenFails
<1> DEFINE l == [lease[r] EXCEPT !.pc = "stop"]
<1>3. lease' = [lease EXCEPT ![r] = l]
  BY <1>1 DEF OpenFails, Shaped
<1>4. UNCHANGED <<hour, permit, quarantine, pending, gate, meter, cleanup, registry,
                  shutdown, session, applied, spent>>
  BY DEF OpenFails
<1>5. /\ l \in Leases /\ l.started = lease[r].started /\ l.control = lease[r].control
      /\ l.commit = lease[r].commit /\ l.inFlight = lease[r].inFlight /\ l.pc = "stop"
  BY <1>2 DEF Leases, Pcs
<1>6. /\ front' \in [Requests -> {"arriving", "running", "awaiting", "ended"}]
      /\ answer' \in [Requests -> {"none", "ok", "busy", "unknown", "rejected"}]
      /\ \A p \in Requests \ {r} : front'[p] = front[p] /\ answer'[p] = answer[p]
      /\ front'[r] = "ended"
      /\ \/ front[r] = "ended" /\ answer'[r] = answer[r]
         \/ answer'[r] = "busy"
  <2>1. CASE front[r] = "ended"
    BY <1>1, <2>1 DEF Shaped, OpenFails
  <2>2. CASE front[r] # "ended"
    <3>1. front' = [front EXCEPT ![r] = "ended"] /\ answer' = [answer EXCEPT ![r] = "busy"]
      BY <2>2 DEF OpenFails, Refuse, Answered
    <3> QED
      BY <1>1, <3>1 DEF Shaped
  <2> QED
    BY <2>1, <2>2
<1> HIDE DEF l
<1>7. Shaped'
  BY <1>1, <1>3, <1>4, <1>5, <1>6 DEF Shaped
<1>8. Elsewhere(r) /\ ShutSoundly'
  BY <1>1, <1>3, <1>4, <1>6 DEF Shaped, Elsewhere, ShutSoundly
<1>9. lease'[r] = l
  BY <1>1, <1>3 DEF Shaped
<1>10. Metered(r)' /\ Listed(r)'
  BY <1>1, <1>2, <1>4, <1>5, <1>9 DEF Kept, Metered, Listed
<1>11. Funded(r)'
  <2>1. cleanup[r] \in Nat /\ Checks \in Nat
    BY <1>1, Values, StoreAssumption
  <2> QED
    BY <1>1, <1>2, <1>4, <1>5, <1>9, <2>1 DEF Kept, Funded
<1>12. Covered(r)'
  BY <1>1, <1>2, <1>4, <1>5, <1>6, <1>9 DEF Kept, Covered
<1>13. Committing(r)'
  BY <1>1, <1>2, <1>4, <1>5, <1>6, <1>9 DEF Kept, Committing
<1> QED
  BY <1>7, <1>8, <1>10, <1>11, <1>12, <1>13, OneRequest DEF Kept

-----------------------------------------------------------------------------
(* Statements and the COMMIT *)

\* A dropped transaction is handed to its stop and otherwise left as it is.
LEMMA DroppedLease ==
    ASSUME NEW l \in Leases
    PROVE  /\ Dropped(l) \in Leases /\ Dropped(l).started = l.started
           /\ Dropped(l).control = l.control /\ Dropped(l).commit = l.commit
           /\ Dropped(l).inFlight = l.inFlight
           /\ l.pc = "open" => Dropped(l).pc = "stop"
           /\ l.pc # "open" => Dropped(l).pc = l.pc
<1>1. "stop" \in Pcs
  BY DEF Pcs
<1>2. CASE l.pc = "open"
  BY <1>1, <1>2 DEF Dropped, Leases
<1>3. CASE l.pc # "open"
  BY <1>3 DEF Dropped, Leases
<1> QED
  BY <1>2, <1>3

\* A statement in flight, and perhaps left there by an error.
LEMMA StatementStep ==
    ASSUME StoreInv, NEW r \in Requests, Statement(r)
    PROVE  StoreInv'
<1>1. Shaped /\ Kept(r) /\ ShutSoundly
  BY DEF StoreInv, Kept
<1>2. /\ lease[r] \in Leases /\ meter[r] \in Meters /\ lease[r].pc = "open"
      /\ ~lease[r].inFlight /\ front[r] = "running" /\ meter[r].free >= 2
  BY <1>1, Values DEF Statement, Open, Affordable, PerStatement
<1>3. PICK ok \in BOOLEAN : lease' = [lease EXCEPT ![r].inFlight = ~ok]
  BY DEF Statement
<1> DEFINE m == Charged(meter[r], 2)
           l == [lease[r] EXCEPT !.inFlight = ~ok]
           s == [spent EXCEPT ![r].statements = @ + 1]
<1>4. /\ lease' = [lease EXCEPT ![r] = l] /\ meter' = [meter EXCEPT ![r] = m] /\ spent' = s
      /\ UNCHANGED <<hour, front, answer, permit, quarantine, pending, gate, cleanup,
                     registry, shutdown, session, applied>>
  BY <1>1, <1>3 DEF Statement, PerStatement, Shaped
<1>5. /\ l \in Leases /\ l.started = lease[r].started /\ l.control = lease[r].control
      /\ l.commit = lease[r].commit /\ l.pc = lease[r].pc
  BY <1>2 DEF Leases
<1>6. /\ m \in Meters /\ m.free = meter[r].free - 2 /\ m.reserved = meter[r].reserved
      /\ m.spent = meter[r].spent + 2
  <2>1. meter[r].free \in Nat
    BY <1>2 DEF Meters
  <2> QED
    BY <1>2, <2>1, ChargedMeter
<1>7. s \in [Requests -> [transactions : Nat, statements : Nat]]
  <2>1. spent[r].statements + 1 \in Nat
    BY <1>1, Values
  <2> DEFINE n == spent[r].statements + 1
  <2>2. s = [spent EXCEPT ![r].statements = n]
    BY <1>1 DEF Shaped
  <2> HIDE DEF n
  <2> QED
    BY <1>1, <2>1, <2>2 DEF Shaped, n
<1> HIDE DEF m, l, s
<1>8. Shaped'
  BY <1>1, <1>4, <1>5, <1>6, <1>7 DEF Shaped
<1>9. Elsewhere(r) /\ ShutSoundly'
  BY <1>1, <1>4 DEF Shaped, Elsewhere, ShutSoundly
<1>10. lease'[r] = l /\ meter'[r] = m
  BY <1>1, <1>4 DEF Shaped
<1>11. Metered(r)'
  BY <1>1, <1>2, <1>4, <1>6, <1>10 DEF Kept, Metered, Meters
<1>12. Funded(r)' /\ Listed(r)'
  BY <1>1, <1>4, <1>5, <1>10 DEF Kept, Funded, Listed
<1>13. Covered(r)'
  BY <1>1, <1>4, <1>5, <1>10 DEF Kept, Covered
<1>14. Committing(r)'
  BY <1>1, <1>2, <1>4, <1>5, <1>10 DEF Kept, Committing
<1> QED
  BY <1>8, <1>9, <1>11, <1>12, <1>13, <1>14, OneRequest DEF Kept

\* The four ways a request ends while its transaction is open, whatever it is
\* told, as long as the answer agrees with where the COMMIT stands.
LEMMA LetGo ==
    ASSUME StoreInv, NEW r \in Requests,
           front[r] \in {"running", "awaiting"},
           NEW a \in {"none", "busy", "unknown"},
           a = "busy" => lease[r].commit \in {"not_attempted", "refused"},
           lease' = [lease EXCEPT ![r] = Dropped(@)],
           front' = [front EXCEPT ![r] = "ended"],
           answer' = [answer EXCEPT ![r] = a],
           UNCHANGED <<hour, permit, quarantine, pending, gate, meter, cleanup, registry,
                       shutdown, session, applied, spent>>
    PROVE  StoreInv'
<1>1. Shaped /\ Kept(r) /\ ShutSoundly
  BY DEF StoreInv, Kept
<1> DEFINE l == Dropped(lease[r])
<1>2. lease[r] \in Leases
  BY <1>1, Values
<1>3. /\ l \in Leases /\ l.started = lease[r].started
      /\ l.control = lease[r].control /\ l.commit = lease[r].commit
      /\ lease[r].pc = "open" => l.pc = "stop"
      /\ lease[r].pc # "open" => l.pc = lease[r].pc
  BY <1>2, DroppedLease
<1>4. lease' = [lease EXCEPT ![r] = l]
  OBVIOUS
<1> HIDE DEF l
<1>5. Shaped'
  BY <1>1, <1>3, <1>4 DEF Shaped
<1>6. Elsewhere(r) /\ ShutSoundly'
  BY <1>1, <1>4 DEF Shaped, Elsewhere, ShutSoundly
<1>7. lease'[r] = l /\ front'[r] = "ended" /\ answer'[r] = a
  BY <1>1, <1>4 DEF Shaped
<1>8. Metered(r)' /\ Listed(r)'
  BY <1>1, <1>3, <1>7 DEF Kept, Metered, Listed
<1>9. Funded(r)'
  BY <1>1, <1>3, <1>7 DEF Kept, Funded
<1>10. Covered(r)'
  BY <1>1, <1>3, <1>7 DEF Kept, Covered
<1>11. Committing(r)'
  <2>1. lease[r].pc # "open" => lease[r].commit # "sent"
    BY <1>1 DEF Kept, Committing
  <2> QED
    BY <1>1, <1>3, <1>7, <2>1 DEF Kept, Committing
<1> QED
  BY <1>5, <1>6, <1>8, <1>9, <1>10, <1>11, OneRequest DEF Kept

\* A COMMIT refused before it was sent cannot take effect.
LEMMA CommitUnsentStep ==
    ASSUME StoreInv, NEW r \in Requests, CommitUnsent(r)
    PROVE  StoreInv'
<1>1. Shaped /\ Kept(r)
  BY DEF StoreInv, Kept
<1>2. lease[r].commit \in {"not_attempted", "refused"} /\ front[r] = "running"
  BY <1>1, Values DEF CommitUnsent, Open, Kept, Committing, Leases
<1>3. /\ lease' = [lease EXCEPT ![r] = Dropped(@)] /\ front' = [front EXCEPT ![r] = "ended"]
      /\ answer' = [answer EXCEPT ![r] = "busy"]
      /\ UNCHANGED <<hour, permit, quarantine, pending, gate, meter, cleanup, registry,
                     shutdown, session, applied, spent>>
  BY DEF CommitUnsent, Refuse, Answered
<1> QED
  BY <1>2, <1>3, LetGo

\* An uncertain COMMIT is told as one.
LEMMA CommitUncertainStep ==
    ASSUME StoreInv, NEW r \in Requests, CommitUncertain(r)
    PROVE  StoreInv'
<1>1. front[r] = "running"
  BY DEF CommitUncertain, Open
<1>2. /\ lease' = [lease EXCEPT ![r] = Dropped(@)] /\ front' = [front EXCEPT ![r] = "ended"]
      /\ answer' = [answer EXCEPT ![r] = "unknown"]
      /\ UNCHANGED <<hour, permit, quarantine, pending, gate, meter, cleanup, registry,
                     shutdown, session, applied, spent>>
  BY DEF CommitUncertain, Answered
<1> QED
  BY <1>1, <1>2, LetGo

\* A future dropped at an await: the pending flag decides what a timeout says.
LEMMA CancelStep ==
    ASSUME StoreInv, NEW r \in Requests, Cancel(r)
    PROVE  StoreInv'
<1>1. Shaped /\ Kept(r)
  BY DEF StoreInv, Kept
<1>2. /\ front[r] \in {"running", "awaiting"} /\ front' = [front EXCEPT ![r] = "ended"]
      /\ lease' = [lease EXCEPT ![r] = Dropped(@)]
      /\ UNCHANGED <<hour, permit, quarantine, pending, gate, meter, cleanup, registry,
                     shutdown, session, applied, spent>>
  BY DEF Cancel
<1>3. answer[r] = "none"
  BY <1>1, <1>2 DEF Kept, Committing
<1>4. PICK a \in {"none", "busy", "unknown"} :
          /\ answer' = [answer EXCEPT ![r] = a]
          /\ a = "busy" => ~pending[r]
  <2>1. CASE UNCHANGED answer
    <3>1. answer' = [answer EXCEPT ![r] = "none"]
      BY <1>1, <1>3, <2>1 DEF Shaped
    <3> QED
      BY <3>1
  <2>2. CASE answer' = [answer EXCEPT ![r] = DeadlineAnswer(r)]
    <3> DEFINE a == DeadlineAnswer(r)
    <3>1. a \in {"none", "busy", "unknown"} /\ (a = "busy" => ~pending[r])
      BY DEF DeadlineAnswer
    <3> HIDE DEF a
    <3> QED
      BY <2>2, <3>1 DEF a
  <2> QED
    BY <2>1, <2>2 DEF Cancel
<1>5. a = "busy" => lease[r].commit \in {"not_attempted", "refused"}
  BY <1>1, <1>2, <1>4, Values DEF Kept, Committing, Leases
<1> QED
  BY <1>2, <1>4, <1>5, LetGo

\* The COMMIT is sent: from here nobody but the provider knows its fate.
LEMMA CommitSendStep ==
    ASSUME StoreInv, NEW r \in Requests, CommitSend(r)
    PROVE  StoreInv'
<1>1. Shaped /\ Kept(r) /\ ShutSoundly
  BY DEF StoreInv, Kept
<1>2. /\ lease[r] \in Leases /\ meter[r] \in Meters /\ lease[r].pc = "open"
      /\ front[r] = "running" /\ meter[r].free >= 2 /\ lease[r].commit = "not_attempted"
  BY <1>1, Values DEF CommitSend, Open, Affordable, PerStatement
<1> DEFINE m == Charged(meter[r], 2)
           l == [lease[r] EXCEPT !.commit = "sent", !.inFlight = TRUE]
<1>3. /\ lease' = [lease EXCEPT ![r] = l] /\ meter' = [meter EXCEPT ![r] = m]
      /\ pending' = [pending EXCEPT ![r] = TRUE]
      /\ UNCHANGED <<hour, front, answer, permit, quarantine, gate, cleanup, registry,
                     shutdown, session, applied, spent>>
  BY <1>1 DEF CommitSend, PerStatement, Shaped
<1>4. /\ l \in Leases /\ l.started = lease[r].started /\ l.control = lease[r].control
      /\ l.commit = "sent" /\ l.inFlight /\ l.pc = lease[r].pc
  BY <1>2 DEF Leases
<1>5. /\ m \in Meters /\ m.free = meter[r].free - 2 /\ m.reserved = meter[r].reserved
      /\ m.spent = meter[r].spent + 2
  <2>1. meter[r].free \in Nat
    BY <1>2 DEF Meters
  <2> QED
    BY <1>2, <2>1, ChargedMeter
<1> HIDE DEF m, l
<1>6. Shaped'
  BY <1>1, <1>3, <1>4, <1>5 DEF Shaped
<1>7. Elsewhere(r) /\ ShutSoundly'
  BY <1>1, <1>3 DEF Shaped, Elsewhere, ShutSoundly
<1>8. lease'[r] = l /\ meter'[r] = m /\ pending'[r]
  BY <1>1, <1>3 DEF Shaped
<1>9. Metered(r)'
  BY <1>1, <1>2, <1>3, <1>5, <1>8 DEF Kept, Metered, Meters
<1>10. Funded(r)' /\ Listed(r)'
  BY <1>1, <1>3, <1>4, <1>8 DEF Kept, Funded, Listed
<1>11. Covered(r)'
  BY <1>1, <1>3, <1>4, <1>8 DEF Kept, Covered
<1>12. Committing(r)'
  BY <1>1, <1>2, <1>3, <1>4, <1>8 DEF Kept, Committing
<1> QED
  BY <1>6, <1>7, <1>9, <1>10, <1>11, <1>12, OneRequest DEF Kept

\* The provider commits, whether or not the request still listens.
LEMMA ProviderCommitsStep ==
    ASSUME StoreInv, NEW r \in Requests, ProviderCommits(r)
    PROVE  StoreInv'
<1>1. Shaped /\ Kept(r) /\ ShutSoundly
  BY DEF StoreInv, Kept
<1>2. Shaped' /\ Elsewhere(r) /\ ShutSoundly'
  BY <1>1 DEF ProviderCommits, Shaped, Elsewhere, ShutSoundly
<1>3. applied'[r] /\ lease[r].commit = "sent"
  BY <1>1 DEF ProviderCommits, Shaped
<1>4. Kept(r)'
  BY <1>1, <1>3 DEF Kept, Metered, Funded, Covered, Committing, Listed, ProviderCommits
<1> QED
  BY <1>2, <1>4, OneRequest

\* Success is told of a COMMIT the provider acknowledged.
LEMMA CommitAcknowledgedStep ==
    ASSUME StoreInv, NEW r \in Requests, CommitAcknowledged(r)
    PROVE  StoreInv'
<1>1. Shaped /\ Kept(r) /\ ShutSoundly
  BY DEF StoreInv, Kept
<1>2. /\ lease[r] \in Leases /\ lease[r].pc = "open" /\ front[r] = "running" /\ applied[r]
  BY <1>1, Values DEF CommitAcknowledged, Open
<1> DEFINE d == Dropped(lease[r])
           l == [d EXCEPT !.commit = "acknowledged", !.active = FALSE, !.inFlight = FALSE]
<1>3. /\ lease' = [lease EXCEPT ![r] = l] /\ pending' = [pending EXCEPT ![r] = FALSE]
      /\ front' = [front EXCEPT ![r] = "ended"] /\ answer' = [answer EXCEPT ![r] = "ok"]
      /\ UNCHANGED <<hour, permit, quarantine, gate, meter, cleanup, registry, shutdown,
                     session, applied, spent>>
  BY DEF CommitAcknowledged, Answered
<1>4. d \in Leases /\ d.started = lease[r].started /\ d.control = lease[r].control
      /\ d.pc = "stop"
  BY <1>2, DroppedLease
<1>5. /\ l \in Leases /\ l.started = lease[r].started /\ l.control = lease[r].control
      /\ l.commit = "acknowledged" /\ l.pc = "stop"
  <2> HIDE DEF d
  <2> QED
    BY <1>4 DEF Leases
<1> HIDE DEF d, l
<1>6. Shaped'
  BY <1>1, <1>3, <1>5 DEF Shaped
<1>7. Elsewhere(r) /\ ShutSoundly'
  BY <1>1, <1>3 DEF Shaped, Elsewhere, ShutSoundly
<1>8. lease'[r] = l /\ ~pending'[r] /\ front'[r] = "ended" /\ answer'[r] = "ok"
  BY <1>1, <1>3 DEF Shaped
<1>9. Metered(r)' /\ Funded(r)' /\ Listed(r)'
  BY <1>1, <1>2, <1>3, <1>5, <1>8 DEF Kept, Metered, Funded, Listed
<1>10. Covered(r)'
  BY <1>1, <1>2, <1>3, <1>5, <1>8 DEF Kept, Covered
<1>11. Committing(r)'
  BY <1>1, <1>2, <1>3, <1>5, <1>8 DEF Kept, Committing
<1> QED
  BY <1>6, <1>7, <1>9, <1>10, <1>11, OneRequest DEF Kept

\* Only a refusal by the provider is known not to have taken effect.
LEMMA CommitRefusedStep ==
    ASSUME StoreInv, NEW r \in Requests, CommitRefused(r)
    PROVE  StoreInv'
<1>1. Shaped /\ Kept(r) /\ ShutSoundly
  BY DEF StoreInv, Kept
<1>2. /\ lease[r] \in Leases /\ lease[r].pc = "open" /\ front[r] = "running" /\ ~applied[r]
  BY <1>1, Values DEF CommitRefused, Open
<1> DEFINE l == [lease[r] EXCEPT !.commit = "refused"]
<1>3. /\ lease' = [lease EXCEPT ![r] = l] /\ pending' = [pending EXCEPT ![r] = FALSE]
      /\ UNCHANGED <<hour, front, answer, permit, quarantine, gate, meter, cleanup,
                     registry, shutdown, session, applied, spent>>
  BY <1>1 DEF CommitRefused, Shaped
<1>4. /\ l \in Leases /\ l.started = lease[r].started /\ l.control = lease[r].control
      /\ l.commit = "refused" /\ l.pc = lease[r].pc
  BY <1>2 DEF Leases
<1> HIDE DEF l
<1>5. Shaped'
  BY <1>1, <1>3, <1>4 DEF Shaped
<1>6. Elsewhere(r) /\ ShutSoundly'
  BY <1>1, <1>3 DEF Shaped, Elsewhere, ShutSoundly
<1>7. lease'[r] = l /\ ~pending'[r]
  BY <1>1, <1>3 DEF Shaped
<1>8. Metered(r)' /\ Funded(r)' /\ Listed(r)'
  BY <1>1, <1>3, <1>4, <1>7 DEF Kept, Metered, Funded, Listed
<1>9. Covered(r)'
  BY <1>1, <1>3, <1>4, <1>7 DEF Kept, Covered
<1>10. Committing(r)'
  BY <1>1, <1>2, <1>3, <1>4, <1>7 DEF Kept, Committing
<1> QED
  BY <1>5, <1>6, <1>8, <1>9, <1>10, OneRequest DEF Kept

\* The request goes on while its transaction is stopped.
LEMMA RollbackStep ==
    ASSUME StoreInv, NEW r \in Requests, Rollback(r)
    PROVE  StoreInv'
<1>1. Shaped /\ Kept(r) /\ ShutSoundly
  BY DEF StoreInv, Kept
<1>2. /\ lease[r] \in Leases /\ lease[r].pc = "open" /\ front[r] = "running"
      /\ lease[r].commit # "sent"
  BY <1>1, Values DEF Rollback, Open
<1> DEFINE l == Dropped(lease[r])
<1>3. /\ lease' = [lease EXCEPT ![r] = l]
      /\ UNCHANGED <<hour, front, answer, permit, quarantine, pending, gate, meter, cleanup,
                     registry, shutdown, session, applied, spent>>
  BY DEF Rollback
<1>4. /\ l \in Leases /\ l.started = lease[r].started /\ l.control = lease[r].control
      /\ l.commit = lease[r].commit /\ l.pc = "stop"
  BY <1>2, DroppedLease
<1> HIDE DEF l
<1>5. Shaped'
  BY <1>1, <1>3, <1>4 DEF Shaped
<1>6. Elsewhere(r) /\ ShutSoundly'
  BY <1>1, <1>3 DEF Shaped, Elsewhere, ShutSoundly
<1>7. lease'[r] = l
  BY <1>1, <1>3 DEF Shaped
<1>8. Metered(r)' /\ Funded(r)' /\ Listed(r)'
  BY <1>1, <1>2, <1>3, <1>4, <1>7 DEF Kept, Metered, Funded, Listed
<1>9. Covered(r)'
  BY <1>1, <1>2, <1>3, <1>4, <1>7 DEF Kept, Covered
<1>10. Committing(r)'
  BY <1>1, <1>2, <1>3, <1>4, <1>7 DEF Kept, Committing
<1> QED
  BY <1>5, <1>6, <1>8, <1>9, <1>10, OneRequest DEF Kept

\* A request that sent no COMMIT says so.
LEMMA FinishStep ==
    ASSUME StoreInv, NEW r \in Requests, Finish(r)
    PROVE  StoreInv'
<1>1. Shaped /\ Kept(r) /\ ShutSoundly
  BY DEF StoreInv, Kept
<1>2. Shaped' /\ Elsewhere(r) /\ ShutSoundly'
  BY <1>1 DEF Finish, Answered, Shaped, Elsewhere, ShutSoundly
<1>3. /\ front'[r] = "ended" /\ answer'[r] = "rejected"
      /\ front[r] = "running" /\ lease[r].pc = "none"
  BY <1>1 DEF Finish, Answered, Shaped
<1>4. lease[r].commit \in {"not_attempted", "refused"}
  BY <1>1, <1>3, Values DEF Kept, Committing, Leases
<1>5. UNCHANGED <<permit, quarantine, pending, gate, meter, cleanup, lease, registry,
                  shutdown, session, applied>>
  BY DEF Finish
<1>6. Metered(r)' /\ Funded(r)' /\ Listed(r)'
  BY <1>1, <1>5 DEF Kept, Metered, Funded, Listed
<1>7. Covered(r)' /\ Committing(r)'
  BY <1>1, <1>3, <1>4, <1>5 DEF Kept, Covered, Committing
<1> QED
  BY <1>2, <1>6, <1>7, OneRequest DEF Kept

-----------------------------------------------------------------------------
(* Stopping a session *)

\* Protected units are spent on the stop: what the lease may still need is
\* what is left of them.
LEMMA Spending ==
    ASSUME StoreInv, NEW r \in Requests, NEW n \in Nat, NEW l \in Leases,
           lease[r].pc # "none", n <= cleanup[r],
           SpendCleanup(r, n), lease' = [lease EXCEPT ![r] = l],
           UNCHANGED <<hour, front, answer, permit, quarantine, pending, gate, registry,
                       shutdown, session, applied, spent>>,
           lease[r].pc \in {"stop", "cancel"}, lease[r].started, l.started,
           l.pc \in {"close", "cancel"}, l.commit = lease[r].commit,
           l.pc = "close" => cleanup[r] - n >= 2 * Checks,
           l.pc = "cancel" => cleanup[r] - n >= 3 + 2 * Checks
    PROVE  StoreInv'
<1>1. Shaped /\ Kept(r) /\ ShutSoundly
  BY DEF StoreInv, Kept
<1>2. meter[r] \in Meters /\ cleanup[r] \in Nat
  BY <1>1, Values
<1> DEFINE m == CleanupCharged(meter[r], n)
           c == cleanup[r] - n
<1>3. meter' = [meter EXCEPT ![r] = m] /\ cleanup' = [cleanup EXCEPT ![r] = c]
  BY DEF SpendCleanup
<1>4. cleanup[r] <= meter[r].reserved /\ meter[r].reserved \in Nat
  BY <1>1, <1>2 DEF Kept, Metered, Meters
<1>5. n <= meter[r].reserved
  BY <1>2, <1>4
<1>6. /\ m \in Meters /\ m.free = meter[r].free /\ m.reserved = meter[r].reserved - n
      /\ m.spent = meter[r].spent + n
  BY <1>2, <1>5, CleanupChargedMeter
<1>7. c \in Nat
  BY <1>2
<1> HIDE DEF m
<1>8. Shaped'
  <2> HIDE DEF c
  <2> QED
    BY <1>1, <1>3, <1>6, <1>7 DEF Shaped
<1>9. Elsewhere(r) /\ ShutSoundly'
  BY <1>1, <1>3 DEF Shaped, Elsewhere, ShutSoundly
<1>10. lease'[r] = l /\ meter'[r] = m /\ cleanup'[r] = c
  BY <1>1, <1>3 DEF Shaped
<1>11. Metered(r)'
  BY <1>1, <1>2, <1>4, <1>6, <1>10 DEF Kept, Metered, Meters
<1>12. Funded(r)'
  BY <1>10 DEF Funded
<1>13. Covered(r)' /\ Listed(r)'
  BY <1>1, <1>10 DEF Kept, Covered, Listed
<1>14. Committing(r)'
  BY <1>1, <1>10 DEF Kept, Committing
<1> QED
  BY <1>8, <1>9, <1>11, <1>12, <1>13, <1>14, OneRequest DEF Kept

\* A session under control was started.
LEMMA Controlled ==
    ASSUME StoreInv, NEW r \in Requests,
           \/ lease[r].pc = "stop" /\ lease[r].control
           \/ lease[r].pc = "cancel"
    PROVE  /\ lease[r].started /\ lease[r] \in Leases /\ cleanup[r] \in Nat
           /\ lease[r].pc = "stop" => cleanup[r] >= 5 + 2 * Checks
           /\ lease[r].pc = "cancel" => cleanup[r] >= 3 + 2 * Checks
<1>1. Shaped /\ Kept(r)
  BY DEF StoreInv, Kept
<1>2. lease[r] \in Leases /\ cleanup[r] \in Nat
  BY <1>1, Values
<1> QED
  BY <1>1, <1>2 DEF Kept, Funded, Covered

\* The advisory lock is released, or the failure of it is cancelled.
LEMMA StopUnlockStep ==
    ASSUME StoreInv, NEW r \in Requests, StopUnlock(r)
    PROVE  StoreInv'
<1>1. /\ lease[r].pc = "stop" /\ lease[r].control /\ SpendCleanup(r, 2)
      /\ UNCHANGED <<hour, front, answer, permit, quarantine, pending, gate, registry,
                     shutdown, session, applied, spent>>
  BY DEF StopUnlock
<1>2. lease[r].started /\ lease[r] \in Leases /\ cleanup[r] \in Nat
      /\ cleanup[r] >= 5 + 2 * Checks
  BY <1>1, Controlled
<1>3. PICK ok \in BOOLEAN :
          lease' = [lease EXCEPT ![r].inFlight = ~ok,
                                 ![r].pc = IF ok THEN "close" ELSE "cancel"]
  BY DEF StopUnlock
<1> DEFINE pc == IF ok THEN "close" ELSE "cancel"
           l == [lease[r] EXCEPT !.inFlight = ~ok, !.pc = pc]
<1>4. lease' = [lease EXCEPT ![r] = l]
  BY <1>3 DEF StoreInv, Shaped
<1>5. /\ l \in Leases /\ l.started = lease[r].started /\ l.commit = lease[r].commit
      /\ l.pc \in {"close", "cancel"}
  BY <1>2 DEF Leases, Pcs
<1>6. 2 <= cleanup[r] /\ cleanup[r] - 2 >= 2 * Checks /\ cleanup[r] - 2 >= 3 + 2 * Checks
  BY <1>2, StoreAssumption
<1> HIDE DEF pc, l
<1>7. lease[r].pc # "none" /\ l.started
  BY <1>1, <1>2, <1>5
<1> QED
  BY <1>1, <1>2, <1>4, <1>5, <1>6, <1>7, Spending

\* The session is cancelled and rolled back.
LEMMA StopCancelStep ==
    ASSUME StoreInv, NEW r \in Requests, StopCancel(r)
    PROVE  StoreInv'
<1>1. /\ (lease[r].pc = "stop" /\ lease[r].control) \/ lease[r].pc = "cancel"
      /\ SpendCleanup(r, 3) /\ lease' = [lease EXCEPT ![r].pc = "close"]
      /\ UNCHANGED <<hour, front, answer, permit, quarantine, pending, gate, registry,
                     shutdown, session, applied, spent>>
  BY DEF StopCancel, CancelStatements
<1>2. /\ lease[r].started /\ lease[r] \in Leases /\ cleanup[r] \in Nat
      /\ lease[r].pc = "stop" => cleanup[r] >= 5 + 2 * Checks
      /\ lease[r].pc = "cancel" => cleanup[r] >= 3 + 2 * Checks
  BY <1>1, Controlled
<1> DEFINE l == [lease[r] EXCEPT !.pc = "close"]
<1>3. lease' = [lease EXCEPT ![r] = l]
  BY <1>1 DEF StoreInv, Shaped
<1>4. /\ l \in Leases /\ l.started = lease[r].started /\ l.commit = lease[r].commit
      /\ l.pc = "close"
  BY <1>2 DEF Leases, Pcs
<1>5. 3 <= cleanup[r] /\ cleanup[r] - 3 >= 2 * Checks
  BY <1>1, <1>2, StoreAssumption
<1> HIDE DEF l
<1>6. lease[r].pc # "none" /\ lease[r].pc \in {"stop", "cancel"} /\ l.started
  BY <1>1, <1>2, <1>4
<1> QED
  BY <1>1, <1>2, <1>3, <1>4, <1>5, <1>6, Spending

\* The lease goes.  A confirmed stop needs the session gone; an unconfirmed one
\* leaves the gate shut and the permits in quarantine.
LEMMA Releasing ==
    ASSUME StoreInv, NEW r \in Requests, NEW confirmed \in BOOLEAN, NEW m \in Meters,
           lease[r].pc # "none", Released(r, confirmed),
           confirmed => session[r] = "none",
           lease[r].commit = "sent" => front[r] = "ended",
           meter' = [meter EXCEPT ![r] = m],
           m.free + m.reserved + m.spent = StatementLimit,
           NEW c \in Nat, cleanup' = [cleanup EXCEPT ![r] = c], c <= m.reserved,
           UNCHANGED <<hour, front, answer, permit, pending, shutdown, session, applied,
                       spent>>
    PROVE  StoreInv'
<1>1. Shaped /\ Kept(r) /\ ShutSoundly
  BY DEF StoreInv, Kept
<1>2. lease[r] \in Leases
  BY <1>1, Values
<1> DEFINE l == [Unleased EXCEPT !.commit = lease[r].commit]
           g == IF confirmed THEN "free" ELSE "forgotten"
           t == quarantine[r] \/ ~confirmed
           u == registry.quarantined \/ ~confirmed
<1>3. /\ l \in Leases /\ ~l.started /\ ~l.control /\ l.commit = lease[r].commit
      /\ l.pc = "none"
  BY <1>2 DEF Unleased, Leases, Pcs
<1>4. /\ lease' = [lease EXCEPT ![r] = l] /\ gate' = [gate EXCEPT ![r] = g]
      /\ quarantine' = [quarantine EXCEPT ![r] = t]
      /\ registry' = [registry EXCEPT !.active = @ \ {r}, !.quarantined = u]
  BY <1>1 DEF Released, Shaped
<1>5. /\ g \in {"free", "held", "forgotten"} /\ g # "held"
      /\ confirmed => g = "free"
      /\ ~confirmed => g = "forgotten" /\ t /\ u
  OBVIOUS
<1>6. t \in BOOLEAN /\ u \in BOOLEAN /\ (registry.quarantined => u)
  BY <1>1 DEF Shaped
<1> HIDE DEF l, g, t, u
<1>7. Shaped'
  BY <1>1, <1>3, <1>4, <1>5, <1>6 DEF Shaped
<1>8. /\ registry'.closed = registry.closed /\ registry'.active = registry.active \ {r}
      /\ registry'.quarantined = u
  BY <1>1, <1>4 DEF Shaped
<1>9. Elsewhere(r)
  BY <1>1, <1>4, <1>6, <1>8 DEF Shaped, Elsewhere
<1>10. r \in registry.active
  BY <1>1 DEF Kept, Listed
<1>11. ShutSoundly'
  BY <1>1, <1>8, <1>10 DEF ShutSoundly
<1>12. /\ lease'[r] = l /\ gate'[r] = g /\ quarantine'[r] = t /\ meter'[r] = m
       /\ cleanup'[r] = c
  BY <1>1, <1>4 DEF Shaped
<1>13. Metered(r)' /\ Funded(r)'
  BY <1>3, <1>12 DEF Metered, Funded
<1>14. Covered(r)'
  BY <1>1, <1>3, <1>5, <1>12, Values DEF Kept, Covered
<1>15. Committing(r)'
  BY <1>1, <1>3, <1>12 DEF Kept, Committing
<1>16. Listed(r)'
  BY <1>3, <1>5, <1>8, <1>12 DEF Listed
<1> QED
  BY <1>7, <1>9, <1>11, <1>13, <1>14, <1>15, <1>16, OneRequest DEF Kept

\* A COMMIT sent is no longer open once its lease is being stopped.
LEMMA Stopped ==
    ASSUME StoreInv, NEW r \in Requests, lease[r].pc \in {"stop", "cancel", "close"}
    PROVE  lease[r].commit = "sent" => front[r] = "ended"
BY DEF StoreInv, Committing

\* The session is gone: its capacity and its units come back.
LEMMA StopConfirmedStep ==
    ASSUME StoreInv, NEW r \in Requests, StopConfirmed(r)
    PROVE  StoreInv'
<1>1. Shaped /\ Kept(r)
  BY DEF StoreInv, Kept
<1>2. meter[r] \in Meters /\ cleanup[r] \in Nat
  BY <1>1, Values
<1>3. PICK n \in Looks :
          /\ cleanup[r] >= 2 * n
          /\ cleanup' = [cleanup EXCEPT ![r] = 0]
          /\ meter' = [meter EXCEPT ![r] =
                          Refunded(CleanupCharged(@, 2 * n), cleanup[r] - 2 * n)]
  BY DEF StopConfirmed, CleanupAffordable
<1>4. n \in Nat
  BY StoreAssumption
<1> DEFINE k == 2 * n
           e == cleanup[r] - k
           x == CleanupCharged(meter[r], k)
           m == Refunded(x, e)
<1>5. k \in Nat /\ e \in Nat /\ k <= cleanup[r]
  BY <1>2, <1>3, <1>4
<1>6. cleanup[r] <= meter[r].reserved /\ meter[r].reserved \in Nat
  BY <1>1, <1>2 DEF Kept, Metered, Meters
<1>7. meter' = [meter EXCEPT ![r] = m]
  BY <1>3
<1>8. k <= meter[r].reserved
  <2> HIDE DEF k
  <2> QED
    BY <1>2, <1>5, <1>6
<1>9. /\ x \in Meters /\ x.free = meter[r].free /\ x.reserved = meter[r].reserved - k
      /\ x.spent = meter[r].spent + k
  <2> HIDE DEF k
  <2> QED
    BY <1>2, <1>5, <1>8, CleanupChargedMeter
<1>10. e = cleanup[r] - k
  OBVIOUS
<1> HIDE DEF k, e, x
<1>11. e <= x.reserved
  BY <1>2, <1>5, <1>6, <1>9, <1>10
<1>12. m \in Meters /\ m.free = x.free + e /\ m.reserved = x.reserved - e /\ m.spent = x.spent
  BY <1>5, <1>9, <1>11, RefundedMeter
<1> HIDE DEF m
<1>13. /\ meter[r].free \in Nat /\ meter[r].spent \in Nat
       /\ meter[r].free + meter[r].reserved + meter[r].spent = StatementLimit
  BY <1>1, <1>2 DEF Kept, Metered, Meters
<1>14. m.free + m.reserved + m.spent = StatementLimit /\ 0 <= m.reserved
  BY <1>2, <1>5, <1>6, <1>9, <1>10, <1>12, <1>13
<1>15. /\ lease[r].pc = "close" /\ session[r] = "none" /\ Released(r, TRUE)
       /\ UNCHANGED <<hour, front, answer, permit, pending, shutdown, session, applied, spent>>
  BY DEF StopConfirmed
<1>16. lease[r].pc # "none" /\ lease[r].pc \in {"stop", "cancel", "close"}
  BY <1>15
<1>17. lease[r].commit = "sent" => front[r] = "ended"
  BY <1>16, Stopped
<1> QED
  BY <1>3, <1>7, <1>12, <1>14, <1>15, <1>16, <1>17, Releasing

\* A lease that never dialed has no session.
LEMMA StopUnstartedStep ==
    ASSUME StoreInv, NEW r \in Requests, StopUnstarted(r)
    PROVE  StoreInv'
<1>1. Shaped /\ Kept(r)
  BY DEF StoreInv, Kept
<1>2. meter[r] \in Meters /\ cleanup[r] \in Nat
  BY <1>1, Values
<1> DEFINE m == Refunded(meter[r], cleanup[r])
<1>3. /\ cleanup' = [cleanup EXCEPT ![r] = 0] /\ meter' = [meter EXCEPT ![r] = m]
      /\ lease[r].pc = "stop" /\ ~lease[r].started /\ Released(r, TRUE)
      /\ UNCHANGED <<hour, front, answer, permit, pending, shutdown, session, applied, spent>>
  BY DEF StopUnstarted
<1>4. cleanup[r] <= meter[r].reserved
  BY <1>1 DEF Kept, Metered
<1>5. /\ m \in Meters /\ m.free = meter[r].free + cleanup[r]
      /\ m.reserved = meter[r].reserved - cleanup[r] /\ m.spent = meter[r].spent
  BY <1>2, <1>4, RefundedMeter
<1> HIDE DEF m
<1>6. /\ meter[r].free \in Nat /\ meter[r].spent \in Nat /\ meter[r].reserved \in Nat
      /\ meter[r].free + meter[r].reserved + meter[r].spent = StatementLimit
  BY <1>1, <1>2 DEF Kept, Metered, Meters
<1>7. m.free + m.reserved + m.spent = StatementLimit /\ 0 <= m.reserved
  BY <1>2, <1>4, <1>5, <1>6
<1>8. session[r] = "none"
  BY <1>1, <1>3, Values DEF Kept, Covered
<1>9. lease[r].pc # "none" /\ lease[r].pc \in {"stop", "cancel", "close"}
  BY <1>3
<1>10. lease[r].commit = "sent" => front[r] = "ended"
  BY <1>9, Stopped
<1> QED
  BY <1>3, <1>5, <1>7, <1>8, <1>9, <1>10, Releasing

\* What cannot be confirmed keeps its gate, its permits and its units.
LEMMA StopUnconfirmedStep ==
    ASSUME StoreInv, NEW r \in Requests, StopUnconfirmed(r)
    PROVE  StoreInv'
<1>1. Shaped /\ Kept(r)
  BY DEF StoreInv, Kept
<1>2. meter[r] \in Meters /\ cleanup[r] \in Nat
  BY <1>1, Values
<1>3. /\ lease[r].pc \in {"stop", "cancel", "close"} /\ Released(r, FALSE)
      /\ UNCHANGED <<hour, front, answer, permit, pending, meter, cleanup, shutdown, session,
                     applied, spent>>
  BY DEF StopUnconfirmed
<1>4. /\ meter' = [meter EXCEPT ![r] = meter[r]]
      /\ cleanup' = [cleanup EXCEPT ![r] = cleanup[r]]
  BY <1>1, <1>3 DEF Shaped
<1>5. /\ meter[r].free + meter[r].reserved + meter[r].spent = StatementLimit
      /\ cleanup[r] <= meter[r].reserved
  BY <1>1 DEF Kept, Metered
<1>6. lease[r].pc # "none"
  BY <1>3
<1>7. lease[r].commit = "sent" => front[r] = "ended"
  BY <1>3, Stopped
<1> QED
  BY <1>2, <1>3, <1>4, <1>5, <1>6, <1>7, Releasing

\* The provider ends a session it lost the client of.
LEMMA SessionEndsStep ==
    ASSUME StoreInv, NEW r \in Requests, SessionEnds(r)
    PROVE  StoreInv'
<1>1. Shaped /\ Kept(r) /\ ShutSoundly
  BY DEF StoreInv, Kept
<1>2. Shaped' /\ Elsewhere(r) /\ ShutSoundly'
  BY <1>1 DEF SessionEnds, Shaped, Elsewhere, ShutSoundly
<1>3. session'[r] = "none"
  BY <1>1 DEF SessionEnds, Shaped
<1>4. Kept(r)'
  BY <1>1, <1>3 DEF Kept, Metered, Funded, Covered, Committing, Listed, SessionEnds
<1> QED
  BY <1>2, <1>4, OneRequest

-----------------------------------------------------------------------------
(* Permits, shutdown and time *)

\* Permits go back only when nothing of the request is left unconfirmed.
LEMMA ReturnPermitsStep ==
    ASSUME StoreInv, NEW r \in Requests, ReturnPermits(r)
    PROVE  StoreInv'
<1>1. Shaped /\ Kept(r) /\ ShutSoundly
  BY DEF StoreInv, Kept
<1> DEFINE w == IF quarantine[r] THEN "retained" ELSE "returned"
<1>2. /\ permit' = [permit EXCEPT ![r] = w] /\ w \in {"returned", "retained"}
      /\ quarantine[r] => w = "retained"
      /\ front[r] = "ended" /\ lease[r].pc = "none"
      /\ UNCHANGED <<hour, front, answer, quarantine, pending, gate, meter, cleanup,
                     lease, registry, shutdown, session, applied, spent>>
  BY DEF ReturnPermits
<1> HIDE DEF w
<1>3. Shaped' /\ Elsewhere(r) /\ ShutSoundly'
  BY <1>1, <1>2 DEF Shaped, Elsewhere, ShutSoundly
<1>4. permit'[r] = w
  BY <1>1, <1>2 DEF Shaped
<1>5. Metered(r)' /\ Funded(r)' /\ Committing(r)' /\ Listed(r)'
  BY <1>1, <1>2 DEF Kept, Metered, Funded, Committing, Listed
<1>6. Covered(r)'
  BY <1>1, <1>2, <1>4 DEF Kept, Covered
<1> QED
  BY <1>3, <1>5, <1>6, OneRequest DEF Kept

\* Time, the closing of the registry and the end of the shutdown touch no request.
LEMMA WholeStep ==
    ASSUME StoreInv, Shaped', ShutSoundly',
           UNCHANGED <<front, answer, permit, quarantine, pending, gate, meter, cleanup,
                       lease, session, applied>>,
           registry'.active = registry.active, registry'.quarantined = registry.quarantined
    PROVE  StoreInv'
<1> SUFFICES ASSUME NEW p \in Requests PROVE Kept(p)'
  BY DEF StoreInv, Kept
<1>1. Kept(p)
  BY DEF StoreInv, Kept
<1> QED
  BY <1>1 DEF Kept, Metered, Funded, Covered, Committing, Listed

\* The registry closes; nothing begins after.
LEMMA CloseStep ==
    ASSUME StoreInv, Close
    PROVE  StoreInv'
<1>1. Shaped /\ ShutSoundly
  BY DEF StoreInv
<1>2. /\ registry'.active = registry.active /\ registry'.quarantined = registry.quarantined
      /\ registry'.closed
  BY <1>1 DEF Close, Shaped
<1>3. Shaped' /\ ShutSoundly'
  BY <1>1, <1>2 DEF Close, Shaped, ShutSoundly
<1> QED
  BY <1>2, <1>3, WholeStep DEF Close

\* A shutdown succeeds on an empty registry that remembers no failure.
LEMMA ShutDownStep ==
    ASSUME StoreInv, ShutDown
    PROVE  StoreInv'
<1>1. Shaped /\ ShutSoundly
  BY DEF StoreInv
<1>2. Shaped'
  BY <1>1 DEF ShutDown, Shaped
<1>3. ShutSoundly'
  BY <1>1 DEF ShutDown, Drained, ShutSoundly
<1> QED
  BY <1>2, <1>3, WholeStep DEF ShutDown

\* Deadlines pass.
LEMMA TickStep ==
    ASSUME StoreInv, NEW r \in Requests, Tick(r)
    PROVE  StoreInv'
<1>1. Shaped /\ ShutSoundly
  BY DEF StoreInv
<1>2. Shaped' /\ ShutSoundly'
  BY <1>1 DEF Tick, Shaped, ShutSoundly
<1> QED
  BY <1>2, WholeStep DEF Tick

-----------------------------------------------------------------------------
(* The theorems *)

\* Every step keeps the invariant.
LEMMA NextInv == StoreInv /\ [StoreNext]_storeVars => StoreInv'
<1> SUFFICES ASSUME StoreInv, [StoreNext]_storeVars PROVE StoreInv'
  OBVIOUS
<1>1. CASE UNCHANGED storeVars
  <2>1. Shaped' /\ ShutSoundly'
    BY <1>1 DEF StoreInv, storeVars, Shaped, ShutSoundly
  <2> QED
    BY <1>1, <2>1, WholeStep DEF storeVars
<1>2. ASSUME NEW r \in Requests, Stopping(r) PROVE StoreInv'
  BY <1>2, StopUnlockStep, StopCancelStep, StopConfirmedStep, StopUnstartedStep,
     StopUnconfirmedStep DEF Stopping
<1>3. ASSUME NEW r \in Requests, Opening(r) PROVE StoreInv'
  BY <1>3, DialStep, IdentifyStep, SetupStep, OpenFailsStep DEF Opening
<1>4. ASSUME NEW r \in Requests, Working(r) PROVE StoreInv'
  BY <1>4, AdmitStep, AdmitTimeoutStep, BeginStep, BeginRefusedStep, StatementStep,
     CommitUnsentStep, CommitSendStep, CommitAcknowledgedStep, CommitRefusedStep,
     CommitUncertainStep, RollbackStep, CancelStep, FinishStep DEF Working
<1> QED
  BY <1>1, <1>2, <1>3, <1>4, ReturnPermitsStep, ProviderCommitsStep, SessionEndsStep,
     TickStep, CloseStep, ShutDownStep DEF StoreNext

\* The invariant holds in every reachable state.
LEMMA Invariance == StoreSpec => []StoreInv
<1> QED
  BY InitInv, NextInv, PTL DEF StoreSpec

\* However requests are cancelled, timed out, refused or interleaved, provider
\* sessions are accounted for: a live session is covered by a permit, the units
\* set aside suffice for the longest stop, meters add up, and a shutdown that
\* reports success left nothing running (Drop for Admission, Drop for
\* ProviderLease, Control::stopped, Registry::shutdown).
THEOREM ProvidersStayAccounted == StoreSpec => []ProvidersAccounted
<1>1. ASSUME StoreInv PROVE ProvidersAccounted
  <2>1. Shaped /\ ShutSoundly /\ \A r \in Requests : Kept(r)
    BY <1>1 DEF StoreInv, Kept
  <2>2. StoreTypeOK
    <3>1. ASSUME NEW r \in Requests
          PROVE  /\ \A f \in Flags : lease[r][f] \in BOOLEAN
                 /\ \A f \in DOMAIN meter[r] : meter[r][f] \in Nat
      <4>1. lease[r] \in Leases /\ meter[r] \in Meters
        BY <2>1, Values
      <4> QED
        BY <4>1 DEF Flags, Leases, Meters
    <3>2. ASSUME NEW r \in Requests
          PROVE  /\ meter[r].free + meter[r].reserved + meter[r].spent = StatementLimit
                 /\ cleanup[r] <= meter[r].reserved
      BY <2>1 DEF Kept, Metered
    <3>3. registry.active \subseteq Requests
      BY <2>1 DEF Shaped
    <3> QED
      BY <2>1, <3>1, <3>2, <3>3, Values DEF StoreTypeOK
  <2>3. SessionsCovered
    <3> SUFFICES ASSUME NEW r \in Requests, session[r] = "live" PROVE r \in Held
      BY DEF SessionsCovered
    <3> QED
      BY <2>1, Values DEF Kept, Covered, Held
  <2>4. CleanupFunded
    <3> SUFFICES ASSUME NEW r \in Requests
                 PROVE  /\ lease[r].pc = "identify" => cleanup[r] >= 6 + 2 * Checks
                        /\ lease[r].pc = "stop" /\ lease[r].control =>
                               cleanup[r] >= 5 + 2 * Checks
                        /\ lease[r].pc = "cancel" => cleanup[r] >= 3 + 2 * Checks
                        /\ lease[r].pc = "close" => cleanup[r] >= 2 * Checks
      BY DEF CleanupFunded
    <3> QED
      BY <2>1 DEF Kept, Funded
  <2>5. ShutdownConfirmed
    <3> SUFFICES ASSUME shutdown = "stopped", NEW r \in Requests
                 PROVE  session[r] = "none" /\ lease[r].pc = "none"
      BY DEF ShutdownConfirmed
    <3> QED
      BY <2>1, Values DEF Kept, Covered, Listed, ShutSoundly
  <2> QED
    BY <2>2, <2>3, <2>4, <2>5 DEF ProvidersAccounted
<1> QED
  BY Invariance, <1>1, PTL

\* A client is told "ok" only of a COMMIT that took effect, and "busy" or
\* "rejected" only of one that did not and never will, at whatever await its
\* future was dropped (finish_commit, RequestError::deadline).
THEOREM ClientsAreToldTheTruth == StoreSpec => []AnswersHonest
<1>1. ASSUME StoreInv PROVE AnswersHonest
  BY <1>1 DEF StoreInv, Committing, AnswersHonest
<1> QED
  BY Invariance, <1>1, PTL
=============================================================================
