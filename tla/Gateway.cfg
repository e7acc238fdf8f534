SPECIFICATION GatewaySpec
CONSTANTS
    ann = ann  bob = bob  cat = cat  code1 = code1  key1 = key1  a1 = a1  a2 = a2
    Nobody = Nobody
    Calls = {1, 2}
    Ids = {1, 2, 3}
    Logins = {bob}
    FirstLogin = ann
    Codes = {code1}
    Nonces = {1, 2}
    Traffic <- MCTraffic
    REQUESTS = 4
    DATABASE = 4
    SESSION_SHARE = 1
    RESERVE = 50
    ARGON2 = 1
    ARGON2_PER_MINUTE = 2
    PER_CIRCUIT = 1
    TABLE_CAPACITY = 2
    CIRCUIT_START = 2
    CIRCUIT_CAPACITY = 3
    CIRCUIT_REFILL = 1
    COST <- MCCost
    LAST_TICK = 3
    SESSION_TTL = 1
    INVITE_TTL = 1
    MAX_ROLES = 1
    REGISTRATION = "Invite"
    MaxEvents = 4
    Attempts = {a1, a2}
    Offers <- MCOffers
    Anonymous = Anonymous
    Anybody = Anybody
    Single = Single
    NoWorker = NoWorker
    Concurrencies = {1, 2}
    WARM_WORKERS = 1
    RETIRE_AFTER = 2
    HOST_CALLS = 1
    MaxStarts <- MCMaxStarts
    MaxMade <- MCMaxMade
    e1 = e1  e2 = e2  e3 = e3
    b1 = b1  b2 = b2  b3 = b3
    t1 = t1  t2 = t2  s1 = s1
    d1 = d1  d2 = d2  w1 = w1  w2 = w2  w3 = w3
    NoEffect = NoEffect
    NoSlot = NoSlot
    HomeDir = d1
    EndpointOf <- MCEndpointOf
    TenantOf <- MCTenantOf
    SlotOf <- MCSlotOf
    HomeOf <- MCHomeOf
    Backoff <- MCBackoff
    Effects = {e1, e2}
    Endpoints = {b1, b2}
    Tenants = {t1, t2}
    Slots = {}
    Dirs = {d1}
    Workers = {w1}
    MaxAttempts = 1
    Lease = 1
    Window = 1
    RetryAfter = {}
    AppLimit = 1
    TenantLimit = 1
    Concurrency = 1
    Failures = {}
    MaxTime = 3
    MaxVersion = 1
    MaxEpoch = 1
    MaxRound = 1
    MaxInterruptions = 0
SYMMETRY Alike
INVARIANTS
    LimitsKept
    WorkerIsolated
    PoolSound
    QuotaRespected
PROPERTIES
    RevokedNeverServed
CHECK_DEADLOCK FALSE
