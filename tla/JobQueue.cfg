SPECIFICATION Spec
SYMMETRY SlotSymmetry
CONSTANTS
    j1 = j1  j2 = j2  j3 = j3
    s1 = s1  s2 = s2  t1 = t1  t2 = t2
    h1 = h1  h2 = h2  w1 = w1  w2 = w2  w3 = w3
    NoJob = NoJob
    ServiceOf <- MCServiceOf
    TenantOf <- MCTenantOf
    HostOf <- MCHostOf
    Backoff <- MCBackoff
    Jobs = {j1, j3}
    Services = {s1}
    Tenants = {t1}
    Hosts = {h1}
    Workers = {w1, w2}
    MaxAttempts = 2
    MaxTries = 1
    Lease = 1
    Window = 2
    Jitter = {0}
    Delays = {0}
    PendingLimit = 2
    TenantLimit = 1
    Concurrency = 2
    MaxTime = 4
    MaxVersion = 2
    MaxEpoch = 2
    MaxInterruptions = 1
INVARIANTS
    StoredSound
    EnvelopeCurrent
    JobQuotaRespected
PROPERTIES
    JobLifecycleSpec
CHECK_DEADLOCK FALSE
