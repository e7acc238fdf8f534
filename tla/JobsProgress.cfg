SPECIFICATION FairSpec
CONSTANTS
    j1 = j1  j2 = j2  j3 = j3
    s1 = s1  s2 = s2  t1 = t1  t2 = t2
    h1 = h1  h2 = h2  w1 = w1  w2 = w2  w3 = w3
    NoJob = NoJob
    ServiceOf <- MCServiceOf
    TenantOf <- MCTenantOf
    HostOf <- MCHostOf
    Backoff <- MCBackoff
    Jobs = {j1, j2}
    Services = {s1, s2}
    Tenants = {t1, t2}
    Hosts = {h1}
    Workers = {w1}
    MaxAttempts = 2
    MaxTries = 2
    Lease = 1
    Window = 3
    Jitter = {0}
    Delays = {0}
    PendingLimit = 2
    TenantLimit = 1
    Concurrency = 1
    MaxTime = 5
    MaxVersion = 1
    MaxEpoch = 1
    MaxInterruptions = 1
INVARIANTS
    RunningWithinConcurrency
    AttemptsBounded
PROPERTIES
    JobSettles
CHECK_DEADLOCK FALSE
