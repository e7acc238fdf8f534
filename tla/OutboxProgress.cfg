SPECIFICATION FairSpec
CONSTANTS
    e1 = e1  e2 = e2  e3 = e3
    b1 = b1  b2 = b2  b3 = b3
    t1 = t1  t2 = t2  s1 = s1
    d1 = d1  d2 = d2  w1 = w1  w2 = w2  w3 = w3
    NoEffect = NoEffect
    NoSlot = NoSlot
    HomeDir = d1
    EndpointOf <- MCEndpointOf
    TenantOf <- MCTenantOf
    SlotOf <- MCSlotOf
    HomeOf <- MCHomeOf
    Backoff <- MCBackoff
    Effects = {e1}
    Endpoints = {b1}
    Tenants = {t1}
    Slots = {}
    Dirs = {d1}
    Workers = {w1, w2}
    MaxAttempts = 2
    Lease = 1
    Window = 2
    RetryAfter = {2}
    AppLimit = 1
    TenantLimit = 1
    Concurrency = 2
    Failures = {"commit", "exit"}
    MaxTime = 5
    MaxVersion = 2
    MaxEpoch = 1
    MaxRound = 1
    MaxInterruptions = 1
INVARIANTS
    SendsWithinAllowance
    OneSlotPerCapture
PROPERTIES
    Settles
CHECK_DEADLOCK FALSE
