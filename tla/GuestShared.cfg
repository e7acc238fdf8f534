SPECIFICATION GuestsSpec
CONSTANTS
    Attempts = {a1, a2}
    a1 = a1
    a2 = a2
    Offers <- MCPublicOffers
    key1 = key1
    Anonymous = Anonymous
    Anybody = Anybody
    Single = Single
    NoWorker = NoWorker
    Concurrencies = {1, 2}
    WARM_WORKERS = 1
    RETIRE_AFTER = 2
    HOST_CALLS = 1
    MaxStarts <- MCMaxStarts
    MaxMade <- MCMaxMade
INVARIANT SubmissionsAlone
SYMMETRY Alike
CHECK_DEADLOCK FALSE
