SPECIFICATION Spec
CONSTANTS
    Requests = {1}
    Capacity = 1
    StatementLimit = 80
    POSTGRES_CLEANUP = 40
    Checks = 16
    Looks = {1, 16}
    MaxStatements = 2
    MaxTransactions = 3
    None = None
    OpenKey = OpenKey
    ShutKey = ShutKey
    Term = t1
    Texts = {t1, t2}
    User = User
    Manifests <- MCManifests
    Paths <- MCPaths
    Times = {5}
    LOW <- MCLow
    HIGH = 6
    MAX_EXPRESSION_NODES = 64
    MAX_EXPRESSION_DEPTH = 8
    MAX_GUARDS = 8
    MAX_STEPS = 4
    MAX_CREATES = 2
    Nil = Nil
    Lists <- MCLists
    Aggregates <- MCAggregates
    Principals <- MCPrincipals
    Profiles <- MCProfiles
    Tables <- MCTables
    MAX_ROWS = 5
    MAX_EDITS = 1
    STREAM_WIDTH = 2
    WINDOW_CAP = 6
    SCAN_ALLOWANCE = 6
    RESULT_BYTES = 3
    MAX_SUM = 5
    MAX_EXPANDED_INSTANCES = 5
    MAX_EXPANDED_COMPONENT_BYTES = 8
    MAX_COMPONENT_DEPTH = 3
    MAX_FUNCTIONS = 2
    Lengths = {1, 2}
    MaxPayloads = 7
INVARIANTS
    ProvidersAccounted
    AnswersHonest
    AdmissionSound
    InferenceDisclosed
    ListsSound
    ExpansionExact
PROPERTIES
    LeaseEnds
    AnswersExact
CHECK_DEADLOCK FALSE
