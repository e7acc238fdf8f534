SPECIFICATION SubmissionSpec
CONSTANTS
  Requests = {q1, q2}
  Forms = {f1, f2}
  Inputs = {i1, i2}
  Kinds = {"edit", "reply", "remove", "rotate"}
  TTL = 1
  TOLERANCE = 0
  PERSIST_LAG = 0
  RETENTION = 0
  DATABASE_CALLS = 16
  ATTEMPTS = 3
  MaxCount = 1
  MaxTime = 2
  MaxKeys = 2
  MaxRevision = 3
  MaxFaults = 1
  p1 = p1  p2 = p2  r1 = r1
  ProcOf <- MCProcOf
  Procs = {p1, p2}
  Readers = {r1}
  Limit = 2
  Keep = 2
  Second = 1
  Tolerance = 1
  Lag = 1
  Walls = {0, 2}
  MaxMono = 3
  MaxTicks = 2
  MaxDeployment = 2
  MaxClockFaults = 1
SYMMETRY Interchangeable
INVARIANTS
    SubmissionsSound
    AnswersHonest
    ClockSound
    StalenessBounded
    PublishedCommitted
PROPERTIES
    EditsCurrent
CHECK_DEADLOCK FALSE
