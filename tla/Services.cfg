SPECIFICATION Spec
CONSTANTS
  None = None
  Subs = {s1, s2}
  Urls = {u1}
  Dispatchers = {d1, d2}
  Registrars = {r1}
  MaxRetries = 2
  MaxFailedDeliveries = 3
  MaxEvents = 3
  Events = {e1}
  Workers = {w1}
  MaxBatch = 2
  MaxAttempts = 2
  MaxDeliveries = 2
  MaxMessages = 3
  Tokens = {t1, t2}
  Processes = {p1, p2}
  Second = 2
  MaxClock = 2
  MaxRequests = 3
  Requests = {q1, q2}
  Execs = {x1}
  Nodes = {n1, n2}
  Priced = {n1, n2}
  Settlers = {s1, s2}
  Tasks = {t1}
  Executions = {x1, x2}
  Cancellers = {c1, c2}
  Servers = {v1}
  Jobs = {j1}
  MaxFailedCalls = 4
  Callers = {k1, k2, k3}
  FailureThreshold = 2
  HalfOpenMaxCalls = 2
  MaxRecordedFailures = 3
  Readers = {r1, r2}
  Values = {a1, a2, a3}
  Codes = {g1}
  Pairs = {p1, p2, p3}
  Exchanges = {x1, x2}
  Sessions = {h1, h2}
  MaxClaims = 3
  Inputs = {i1, i2}
  Contents = {k1, k2}
  Small = {k1}
  MaxBytes = 2
  WarmSize = 1
  PromoteAfter = 1
  Publishers = {b1}
  Getters = {g1, g2}
  MaxGets = 4
  Verifiers = {v1, v2}
  Chunks = {"plain", "vague", "unsafe"}
  MaxChunks = 3
  MaxFaults = 1
  MaxVerifies = 2
  Verifications = {v1, v2}
  MaxJobs = 3
  Projects = {j1, j2}
  Publishes = {p1, p2}
  MaxPublishes = 3
  Hooks = {h1, h2}
  Fans = {f1, f2}
  Registrations = {r1, r2}
  MaxHookFailures = 2
  MaxFans = 3
  MaxRegisters = 2
  Feed = {f1, f2}
  Scoped = {g1}
  Broadcasts = {b1, b2}
  MaxViewers = 1
  MaxReconnects = 2
  MaxSockets = 4
  Keys = {k1, k2}
  Limit = 2
  Window = 2
  CleanupEvery = 3
  StaleAfter = 3
  MaxNow = 6
  MaxCount = 3
CHECK_DEADLOCK FALSE
INVARIANTS TypeOK PausedHadFailures NothingLost VerdictsAreRight SettledMeansPaid OutcomeMatchesPayment LimitsHold
PROPERTIES WorkEnds
