CONSTANTS
  Parts = {"store"}
  None = None
  Torn = Torn
  Nil = Nil
  NoDelivery = NoDelivery
  n1 = n1
  v1 = v1
  v2 = v2
  Procs = {p1, p2}
  MaxEvents = 2
  MaxStarts = 3
  Deliveries = {d1, d2}
  Threads = {h1, h2}
  TestWorkers = {w1, w2}
  Controller = ctl
  Tests = {t1}
  MaxSends = 3
  Names = {n1}
  Builtins = {}
  BuiltinTypes = {"t"}
  Publishers = {v1, v2}
  Wheels <- TheWheels
  Policies <- ThePolicies
  Daemons = {daemon}
  Verbs = {verb}
  Operators = {op}
  MaxWalks = 2
  MaxCommands = 2
  MaxInstalls = 1
  MaxEdits = 1
  Supervisors = {s1, s2}
  Components = {listener}
  MaxLaunches = 2
  MaxTicks = 1
  Threshold = 1
  MaxTime = 4
  MaxKills = 1
SPECIFICATION MCSpec
INVARIANTS
  RecordedIsDone
CHECK_DEADLOCK FALSE
