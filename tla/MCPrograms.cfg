CONSTANTS
  Parts = {"on", "messaging", "tail", "push", "poll", "stress", "soak"}
  None = None
  claude = claude
  shell = shell
  Runs = {r1, r2}
  MaxChanges = 3
  MaxCommands = 3
  MaxSignals = 2
  Agents = {a, b}
  Cids = {c, d}
  MaxMessages = 3
  MaxAttempts = 2
  Types = {"run", "message", "plugged"}
  Supported = {"run", "message"}
  Limit = 1
  MaxRows = 3
  MaxCalls = 3
  QueueMax = 2
  MaxRead = 3
  MaxEvents = 2
  MaxRequests = 2
  FRAMEWORK_ORDER <- TheOrder
  CliFrameworks = {claude}
  Sweep <- TheSweep
  MaxEmits = 3
  MaxCycles = 2
SPECIFICATION MCSpec
INVARIANTS
  OneCommandAtATime
  RequestsAreSafe
  InboxIsExact
  NothingLostSilently
  EtagNeverAhead
  PassIsEarned
  SeedIsForEveryDriver
  NoDaemonLeft
CHECK_DEADLOCK FALSE
