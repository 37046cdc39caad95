CONSTANTS
  Parts = {"fs", "docker", "monitor", "tx"}
  a = a
  b = b
  c = c
  None = None
  sha1 = sha1
  sha2 = sha2
  job1 = job1
  Save = {a, b, c}
  FloatMaxExp = 1
  MaxEvents = 3
  MaxSec = 2
  Watched = 2
  Shas = {sha1, sha2}
  Jobs = {job1}
  MaxRows = 3
  MaxNotices = 4
  Size = {1, 3}
  REJECT = 2
  SNDBUF = 2
  LAG_LIMIT = 3
  Transient = FALSE
  MaxFrames = 4
SPECIFICATION MCSpec
INVARIANTS
  SavesAreAccountedFor
  SavesSurviveStop
  WindowIsReplayed
  WireIsExact
PROPERTIES
  SavesReachTheTable
  StopEnds
  DoneIsDecided
  ImplementsChannel
  QueueFlushes
CHECK_DEADLOCK FALSE
