CONSTANTS
  e1 = e1
  e2 = e2
  e3 = e3
  Event = {e1, e3}
  Producer = {p1}
  Sub = {s1}
  Filter <- Everything
  SWEEP_LIMIT = 1
  REPLAY_LIMIT = 2
  LAG_LIMIT = 2
  PRE_ACK_BUFFER_FRAMES = 1
  SNDBUF = 1
  BACKLOG = 1
  MaxBatch = 2
  MaxBeats = 0
SPECIFICATION LiveSpec
PROPERTIES
  RungRowsAreSwept
CHECK_DEADLOCK FALSE
