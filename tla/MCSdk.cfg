CONSTANTS
  None = None
  run1 = run1
  QUEUE_MAXSIZE = 2
  MaxEvents = 5
  Entity = {run1}
  NoEntity = None
  MaxRows = 4
  MaxSessions = 3
  Calls <- TheCalls
  Frames <- TheFrames
  MaxFrames = 3
SPECIFICATION MCSpec
INVARIANTS
  YieldsTheStream
  FaithfulResume
  CoalescedResume
  AnswerIsFirst
PROPERTIES
  IterationEnds
  DeadlineEnds
CHECK_DEADLOCK FALSE
