\* A request of any shape, two chunks each way, next to an upgrade with a body of one chunk.
CONSTANTS
  r1 = r1
  r2 = r2
  Idle = Idle
  Requests = {r1, r2}
  Shapes <- MCShapes
  MaxBody <- MCBody
  MaxResp = 2
SPECIFICATION FairSpec
INVARIANTS WholeAnswer WholeBody
PROPERTIES OneAnswer ReaderFreed Answered
CHECK_DEADLOCK FALSE
