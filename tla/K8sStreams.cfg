\* One id, used for two streams, with two data messages and a queue of one.
CONSTANTS
  a = a
  Ids = {a}
  MaxStreams = 2
  MaxData = 2
  ChanCap = 1
SPECIFICATION FairSpec
INVARIANTS EndsOnce NothingLeft DataFindsStream InOrder
PROPERTIES EndWindsUp
CHECK_DEADLOCK FALSE
