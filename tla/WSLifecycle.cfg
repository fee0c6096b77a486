\* Three successful dials, two slots for the reconnect loop.
CONSTANTS
  MaxDials = 3
  l1 = l1
  l2 = l2
  Loops = {l1, l2}
  Owner = owner
SPECIFICATION FairSpec
INVARIANTS SingleLoop Watched
PROPERTIES OwnedLink CloseFinishes DeadReplaced
CHECK_DEADLOCK FALSE
