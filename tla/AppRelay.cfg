\* One stream, two frames for a channel of one, two replies, heartbeat on.
CONSTANTS
  a = a
  Streams = {a}
  ChannelCapacity = 1
  Pings = TRUE
  MaxMissedPongs = 2
  FramesPerStream = 2
  RepliesPerStream = 2
  FramesOf <- MCFramesOf
  RepliesOf <- MCRepliesOf
SPECIFICATION FairRelaySpec
PROPERTIES OneLife Unwinds SilenceEnds
CHECK_DEADLOCK FALSE
