\* Two tunnels and one slot, a chunk of the client's and two replies.
CONSTANTS
  a = a
  b = b
  Conns = {a, b}
  MaxConns = 1
  Chunks = 1
  DataOf <- MCDataOf
  RepliesOf <- MCRepliesOf
SPECIFICATION FairSpec
INVARIANTS Listed
PROPERTIES OneLife EndTold Unwinds
CHECK_DEADLOCK FALSE
