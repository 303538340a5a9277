SPECIFICATION Spec
CONSTANTS
  n1 = n1
  c1 = c1
  c2 = c2
  NoConn = NoConn
  NoRoom = NoRoom
  NoDescriptor = NoDescriptor
  Nodes = {n1}
  Conns = {c1, c2}
  NodeOf <- MCNodeOf
  Rooms = {r1}
  Beating = {n1}
  MaxMoves <- MCMoves
INVARIANTS
  ClosedIsNotListed
CHECK_DEADLOCK FALSE
