SPECIFICATION FairSpec
CONSTANTS
  n1 = n1
  n2 = n2
  Nodes = {n1, n2}
  Conns = {c1, c2}
  Home <- MCHome
  Rooms = {room}
  Mortal = {n1}
  MaxWrites = 3
  MaxWire = 3
INVARIANTS
  TypeOK
  ReplicaIsPast
PROPERTIES
  NothingComesBack
  GoneIsForgotten
  OpenIsListed
CHECK_DEADLOCK FALSE
