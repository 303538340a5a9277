SPECIFICATION FairSpec
CONSTANTS
  r1 = r1
  r2 = r2
  open = open
  done = done
  hidden = hidden
  s1 = s1
  s2 = s2
  Absent = Absent
  Offline = Offline
  Nodes = {n1, n2}
  Rows = {r1, r2}
  Values = {open, done, hidden}
  Batches <- MCTwoRows
  MaxWrites = 2
  Subs = {s1}
  Filter <- MCFilter
  Readable <- MCReadable
  PrevKnown = {TRUE, FALSE}
  MaxDrops = 1
  MaxFailures = 1
CHECK_DEADLOCK FALSE
INVARIANTS
  TypeOK
  ReplicasAgree
  FeedIsComplete
PROPERTIES
  SubscribesAreSettled
