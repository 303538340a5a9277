SPECIFICATION Spec
CONSTANTS
  r1 = r1
  r2 = r2
  open = open
  done = done
  hidden = hidden
  s1 = s1
  s2 = s2
  Absent = Absent
  Offline = Offline
  Nodes = {n1}
  Rows = {r1}
  Values = {open, done}
  Batches <- MCOneRow
  MaxWrites = 2
  Subs = {s1}
  Filter <- MCFilter
  Readable <- MCReadable
  PrevKnown = {TRUE}
  MaxDrops = 1
  MaxFailures = 0
CHECK_DEADLOCK FALSE
INVARIANTS
  LiveRowsAreCurrent
