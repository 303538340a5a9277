SPECIFICATION FairSpec
CONSTANTS
  n1 = n1
  n2 = n2
  k1 = k1
  k2 = k2
  NoSlot = NoSlot
  NoRun = NoRun
  NoWrite = NoWrite
  NoNode = NoNode
  Jobs = {j1, j2}
  Slots = {s1}
  Nodes = {n1, n2}
  Mortal = {n1}
  Ticks = {k1, k2}
  TickNode <- MCTickNode
  Cancellers = {}
  MaxAttempts = 1
  MaxBeats = 0
PROPERTIES
  ExpiredLeaseIsTaken
