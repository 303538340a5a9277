SPECIFICATION Spec
CONSTANTS
  n1 = n1
  n2 = n2
  k1 = k1
  k2 = k2
  NoSlot = NoSlot
  NoRun = NoRun
  NoWrite = NoWrite
  NoNode = NoNode
  Jobs = {j1}
  Slots = {s1}
  Nodes = {n1, n2}
  Mortal = {}
  Ticks = {k1, k2}
  TickNode <- MCTickNode
  Cancellers = {x1}
  MaxAttempts = 1
  MaxBeats = 1
PROPERTIES
  CancelIsKept
