SPECIFICATION FairSpec
CONSTANTS
  home = home
  away = away
  Schedules = {a}
  Ticks = {k1, k2}
  Editors = {e1}
  Zones = {home, away}
  Fires <- MCFires
  Keys = {0, 1, 2}
  Key <- MCKey
  Policies <- MCPolicies
  Window = 0
  Triggers = {x}
  Mortal = {k1}
  MaxTime = 2
  MaxEdits = 1
INVARIANTS
  TypeOK
  OccurrencesOnce
  NothingMissed
PROPERTIES
  PausedStaysQuiet
  SkipsWhileActive
  DueSchedulesAdvance
CHECK_DEADLOCK FALSE
