CONSTANTS
  Profiles <- OneProfile
  Notches <- MCNotches
  Gaps <- ClockGaps
  Steps = {8, 40}
  Leaps = {}
  MaxTime = 100
  MaxCount = 6
  MaxBehind = 40
  MaxAhead = 0
SPECIFICATION Spec
PROPERTIES NoGhostTicks
CHECK_DEADLOCK FALSE
