CONSTANTS
  Profiles <- MCProfiles
  Notches <- MCNotches
  Gaps <- MCGaps
  Steps = {40}
  Leaps = {51}
  MaxTime = 103
  MaxCount = 8
  MaxBehind = 40
  MaxAhead = 51
SPECIFICATION Spec
INVARIANTS IInv Responsive
PROPERTIES NoGhostTicksYet TicksAreSpaced NoBounce
CHECK_DEADLOCK FALSE
