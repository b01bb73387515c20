CONSTANTS
  Pids = {p1, p2}
  UnitPid = p1
  NoPid = NoPid
  Retries = 1
  Interval = 1
  RestartSec = 1
  LimitInterval = 3
  LimitBurst = 3
  Happenings <- AllEvents
  MaxHappenings = 2
SPECIFICATION FairSpec
INVARIANTS PatientInv OneDaemon LoopIsReachable NothingLeftBehind MouseNeverLimits KilledStaysDown
PROPERTIES MouseIsServed LoserGivesUp
CHECK_DEADLOCK FALSE
