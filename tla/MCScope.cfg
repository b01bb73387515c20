CONSTANTS
  w1 = w1
  w2 = w2
  w3 = w3
  a = a
  b = b
  Windows = {w1, w2, w3}
  Apps = {a, b}
  AppAtStart <- MCAppAtStart
  MaxWindows = 2
  Attempts = 2
  Offered = {"hypr", "kwin", "wayland", "x11"}
  MaxChanges = 2
SPECIFICATION FairSpec
INVARIANTS TypeOK HashIsFocus SlotsAreWindows
PROPERTIES NameNotOlder FocusArrives StopJoins
CHECK_DEADLOCK FALSE
