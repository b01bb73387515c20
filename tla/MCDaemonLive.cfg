CONSTANTS
  Conns = {c1}
  MaxEvents = 3
  MaxClients = 1
  RecvBuf = 1
  MaxWire = 2
  MaxConfig = 1
  MaxRules = 2
  Signals = {"TERM", "HUP"}
  MouseEvents = {"moved", "gone"}
  Commands = {"get", "reload", "quit"}
SPECIFICATION FairSpec
PROPERTIES OneResponse SlotsComeFree QuitEnds
CHECK_DEADLOCK FALSE
