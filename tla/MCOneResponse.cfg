CONSTANTS
  Conns = {c1, c2}
  MaxEvents = 3
  MaxClients = 2
  RecvBuf = 1
  MaxWire = 1
  MaxConfig = 1
  MaxRules = 1
  Signals = {}
  MouseEvents = {}
  Commands = {"reload"}
SPECIFICATION FairSpec
PROPERTIES OneResponse
CHECK_DEADLOCK FALSE
