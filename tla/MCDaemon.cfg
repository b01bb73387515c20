CONSTANTS
  Conns = {c1, c2}
  MaxEvents = 2
  MaxClients = 2
  RecvBuf = 1
  MaxWire = 2
  MaxConfig = 2
  MaxRules = 1
  Signals = {"HUP"}
  MouseEvents = {}
  Commands = {"get", "reload", "quit"}
SPECIFICATION Spec
SYMMETRY Symmetry
INVARIANTS IInv SlotsAreConnections AckGoesToRequester DoneMeansLive RepliesMatch
CHECK_DEADLOCK FALSE
