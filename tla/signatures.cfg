SPECIFICATION FairSpec
CONSTANTS
  p1 = p1
  p2 = p2
  k1 = k1
  k2 = k2
  s1 = s1
  e1 = e1
  NoOp = NoOp
  Preset = Preset
  All = All
  Peers <- OnePeer
  KeyGens <- None
  Signs <- OneSign
  EthSigns <- OneEthSign
  Remote <- OneSign
  Threshold = 1
  LastRound = 2
  Faults <- OneNode
CHECK_DEADLOCK FALSE
INVARIANTS
  OkMeansComplete
PROPERTIES
  ImplementsService
  OperationReturns
  LoopReturns
