SPECIFICATION Spec
CONSTANTS
  p1 = p1
  p2 = p2
  k1 = k1
  k2 = k2
  s1 = s1
  e1 = e1
  NoOp = NoOp
  Preset = Preset
  All = All
  Peers <- OnePeer
  KeyGens <- TwoKeyGens
  Signs <- None
  EthSigns <- None
  Remote <- OneKeyGen
  Threshold = 1
  LastRound = 1
  Faults <- NoFaults
CHECK_DEADLOCK FALSE
INVARIANTS
  NoNilParty
