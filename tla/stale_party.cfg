SPECIFICATION Spec
CONSTANTS
  a = a
  b = b
  c = c
  k = k
  r = r
  s = s
  NoOp = NoOp
  NoKey = NoKey
  Absent = Absent
  Nodes <- TwoNodes
  Network <- TwoNodes
  KeyGens <- None
  Reshares <- OneReshare
  Signs <- OneSign
  Callers <- OneNode
  Threshold = 1
  Deadlines = 0
CHECK_DEADLOCK FALSE
INVARIANTS
  SignersFindThemselves
