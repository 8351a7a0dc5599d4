SPECIFICATION Spec
CONSTANTS
  a = a
  b = b
  c = c
  k = k
  r = r
  s = s
  NoOp = NoOp
  NoKey = NoKey
  Absent = Absent
  Nodes <- ThreeNodes
  Network <- TwoNodes
  KeyGens <- OneKeyGen
  Reshares <- OneReshare
  Signs <- OneSign
  Callers <- OneNode
  Threshold = 1
  Deadlines = 1
CHECK_DEADLOCK FALSE
INVARIANTS
  TypeOK
  
  
  
