SPECIFICATION FairSpec
CONSTANTS
  a = a
  b = b
  m1 = m1
  m2 = m2
  m3 = m3
  NoCall = NoCall
  Ends <- TwoEnds
  Calls <- ThreeCalls
  From <- Sender
  Size <- Length
  Window = 2
  Faults <- FaultNames
CHECK_DEADLOCK FALSE
INVARIANTS
  TypeOK
  FramesWhole
  SentArrives
PROPERTIES
  ImplementsChannel
  SendReturns
  BothForget
