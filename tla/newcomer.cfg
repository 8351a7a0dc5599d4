SPECIFICATION Spec
CONSTANTS
  me = me
  p1 = p1
  r0 = r0
  r1 = r1
  NoOp = NoOp
  NoShare = NoShare
  Empty = Empty
  Me <- me
  Peers <- OnePeer
  Reshares <- Both
  Remote <- None
  Earlier <- Ended
  Threshold = 1
  Faults <- NoFaults
CHECK_DEADLOCK FALSE
INVARIANTS
  NewcomersServed
