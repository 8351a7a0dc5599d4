SPECIFICATION FairSpec
CONSTANTS
  a = a
  b = b
  c = c
  NoStream = NoStream
  Nodes <- ThreeNodes
  Adds <- Pair
  Faults <- AnyFault
CHECK_DEADLOCK FALSE
INVARIANTS
  TypeOK
  Mesh
  PartyKnown
  Symmetric
  NoDeadPeer
PROPERTIES
  Settles
