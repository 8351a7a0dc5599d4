SPECIFICATION FairSpec
CONSTANTS
  me = me
  p1 = p1
  r0 = r0
  r1 = r1
  NoOp = NoOp
  NoShare = NoShare
  Empty = Empty
  Me <- me
  Peers <- OnePeer
  Reshares <- Both
  Remote <- Joined
  Earlier <- Ended
  Threshold = 1
  Faults <- Addressed
CHECK_DEADLOCK FALSE
CONSTRAINT LateAlone
INVARIANTS
  TypeOK
  OkMeansReshared
  OnlyLastRoundUnsent
  DrainsAfterDone
PROPERTIES
  ShareReplacedLast
  ReshareReturns
