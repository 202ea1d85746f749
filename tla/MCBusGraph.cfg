CONSTANTS
  A = A  B = B
  BusCount = 8
  NCHANS = 2
  Names = {A}
  ModeSlots <- ScoreAndSession
  NoSlot = NoSlot
  MaxCalls <- ThreeOrTwoCalls
SPECIFICATION Spec
INVARIANTS TypeOK NoFeedback LoopCheckIsExact WalkStaysInList EveryBusPlayed
           NoBusPlayedTwice WritersFirstIfGraded
CHECK_DEADLOCK FALSE
