CONSTANTS
  A = A  B = B
  BusCount = 8
  NCHANS = 2
  Names = {A}
  ModeSlots <- ChainScore
  NoSlot = NoSlot
  MaxCalls <- EightCalls
SPECIFICATION Spec
INVARIANTS EveryBusPlayed
CHECK_DEADLOCK FALSE
