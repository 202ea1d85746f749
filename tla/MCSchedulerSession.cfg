CONSTANTS
  i1 = i1  i2 = i2
  Insts <- TwoInsts
  FrameCount = 2
  PlayOrder <- TwoQueues
  Slots <- TwoSlots
  StartTimes = {0, 1}
  Durations = {1, 4}
  MaxSlices = 4
  INTERACTIVE = TRUE
  Builds = {"single", "multi"}
  Timely = {"single"}
  Faults = {"configure", "cut", "panic", "shutdown"}
SPECIFICATION Spec
SYMMETRY InstSymmetry
INVARIANTS AliveWhileHeld SamplesOnTime NoteNeverOverrun BusesInLockstep
