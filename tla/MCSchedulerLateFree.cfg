CONSTANTS
  i1 = i1  i2 = i2
  Insts <- TwoInsts
  FrameCount = 2
  PlayOrder <- TwoQueues
  Slots <- TwoSlots
  StartTimes = {0}
  Durations = {2, 6}
  MaxSlices = 6
  INTERACTIVE = TRUE
  Builds = {"single"}
  Timely = {}
  Faults = {}
SPECIFICATION Spec
INVARIANT HeldIsAlive
