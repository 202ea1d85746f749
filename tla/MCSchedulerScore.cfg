CONSTANTS
  i1 = i1  i2 = i2
  Insts <- TwoInsts
  FrameCount = 2
  PlayOrder <- ThreeQueues
  Slots <- StereoSlots
  StartTimes = {0, 3}
  Durations = {0, 2, 5}
  MaxSlices = 4
  INTERACTIVE = FALSE
  Builds = {"single"}
  Timely = {"single"}
  Faults = {"setup", "configure", "cut", "device", "shutdown"}
SPECIFICATION FairSpec
INVARIANTS TypeOK AliveWhileHeld SamplesOnTime EndsWhenAllPlayed
PROPERTIES ScoreIsPlayed
