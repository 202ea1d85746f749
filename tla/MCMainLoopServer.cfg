CONSTANTS
  Modes = {"osc"}
  Kinds = {"hw"}
  Offsets = {0}
  ScoreLength = 2
  MaxCommands = 3
  Signals = FALSE
SPECIFICATION Spec
CHECK_DEADLOCK FALSE
INVARIANTS ServerLoopsUntilKilled
