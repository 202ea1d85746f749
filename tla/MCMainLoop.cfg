CONSTANTS
  Modes = {"score", "sockit", "osc"}
  Kinds = {"hw", "file"}
  Offsets = {0, 1}
  ScoreLength = 2
  MaxCommands = 4
  Signals = TRUE
SPECIFICATION Spec
CHECK_DEADLOCK FALSE
INVARIANTS TypeOK DeviceOutlivesThread DeletedIsClosed
PROPERTIES ShutdownEndsSession ScoreRunsToEnd
