SPECIFICATION Spec
CONSTANTS
  Scores <- AllScores
  Statements <- Uses
  Builtins = {"print"}
  MAXSTACK = 6
  MAXDISPARGS = 3
  MaxSteps = 2
INVARIANTS
  NoStaleSymbol
