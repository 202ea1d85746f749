SPECIFICATION Spec
CONSTANTS
  Scores <- AllScores
  Statements <- Uses
  Builtins = {"print"}
  MAXSTACK = 6
  MAXDISPARGS = 3
  MaxSteps = 4
INVARIANTS
  StaticsBalanced
  ReturnIsLast
PROPERTIES
  SharingUnseen
  CallsAddNoGlobal
