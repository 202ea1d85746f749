CONSTANTS
  i1 = i1  i2 = i2  i3 = i3  i4 = i4  i5 = i5  i6 = i6
  Insts <- SixInsts
  Starts = {0, 1, 2, 3}
  FrameCount = 2
  MaxSlices = 2
  Parsers = {parser}
  Audio = audio
  None = None
SPECIFICATION Spec
SYMMETRY InstSymmetry
INVARIANTS TypeOK LeavesAreFrontier HeapOrder
PROPERTY ImplementsPriorityQueue
