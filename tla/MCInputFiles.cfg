CONSTANTS
  i1 = i1  i2 = i2  i3 = i3
  stereo = stereo  mono = mono  nine = nine  missing = missing
  AUDIO = AUDIO  NoName = NoName
  Insts <- ThreeInsts
  Names <- FiveNames
  FileChans <- Channels
  max_input_fds = 2
  MAXCHANS = 8
  Hosts <- AllHosts
SPECIFICATION Spec
SYMMETRY InstSymmetry
CHECK_DEADLOCK FALSE
INVARIANTS ReferencesAreExact ReaderKeepsItsFile
