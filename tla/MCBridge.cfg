SPECIFICATION Spec
CONSTANTS
  RingDim = 1
  BridgeDims = {1, 2}
  Shapes <- PlainOrMixed
  Unbound = "copy"
  Names = {"haze", "other"}
  Dirs = {"run"}
  PinAnytime = FALSE
  Faults = {"build", "stop", "write", "replay", "result", "decode", "wipe", "crash"}
  MaxInputs = 2
  MaxOutputs = 1
VIEW WithoutLast
PROPERTIES
  BlamesThisLifetime
  ProjectIsWhole
  ResultsAreOfThisLifetime
  
