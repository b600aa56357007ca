SPECIFICATION Spec
CONSTANTS
  RingDim = 1
  BridgeDims = {1, 2}
  Shapes <- PlainOrMixed
  Unbound = "copy"
  Names = {"haze", "other"}
  Dirs = {"run"}
  PinAnytime = TRUE
  Faults = {}
  MaxInputs = 1
  MaxOutputs = 1
PROPERTIES
  ProjectIsWhole
