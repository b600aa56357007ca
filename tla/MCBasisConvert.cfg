SPECIFICATION ConvertSpec
CONSTANTS
  Words <- Bits
  PolySizes <- OneSize
  Hosts = {}
  HbmBase = 1
  MaxAddr = 6
  MaxGroup = 6
  Bases <- StoredBases
  MaxOutputs = 6
  MaxGroups = 3
  MaxInNames = 20
  Eval <- FlipOrAdd
  CopyModulus = "copy"
  Moduli = {}
  MaxModuli = 0
  Targets = {}
  Toggles = {}
  Uploads <- Ones
  Faults = {}
  Arity = {1}
  AnyDst = TRUE
  Lift <- Skew
  BasisConverts <- Converts
  ModDowns <- Downs
  ModUps <- Ups
  Inputs <- Sources
  Tagged = {1}
VIEW WithoutInputNames
INVARIANTS
  BindingsAreCurrent
  DigitsAreGroups
  RescaleKeepsExport
