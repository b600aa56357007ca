SPECIFICATION RSpec
CONSTANTS
  Words <- Bits
  PolySizes <- TwoSizes
  Hosts = {h1}
  HbmBase = 1
  MaxAddr = 1
  MaxGroup = 1
  Bases <- NoBases
  MaxOutputs = 1
  MaxGroups = 0
  MaxInNames = 0
  Eval <- FlipOrAdd
  CopyModulus = "copy"
  Moduli = {"q0", "q1"}
  MaxModuli = 1
  Targets = {"FUNC_SIM"}
  Toggles = {TRUE, FALSE}
  Uploads <- ZeroOrNothing
  Faults = {"init", "replay"}
  Arity = {1}
  AnyDst = TRUE
VIEW WithPromises
PROPERTIES
  RefusedWorkIsDelivered
