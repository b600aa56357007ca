SPECIFICATION Spec
CONSTANTS
  Addrs = {a1, a2, a3}
  Bases <- TwoAndThree
  MaxOutputs = 4
  MaxGroups = 2
SYMMETRY Symmetry
INVARIANTS
  TypeOK
  Lockstep
  OneGroupPerAddr
  FlushResolves
  OutputNamesUnique
  LatestWriteWins
PROPERTIES
  OutputTagsKept
  ExportKept
