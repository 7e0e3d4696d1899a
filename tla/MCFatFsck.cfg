CONSTANTS
  Names = {a, b}
  NoName = NoName
  Cluster = {root, c1, c2}
  Root = root
  PerDir = 2
  MaxSize = 1
  MaxFaults = 1
SPECIFICATION Spec
SYMMETRY Symm
INVARIANT CleanHasNoBadChain
