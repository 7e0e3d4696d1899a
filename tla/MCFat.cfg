CONSTANTS
  Names = {a, b}
  NoName = NoName
  Cluster = {root, c1, c2, c3}
  Root = root
  PerDir = 1
  MaxSize = 3
  MaxFaults = 2
SPECIFICATION Spec
SYMMETRY Symm
CONSTRAINT UntilSettled

INVARIANTS
  TypeOK
  NoDangling
  SingleOwner
  FreeCountExact
  NoneLost
  FsckExact
PROPERTIES
  RenameKeepsFile
  OthersUntouched
