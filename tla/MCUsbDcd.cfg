SPECIFICATION Spec
CONSTANTS
  Tags = 7
  MaxReq = 3
  MaxGlitches = 2
  Interfaces <- Pipes
INVARIANTS
  TypeOK
  OutInOrder
  OutWhole
  OutFits
  InInOrder
  BempOwned
  CompletedOnce
PROPERTIES
  
  InCompletes
