SPECIFICATION Spec
CONSTANTS
  Tags = 7
  MaxReq = 3
  MaxGlitches = 2
  Interfaces <- Pipes
INVARIANT
  OrphanIsFirst
