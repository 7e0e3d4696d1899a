CONSTANTS
  N = 3
  K = 2
  ClockMod = 5
  Data = {a, b}
  Blank = a
SPECIFICATION Spec
INVARIANTS
  TypeOK
  OneSlotPerSector
  Coherent
PROPERTIES
  EvictsLRU
