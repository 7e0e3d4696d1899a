CONSTANTS
  L = 2
  P = 3
  Data = {a, b}
  Blank = Blank
  Torn = Torn
  MaxErase = 2
SPECIFICATION Spec
SYMMETRY DataSymmetry
PROPERTY
  ColdStartDiscardsNothing
