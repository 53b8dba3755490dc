\* Every program of the set, analysed and then run on every input.
SPECIFICATION Spec
CONSTANTS
  Scale = 2
  Exact = 160
  Gap = 16
  MaxD = 320
  NarrowModulus = 16
  Programs <- MCPrograms
  Inputs <- MCInputs
  IntBound = 16
INVARIANTS
  Sound
  PanicsReported
  FixedPoint
CHECK_DEADLOCK FALSE
