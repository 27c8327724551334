SPECIFICATION Spec
CONSTANTS
  NCpus = 2
  MaxVal = 2
  Inputs <- SkewedInput2
INVARIANTS ResultSorted
