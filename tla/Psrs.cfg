SPECIFICATION Spec
CONSTANTS
  NCpus = 3
  MaxVal = 2
  Inputs <- Inputs3
INVARIANTS AccessesSound ResultSound
PROPERTIES PivotsFrozen Terminates
