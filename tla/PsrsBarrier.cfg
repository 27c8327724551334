SPECIFICATION Spec
CONSTANTS
  NCpus = 4
  MaxRounds = 3
INVARIANTS BarInv
PROPERTIES AllPass ImplementsBarrier
CHECK_DEADLOCK FALSE
