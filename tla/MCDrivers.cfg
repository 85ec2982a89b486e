\* Write() of up to three chunks; the TWIM task forgets pending futures.
CONSTANTS
  Chunks = 3
  Forgettable = TRUE
SPECIFICATION Spec
INVARIANTS WaiterArmed UnmaskedOnlyWithWaker
PROPERTIES WriteCompletes ReadCompletes TransactionReturns
