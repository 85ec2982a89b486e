CONSTANTS
  NTASKS = 3
  NSPAWN = 3
  Senders <- MCSenders
  Width = 4
  MaxSends = 5
  Cancellable = TRUE
  None = None
  Vacant = Vacant
  NoKey = NoKey
  Uninit = Uninit
SPECIFICATION Spec
INVARIANTS NoLostWakeup
