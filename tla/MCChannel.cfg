\* Four tasks on a three-slot channel that may drop pending futures;
\* MaxSends + NTASKS stays below 2^Width, so the cursors never wrap.
CONSTANTS
  NTASKS = 3
  NSPAWN = 3
  Senders <- MCSenders
  Width = 4
  MaxSends = 5
  Cancellable = TRUE
  None = None
  Vacant = Vacant
  NoKey = NoKey
  Uninit = Uninit
SPECIFICATION Spec
INVARIANTS TypeOK RingBufferExact NoLostWakeupUnlessLeaked
