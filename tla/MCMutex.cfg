CONSTANTS
  NTASKS = 3
  NSPAWN = 3
  None = None
  Vacant = Vacant
  NoKey = NoKey
SPECIFICATION Spec
INVARIANTS TypeOK NoLostWakeup NotifiableCount NoRegistryOOM

