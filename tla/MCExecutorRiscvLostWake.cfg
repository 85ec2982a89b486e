CONSTANTS
  NTASKS = 2
  Platform = "riscv_wfi"
SPECIFICATION Spec
INVARIANT SleepOnlyWhenIdle
CHECK_DEADLOCK FALSE
