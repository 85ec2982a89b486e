CONSTANTS
  NTASKS = 3
  Platform = "arm"
SPECIFICATION Spec
INVARIANTS TypeOK SleepOnlyWhenIdle
PROPERTIES WakeEventuallyPolled SleepsWhenIdle SchedulerRefinement
CHECK_DEADLOCK FALSE
