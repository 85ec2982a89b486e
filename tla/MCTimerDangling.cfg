CONSTANTS
  CMod = 8
  Durations <- MCDurations
  Droppable = TRUE
SPECIFICATION Spec
INVARIANT NoDanglingWake
