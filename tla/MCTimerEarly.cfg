CONSTANTS
  CMod = 8
  Durations <- MCDurations
  Droppable = FALSE
SPECIFICATION Spec
PROPERTY WaitAtLeast
