\* The clock started with the DS3231 holding its time in 12-hour form.
\* A panic stops the program, so a state without successors is expected.
CONSTANT Hour12 = TRUE
SPECIFICATION Spec
PROPERTY DateShowsLastSet
CHECK_DEADLOCK FALSE
