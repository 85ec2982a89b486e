\* The clock with the DS3231 in 24-hour form, as set_time leaves it.
CONSTANT Hour12 = FALSE
SPECIFICATION Spec
PROPERTIES DateShowsLastSet RtcCommandReturns MeasurementEventuallyRead
