SPECIFICATION Spec
CONSTANTS
  Thread = {t1, t2}
  NumNames = 2
  Place = {p1}
  MaxOps = 2
  MaxFifo = 2
  MaxLogger = 2
INVARIANTS WrittenAsAsked OneLoggerUnlessFails
PROPERTIES ReportsDieOut
CHECK_DEADLOCK FALSE
