SPECIFICATION Spec
CONSTANTS
  FD <- Descriptors
  Length <- Lengths
  Times = 3
  MaxSent = 3
PROPERTIES EndTakesNothing
CHECK_DEADLOCK FALSE
