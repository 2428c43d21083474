SPECIFICATION Spec
CONSTANTS
  FD <- Descriptors
  Length <- Lengths
  Times = 3
  MaxSent = 3
INVARIANTS OwnsItsDescriptor ClosedIsTrue
PROPERTIES WaitingDataIsRead EndIsReported
CHECK_DEADLOCK FALSE
