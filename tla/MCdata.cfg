SPECIFICATION Spec
CONSTANTS
  Path <- MCPath
  Value = {"v"}
  MaxItem = 2
  MaxIndex = 1
  MaxCall = 4
  MaxSection = 2
  MaxRow = 1
  MaxEdit = 4
  MaxPool = 1
  DatagramSize = {0, 1, 2}
  BufferSize = {1, 3}
  TryTimes = 3
  MaxDatagram = 3
  Manager = {"m1", "m2"}
  DbPath <- MCDbPath
  Key = {"k", "l"}
  Number = {1}
  MaxMap = 2
  MaxSql = 5
  JsonKey <- MCJsonKey
  Scalar = {"u", "v"}
  MaxStep = 4
  Count = {0, 1, 5}
  CountPerPage = {0, 2}
  PageIndex = {0, 1, 3, 4}
  Garbage = {1, 5}
  MaxClick = 5
  Optionals <- MCOptionals
  Typed = {"a", "b", "z"}
  OtherIndices <- MCOtherIndices
  MaxChoice = 5
  EditText <- MCEditText
  MaxLengths = {0, 1}
  EmptyText <- MCEmptyText
  MaxTyped = 6
INVARIANTS JsonKeeps DatagramsSound
PROPERTIES DatabaseSound EditsKeepTheRest ControlsSound
CHECK_DEADLOCK FALSE
