SPECIFICATION Spec
CONSTANTS
  Path = {p1}
  AudioEnable = FALSE
  DeviceMayFail = FALSE
  MaxID = 1
  MaxTake = 1
PROPERTIES RecordOnlyFromOpened
