SPECIFICATION FairSpec
CONSTANTS
  Path = {p1}
  AudioEnable = TRUE
  DeviceMayFail = TRUE
  MaxID = 3
  MaxTake = 1
PROPERTIES StaleSessionCloses StopReturns DestructorReturns
