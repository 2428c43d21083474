SPECIFICATION Spec
CONSTANTS
  Path = {p1, p2}
  AudioEnable = TRUE
  DeviceMayFail = TRUE
  MaxID = 3
  MaxTake = 2
INVARIANTS OneSession PathNotTorn WriterOfTake FewForeignPackets GoneQuiet
PROPERTIES WritesWithinTake
