SPECIFICATION Spec
CONSTANTS
  Pid <- Pids
  Codec <- Codecs
  PmtPid <- PmtPids
  PAT <- PATs
  PMT <- PMTs
  Header <- Headers
  Size = {1}
  BufferMax = 2
  MaxFrame = 3
  MaxChunk = 4
INVARIANTS OrderKept FollowsTable
PROPERTIES FramesWhole
