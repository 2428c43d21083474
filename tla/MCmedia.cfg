SPECIFICATION MediaSpec
CONSTANTS
  H264 = FALSE
  MaxPicture = 4
  MaxVersion = 3
  MaxDelay = 2
  File <- MCFile
  MaxSeek = 2
  MaxTake = 2
  Client = {"c1", "c2"}
  MaxQueue = 2
  Frame <- MCFrame
  Size <- MCSize
  MaxSize = 2
  MaxAudio = 1
  MaxOpen = 2
  MaxStart = 2
  MaxTick = 1
  Buffer = {b1, b2, b3}
  Second = 3
  MIN_MSEC_TIMESTAMP = 4
  MAX_MSEC_TIMESTAMP = 12
  MaxSync = 3
  MaxTime = 8
INVARIANTS FramesSound PictureSound StreamSound TimerSound EndsForAReason OnePlace QuietAfterStop
PROPERTIES Progress BuffersComeBack
CHECK_DEADLOCK FALSE
