SPECIFICATION StoreSpec
CONSTANTS
  i1 = i1 i2 = i2 i3 = i3 i4 = i4 v1 = v1 v2 = v2
  HeadItem = HeadItem
  Item <- MCItem
  Value <- MCValue
  Limit <- MCLimit
  MaxHandle <- MCMaxHandle
  ChecksIndex = TRUE
  VideoData <- MCVideoData
  Stamp <- MCStamp
  FrameRate = 15
  SampleRate = 16000
  FrameSize = 1024
  VideoDen = 90000
  MaxInt = 200000
  MaxFrames = 4
INVARIANTS Ring
PROPERTIES ImplementsFifo PtsIncrease KeepsFile
