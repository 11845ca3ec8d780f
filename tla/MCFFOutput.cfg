CONSTANTS
  Pictures <- ThePicture
  Null = "NULL"
  Pipes <- BothPipes
  BlockSize <- TwoUnits
  MaxUnits <- Units
  AplayPipe = 2
SPECIFICATION FairSpec
INVARIANTS StreamsWhole RefsExact
PROPERTIES ScheduledInOrder FramesDrawn Finishes
CHECK_DEADLOCK FALSE
