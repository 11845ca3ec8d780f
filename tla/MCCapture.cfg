CONSTANTS
  c1 = c1
  c2 = c2
  i1 = i1
  nobody = nobody
  Free = nobody
  Threshold = 1
  Clockds <- ClockdPids
  Ingests <- IngestPids
  Ingest = i1
  Proc <- AllPids
  MaxClock = 2
  FieldHeight = 2
  NBuffers = 2
  Margin = 6
  MaxPicture = 3
SPECIFICATION CaptureFairSpec
INVARIANTS ClockFresh BuffersOwned FieldsInOrder SplitAgrees
PROPERTIES ClockNeverBack CaptureGoesOn
CHECK_DEADLOCK FALSE
