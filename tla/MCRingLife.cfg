CONSTANTS
  w = w
  r1 = r1
  nobody = nobody
  gone = gone
  Writer = w
  Free = nobody
  Ghost = gone
  Readers <- OneReader
  Proc <- OneReaderProc
  N = 3
  MaxTimecode = 5
  MaxLives = 2
  Threshold = 1
  Requests <- Asked
SPECIFICATION LifeSpec
INVARIANTS LifeIntegrity LifeGetHits LifeIntact
PROPERTIES RestartedSpec
CHECK_DEADLOCK FALSE
