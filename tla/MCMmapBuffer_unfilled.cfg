CONSTANTS
  w = w
  r1 = r1
  nobody = nobody
  Writer = w
  Free = nobody
  Readers <- OneReader
  Proc <- OneReaderProc
  N = 3
  MaxTimecode = 3
  Threshold = 1
  Requests <- Asked
SPECIFICATION Spec
INVARIANT UnfilledNeverHit
CHECK_DEADLOCK FALSE

