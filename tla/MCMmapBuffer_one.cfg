CONSTANTS
  w = w
  r1 = r1
  nobody = nobody
  Writer = w
  Free = nobody
  Readers <- OneReader
  Proc <- OneReaderProc
  N = 3
  MaxTimecode = 6
  Threshold = 1
  Requests <- Asked
SPECIFICATION FairSpec
INVARIANTS IInv ReadIntegrity QuietGetHits StoreIntact
PROPERTIES PublishComplete ObstructionFree StoreSpec
CHECK_DEADLOCK FALSE
