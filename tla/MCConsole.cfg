CONSTANTS
  capture = capture
  consumer = consumer
  o1 = o1
  o2 = o2
  o3 = o3
  None = None
  Captures <- CapturePanels
  Consumers <- ConsumerPanels
  Objects <- ThreeObjects
  First <- FirstObject
  Pids = {1, 2}
  MaxForks = 2
SPECIFICATION FairSpec
INVARIANTS StatusTrue OnePipeline
PROPERTY EndShown
CHECK_DEADLOCK FALSE
