CONSTANTS
  MAX = 17
  Streams <- AllStreams
  OptionSets <- Modes
SPECIFICATION Spec
INVARIANTS IInv PutsPictures CutOnlyShortens NothingLost
CHECK_DEADLOCK FALSE
