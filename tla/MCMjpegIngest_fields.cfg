CONSTANTS
  MAX = 17
  Streams <- AllStreams
  OptionSets <- FieldModes
SPECIFICATION Spec
INVARIANT DominantFirst
CHECK_DEADLOCK FALSE
