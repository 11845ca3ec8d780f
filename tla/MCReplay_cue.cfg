CONSTANTS
  NCameras = 2
  NSlots = 2
  AutoDsk <- SecondDsk
  Frame = 128
  Precision = 16
  Ulps <- Powers
  Numbers <- Typed
  SeekStep = 1
  Preroll = 1
  PrerollStep = 1
  Skew <- TwoSkew
  Window = 3
  First = 3
  Last = 3
  StatusRoom = 1
  MaxKeys = 2
SPECIFICATION Spec
INVARIANTS CueShowsFirst
