CONSTANTS
  blank = blank
  p1 = p1
  p2 = p2
  p3 = p3
  p4 = p4
  null = null
  Blank = blank
  Null = null
  Pictures <- Pool
  MaxPictures = 1
  MaxLeaks = 1
  MaxCommands = 1
SPECIFICATION SpuriousSpec
INVARIANTS NoEmptyPop
