CONSTANTS
  VGIO_WIDTH = 3
  VGIO_HEGIHT = 2
  Ops = {"word"}
  Cells <- ThreeCells
  Chars <- TwoChars
  MaxStores = 3
SPECIFICATION FairSpec
INVARIANTS TypeOK ShowsWhatWasStored StaysOnScreen
PROPERTY FramesConverge
