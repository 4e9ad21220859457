SPECIFICATION Spec
CONSTANTS
  ann = ann
  bob = bob
  cat = cat
  dan = dan
  left = left
  right = right
  long = long
  paused = paused
  none = none
  Channels = {1, 2}
  Prices = {1, 2, 3, 4}
  Sizes = {0, 1, 2}
  NoBook = NoBook
  Frames <- MCFrames
  MaxQty = 4
  Forks = {left, right, long, paused}
  Zero = none
  MCR = 2
  Gas = 1
  Borrowers = {ann, cat}
  Troves <- MCTroves
  Pools <- MCPools
  Quantities = {1, 2, 3, 4}
  Basis = 10
  Word = 60
  QUEUE_LIMIT = 3
  Batch = 4
  MaxReorgs = 2
INVARIANTS
  RecordedBookIsLiveBook
  SweepIsBest
  PositionIsOfOneBlock
  DexQuoteIsLeast
CHECK_DEADLOCK FALSE
