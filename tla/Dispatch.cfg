SPECIFICATION Spec
CONSTANTS
  Pairs <- MCPairs
  Metro <- MCMetro
  Registered = {"ny", "sv"}
  Surveyed = {"ny", "sv", "tpe"}
  Queue <- MCQueue
  Asks <- MCAsks
  Chips <- MCChips
  CellPrice <- MCCellPrice
  DearPrice <- MCDearPrice
  ArchPrice <- MCArchPrice
  Preferred <- MCPreferred
  Fallback = "g9"
  Floor <- MCFloor
  LimitOrder <- MCLimitOrder
  Balance <- MCBalance
  Bar = 200
  Window = 1
  Modes = {"worker", "pass"}
  Faults = {"fetch"}
  MaxTurns = 1
  MaxMoves = 1
INVARIANT MeshKept
PROPERTIES RoundWithinBar RoundFillsBar PoolHoldsWhatItIsSent BackOnlyIfNowhereElse NoHerd
CHECK_DEADLOCK FALSE
