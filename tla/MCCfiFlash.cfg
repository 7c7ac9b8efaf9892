SPECIFICATION Spec
SYMMETRY Symmetry
CONSTANTS
  Chips <- MCChips
  Patterns = {p, q}
  Lengths = {1, 3, 4}
  MaxRegions = 8
  MaxWrites = 2
  MaxPowerFails = 1
INVARIANTS WriteIsExact OtherBlocksKept
CHECK_DEADLOCK FALSE
