CONSTANTS
  N = 3
  Floor = 4
  Configs <- ThreeRanks
SPECIFICATION Spec
INVARIANTS TypeOK SlotsMeet EachOnce BiggerNotLess
