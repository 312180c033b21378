CONSTANTS
  MaxEdits = 0
  MaxFaults = 1
  Hydrates = TRUE
SPECIFICATION Spec
INVARIANTS TombstoneFinal
CHECK_DEADLOCK FALSE
