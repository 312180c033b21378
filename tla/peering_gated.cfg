SPECIFICATION Spec
CONSTANTS
  Gated = {"lower", "higher"}
  MaxSecret = 3
  MaxToken = 6
  MaxFaults = 1
  MaxDecisions = 3
  MaxOutages = 0
  MaxWipes = 0
CHECK_DEADLOCK FALSE
INVARIANTS GatedByAdmin
PROPERTIES OnlyBackstopLifts
