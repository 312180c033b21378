SPECIFICATION Spec
CONSTANTS
  Gated = {}
  MaxSecret = 3
  MaxToken = 6
  MaxFaults = 1
  MaxDecisions = 2
  MaxOutages = 0
  MaxWipes = 1
CHECK_DEADLOCK FALSE
CONSTRAINT RefusalFocus
PROPERTIES LocalRefusalsHold
