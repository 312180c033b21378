CONSTANTS
  MaxEdits = 1
  MaxFaults = 2
  Hydrates = TRUE
SPECIFICATION FairSpec
PROPERTIES Converges
CHECK_DEADLOCK FALSE
