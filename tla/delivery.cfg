CONSTANTS
  MaxEdits = 2
  MaxFaults = 1
  Hydrates = FALSE
SPECIFICATION Spec
INVARIANTS TypeOK CancelledNeverHeld TombstoneFinal DrainedAgrees PulledAgrees
PROPERTIES ReplicaSpec
CHECK_DEADLOCK FALSE
