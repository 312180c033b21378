SPECIFICATION RotationSpec
CONSTANTS
  Grace = 2
  Period = 2
  AuthFailureThreshold = 5
  MaxRotations = 1
  MaxLosses = 0
CHECK_DEADLOCK FALSE
INVARIANTS RotationSparesPeer
