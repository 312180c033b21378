SPECIFICATION ResetSpec
CONSTANTS MaxWipes = 2 MaxRestores = 0 MaxCrashes = 1
PROPERTIES HealSparesConfirmed
CHECK_DEADLOCK FALSE
