SPECIFICATION CallSpec
CONSTANTS MaxCalls = 2
 MaxFaults = 1
 MaxWire = 2
CHECK_DEADLOCK FALSE
PROPERTIES StartEndsOwnRing
