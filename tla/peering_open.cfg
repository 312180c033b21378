SPECIFICATION EitherSpec
CONSTANTS
  Gated = {}
  MaxSecret = 3
  MaxToken = 6
  MaxFaults = 1
  MaxDecisions = 1
  MaxOutages = 1
  MaxWipes = 1
CHECK_DEADLOCK FALSE
INVARIANTS TypeOK ActiveOnSharedSecret RefusedHoldNoMail OneSecretSurvives BaselineKnown
PROPERTIES NeverRekeyed ResetEndsParking
