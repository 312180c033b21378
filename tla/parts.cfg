SPECIFICATION PartsSpec
CONSTANTS
  MaxChanges = 4
  Site = {left, right, far}
  MemberHome = far
  FirstHome = left
  PerHome = 2
  MaxMoves = 4
  Grace = 2
  Period = 2
  AuthFailureThreshold = 2
  MaxRotations = 3
  MaxLosses = 1
  MaxCalls = 1
  MaxFaults = 1
  MaxWire = 2
  MaxWipes = 2
  MaxRestores = 1
  MaxCrashes = 1
  MaxAttempts = 2
  MaxStops = 1
INVARIANTS
  PairTypeOK FriendsConsent OrderlyPairAgrees
  GroupTypeOK MembersAgree SoleOwner
  RotationTypeOK RefusedForATick
  CallTypeOK CallHasSomebody SeatsAgree
  ResetTypeOK SnapshotHasJournal HealComplete
  FileTypeOK NamedFileThere
PROPERTIES RotationEnds IdleEntryGoes DesertedCallEnds HealSparesLater DownloadEnds
CHECK_DEADLOCK FALSE
