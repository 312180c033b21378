SPECIFICATION FairSpec
CONSTANTS
  Gated = {}
  MaxSecret = 3
  MaxToken = 6
  MaxFaults = 2
  MaxDecisions = 0
  MaxOutages = 0
  MaxWipes = 0
CHECK_DEADLOCK FALSE
PROPERTIES MailLeadsToPeering LostAnswerCompletes ParkedCompletes
