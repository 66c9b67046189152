CONSTANTS
  Emails = {e1}
  Runs = {r1, r2}
  Tools = {"summary", "archive", "snooze"}
  MaxCalls = 2
  MaxResults = 2
  DefaultWindow = 4
  MaxTime = 4
  MaxSnoozes = 1
  Faults = {"write"}
  NoEmail = NoEmail
SPECIFICATION FairSpec
INVARIANTS
  ActiveIsInHand
PROPERTIES
  NothingGoesUnreported
  SnoozedReturns
