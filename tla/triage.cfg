CONSTANTS
  Emails = {e1}
  Runs = {r1, r2}
  Tools = {"ignore", "summary", "archive", "snooze", "draft"}
  MaxCalls = 2
  MaxResults = 1
  DefaultWindow = 2
  MaxTime = 4
  MaxSnoozes = 2
  Faults = {"throw", "refetch", "tool", "outage", "abort", "write"}
  NoEmail = NoEmail
SPECIFICATION Spec
INVARIANTS
  TypeOK
  UnsnoozedClaimedOnce
PROPERTIES
  SnoozeRespected
