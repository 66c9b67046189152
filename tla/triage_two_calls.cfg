CONSTANTS
  Emails = {e1}
  Runs = {r1}
  Tools = {"summary", "snooze"}
  MaxCalls = 2
  MaxResults = 1
  DefaultWindow = 2
  MaxTime = 3
  MaxSnoozes = 1
  Faults = {}
  NoEmail = NoEmail
SPECIFICATION Spec
PROPERTIES
  ToolRowStands
