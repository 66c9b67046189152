CONSTANTS
  Jobs = {j1}
  Crons = {c1}
  Accounts = {a1}
  NoAccount = NoAccount
  Attempts = 3
  Concurrency = 1
  MaxKills = 2
  Faults = {"throw", "fail", "timeout", "lost", "stop"}
SPECIFICATION FairSpec
INVARIANTS
  TypeOK
  RowsAreTrue
  RowCatchesUp
PROPERTIES
  EveryJobEnds
