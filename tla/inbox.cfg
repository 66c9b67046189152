CONSTANTS
  Users = {"u1"}
  Messages <- MCMessages
  UserOf <- MCUserOf
  Stamp <- MCStamp
  NoMessage = 0
  Late <- MCLate
  Polls = {"p1", "p2"}
  MaxAttempts = 2
  Faults = {"throw", "mark", "abort", "redeliver", "receive"}
SPECIFICATION FairSpec
INVARIANTS
  TypeOK
  NeverGivesUpEarly
PROPERTIES
  EndsOnce
  FirstTriesInOrder
  StoredIsSettled
