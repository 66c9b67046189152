CONSTANTS
  Users = {u1, u2}
  Numbers = {p1, p2}
  NoNumber = NoNumber
  Shapes = {"data", "hidden", "sync", "blind", "receipt", "odd"}
  MaxSaved = 2
  MaxSent = 2
  SignalFaults = {"receive", "save"}
  MaxOpened = 4
  Emails = {e1, e2}
  NoEmail = NoEmail
  Drafters = {r1, r2}
  Codes = {c1, c2}
  NoCode = NoCode
  MaxDrafts = 3
SPECIFICATION MCSpec
SYMMETRY Symmetry
INVARIANTS
  NumbersStayPaired
  DialogIsOfNewest
  CodeNamesOneDraft
  OneDraftPerEmail
PROPERTIES
  GroupIsServed
CHECK_DEADLOCK FALSE
