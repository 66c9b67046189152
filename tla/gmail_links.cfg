CONSTANTS
  Mailboxes = {m1, m2}
  NoMailbox = NoMailbox
  Tabs = {t1, t2}
  MaxConnections = 3
  AccountFaults = {"address", "throw"}
  Calls = {k1, k2}
  Names = {n1, n2}
  NoName = NoName
  MaxLabels = 2
  LabelFaults = {"call"}
SPECIFICATION MCSpec
SYMMETRY Symmetry
INVARIANTS
  TypeOK
  AddressIsTheMailbox
  WrongLabelIsForeign
PROPERTIES
  ConnectSavesItsOwn
CHECK_DEADLOCK FALSE
