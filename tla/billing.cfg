CONSTANTS
  Ids = {i1, i2}
  Addresses = {a1}
  Mixed = {a1}
  Tabs = {t1, t2}
  Subs = {s1, s2}
  Deliveries = {d1, d2}
  Kinds = {"activated", "pending", "halted"}
  Faults = {"throw"}
  NoId = NoId
  NoRow = NoRow
  NoSub = NoSub
SPECIFICATION Spec
SYMMETRY Symmetry
INVARIANTS
  TypeOK
  OneUserPerAddress
  PlanFollowsProvider
PROPERTIES
  PromiseKept
