CONSTANTS
  MaxItems = 7
  Tasks = {t1, t2}
  ShortTask = t2
  Texts <- MCTexts
  MaxAsked = 2
  Runs = {r1, r2}
  Months = {1, 2}
  Times = {1, 2}
  DecisionIds = {1, 2, 3, 4, 5}
  PerRun = 3
  PageSize = 2
  RecordFaults = {"throw"}
SPECIFICATION MCSpec
SYMMETRY Symmetry
INVARIANTS
  TypeOK
  ObjectsAreReadable
  RecordsAreWhole
PROPERTIES
  AnswersStay
CHECK_DEADLOCK FALSE
