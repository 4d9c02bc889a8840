CONSTANTS
  a = a
  b = b
  c1 = c1
  c2 = c2
  Names = {a}
  PhoneFiles = {a}
  Cards = {c1, c2}
  NoCard = NoCard
  Phone = Phone
  Absent = Absent
  InitialStatus = "updated"
  EveryChangeSeen = TRUE
  MaxChanges = 5
  MaxStops = 0
  MaxFailures = 0
  MaxFileOps = 0
SPECIFICATION Spec
INVARIANT RowsAreOfThisCard
CHECK_DEADLOCK FALSE
