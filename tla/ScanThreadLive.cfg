CONSTANTS
  a = a
  b = b
  c1 = c1
  c2 = c2
  Names = {a}
  PhoneFiles = {a}
  Cards = {c1, c2}
  NoCard = NoCard
  Phone = Phone
  Absent = Absent
  InitialStatus = "updated"
  EveryChangeSeen = TRUE
  MaxChanges = 2
  MaxStops = 1
  MaxFailures = 1
  MaxFileOps = 1
SPECIFICATION FairSpec
PROPERTIES ComesToRest ScanThreadEnds
CHECK_DEADLOCK FALSE
