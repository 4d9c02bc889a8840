CONSTANTS
  noti = noti
  phone1 = phone1
  phone2 = phone2
  card1 = card1
  p1 = p1
  p2 = p2
  c1 = c1
  Noti = noti
  PhoneFolders = {phone1, phone2}
  CardFolders = {card1}
  PhoneFiles = {p1, p2}
  CardFiles = {c1}
  AtOnce = FALSE
  MaxWatches = 4
  MaxIgnored = 3
SPECIFICATION Spec
INVARIANTS TypeOK WatchesAreListed IgnoredAreListed OnlyGapsDangle
CHECK_DEADLOCK FALSE
SYMMETRY FileSymmetry
