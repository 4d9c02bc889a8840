CONSTANTS
  p1 = p1
  p2 = p2
  c1 = c1
  c2 = c2
  NULL = NULL
  Away = Away
  Paths = {p1, p2}
  LibNum = 1
  Category <- MCCategory
  Drm = {}
  Deletable = {p2}
  Scans = {"all", "part", "invalid"}
  Clients = {c1}
  Lists <- MCLists
  Ports = {1, 2}
  MaxQueued = 1
  MaxKills = 1
SPECIFICATION ServiceSpec
INVARIANTS ServiceTypeOK AnswerIsOwn PromiseIsKept
CHECK_DEADLOCK FALSE
