CONSTANTS
  p1 = p1
  p2 = p2
  Paths <- MCPaths
  LibNum = 2
  Category <- MCCategory
  Drm = {p1}
  Deletable = {p2}
  Scans = {"all", "part", "invalid"}
SPECIFICATION FairSpec
INVARIANTS TypeOK OneRegistrant WaiterIsServed AnswerIsForRequest OkMeansStored
PROPERTIES RequestAnswered ImplementsFairSingleFlight
