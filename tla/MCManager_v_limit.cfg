SPECIFICATION Spec
CONSTANTS
  d1 = d1
  d2 = d2
  d3 = d3
  c1 = c1
  c2 = c2
  Ids = {d1, d2}
  Callers = {c1}
  Runs = {1, 2, 3, 4}
  NoId = NoId
  Limit = 1
  Workers = 2
  Ops = {"enqueue", "retry"}
  SaveFails = FALSE
  Restarts = FALSE
  Policy = "Failed"
  Detachable = {}
SYMMETRY Symmetry
INVARIANT LimitRespected
CHECK_DEADLOCK FALSE
