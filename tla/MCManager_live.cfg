SPECIFICATION StoppableSpec
CONSTANTS
  d1 = d1
  d2 = d2
  d3 = d3
  c1 = c1
  c2 = c2
  Ids = {d1, d2}
  Callers = {c1}
  Runs = {1, 2, 3}
  NoId = NoId
  Limit = 1
  Workers = 1
  Ops = {"enqueue", "pause", "resume", "retry", "cancel"}
  SaveFails = FALSE
  Restarts = FALSE
  Policy = "Failed"
  Detachable = {}
PROPERTY PauseTakesEffect
PROPERTY QueuedServed
CHECK_DEADLOCK FALSE
