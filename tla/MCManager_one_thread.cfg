SPECIFICATION Spec
CONSTANTS
  d1 = d1
  d2 = d2
  d3 = d3
  c1 = c1
  c2 = c2
  Ids = {d1, d2}
  Callers = {c1}
  Runs = {1, 2, 3}
  NoId = NoId
  Limit = 1
  Workers = 1
  Ops = {"enqueue", "start", "pause", "resume", "retry", "cancel", "remove"}
  SaveFails = FALSE
  Restarts = FALSE
  Policy = "Failed"
  Detachable = {}
SYMMETRY Symmetry
INVARIANT NoIdleSlot
INVARIANT IntentsAnswered
INVARIANT RecordsAgree
INVARIANT LimitRespected
INVARIANT QueueExact
INVARIANT OnlyStoppingBeyond
PROPERTY PauseNeverCancels
PROPERTY ImplementsLifecycle
