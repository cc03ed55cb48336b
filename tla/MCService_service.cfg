SPECIFICATION FairService
CONSTANTS
  d1 = d1
  c1 = c1
  f1 = f1
  Ids = {d1}
  Callers = {c1}
  Runs = {1, 2}
  NoId = NoId
  Limit = 1
  Workers = 1
  Ops = {"enqueue", "start", "pause", "resume", "retry", "cancel", "remove", "shutdown"}
  SaveFails = FALSE
  Restarts = TRUE
  Policy = "Queued"
  Detachable = {}
  Place = f1
  Replaces = {}
  Existing = {}
  Sizes = {1}
  MaxBody = 1
  Chunk = 1
  BufSize = 2
  Rate = 0
  Faults = TRUE
  Crashes = {"process"}
  TimesOut = TRUE
  Nobody = Nobody
  Before = Before
INVARIANT CompletedHasFile
INVARIANT DeliveredIsCompleted
INVARIANT QueuedIsPending
INVARIANT AnnouncedSurvives
PROPERTY SignalStops
