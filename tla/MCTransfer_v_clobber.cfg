SPECIFICATION Spec
CONSTANTS
  t1 = t1
  t2 = t2
  f1 = f1
  f2 = f2
  Tasks = {t1, t2}
  Dests = {f1}
  Dest <- Together
  Replaces = {}
  Existing = {}
  Sizes = {2}
  MaxBody = 3
  Chunk = 2
  BufSize = 2
  Rate = 0
  Faults = FALSE
  Crashes = {}
  TimesOut = TRUE
  Nobody = Nobody
  Before = Before
PROPERTY NoClobber
CHECK_DEADLOCK FALSE
