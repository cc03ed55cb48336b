SPECIFICATION FairSpec
CONSTANTS
  t1 = t1
  t2 = t2
  f1 = f1
  f2 = f2
  Tasks = {t1}
  Dests = {f1}
  Dest <- Alone
  Replaces = {}
  Existing = {}
  Sizes = {2, 4}
  MaxBody = 6
  Chunk = 2
  BufSize = 3
  Rate = 2
  Faults = TRUE
  Crashes = {"process", "machine"}
  TimesOut = TRUE
  Nobody = Nobody
  Before = Before
INVARIANT TypeOK
INVARIANT NeverTorn
PROPERTY ImplementsDelivery
PROPERTY SignalHeard
CHECK_DEADLOCK FALSE
