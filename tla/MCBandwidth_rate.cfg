SPECIFICATION FairSpec
CONSTANTS
  t1 = t1
  t2 = t2
  Tasks = {t1, t2}
  Cap = 5
  Ticks = 3
  MaxNeed = 2
INVARIANT TypeOK
INVARIANT WithinRate
INVARIANT SleepsOnce
INVARIANT SharesFit
PROPERTY AcquireReturns
