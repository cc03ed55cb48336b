SPECIFICATION Spec
CONSTANTS
  d1 = d1
  d2 = d2
  Ids = {d1, d2}
  MaxBytes = 2
  MaxInt = 1
  Refusals = 1
SYMMETRY Symmetry
INVARIANT TypeOK
INVARIANT MigratedOnce
INVARIANT EndedExplained
INVARIANT CompletedTotal
PROPERTY RestartFaithful
PROPERTY FailedOpenHarmless
