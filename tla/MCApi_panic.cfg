\* As MCApi.cfg.
SPECIFICATION Spec
CONSTANTS
  u1 = u1
  u2 = u2
  Users <- TwoUsers
  Nil = nil
  MinTime <- Earliest
  MaxTime <- Latest
  UsecPer <- ScaledUsecPer
  LimitOf <- ScaledLimits
  Lengths <- ThreeLengths
  Seeded <- Pomodoro
  Starts <- TwoStarts
  PgEpoch = 1000000
  MaxSplits = 3
  MaxRows = 2
SYMMETRY Symmetry
INVARIANT PanicIsAnswered
