\* A duration of three seconds; the clock is set forwards and back.
SPECIFICATION FairSpec
CONSTANTS
  Duration = 6
  Second = 2
  Jumps <- BackAndForth
  MaxNow = 14
INVARIANTS
  RunsExactly
  OneInterval
  ZeroMeansComplete
PROPERTIES
  Ends
  ImplementsCountdown
\* A destroyed component does nothing, and the clock ends at MaxNow.
CHECK_DEADLOCK FALSE
