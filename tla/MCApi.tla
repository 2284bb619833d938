---------------------------------- MODULE MCApi ----------------------------------
(* Instances of Api for TLC.                                                *)
EXTENDS ApiDoc, TLC

CONSTANTS u1, u2

TwoUsers == {u1, u2}
Symmetry == Permutations(TwoUsers)

\* Scaled: each of these units can amount to 32 microseconds.
ScaledUsecPer == [hours |-> 16, minutes |-> 8, seconds |-> 4, millis |-> 2]
ScaledLimits ==
  [years |-> 2, months |-> 24, weeks |-> 2, days |-> 14, hours |-> 2, minutes |-> 4,
   seconds |-> 8, millis |-> 16, micros |-> 32, nanos |-> 64]

\* Some of every unit; more hours and minutes than microseconds can be.
Mixed ==
  [x \in SpanUnits |-> 1]
LongClock == [NoLength EXCEPT !.hours = 2, !.minutes = 1]
LongMonths == [NoLength EXCEPT !.years = -2, !.months = -1]
ThreeLengths == {Mixed, LongClock, LongMonths}
Pomodoro == [NoLength EXCEPT !.minutes = 2]

\* Before and after the PostgreSQL epoch, which is one second after the Unix epoch.
TwoStarts == {999999, 1000001}
Earliest == -1000000000
Latest == 1000001000
=============================================================================
