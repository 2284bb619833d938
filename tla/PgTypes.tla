------------------------------- MODULE PgTypes -------------------------------
(***************************************************************************)
(* The conversions of sql_types.rs between the times and lengths of the    *)
(* API, which are jiff's, and what PostgreSQL stores.                      *)
(*                                                                         *)
(* A time is the number of nanoseconds since the PostgreSQL epoch, a       *)
(* stored time the number of microseconds.  A length (jiff::Span) counts   *)
(* ten units, all of one sign and each within a limit of its own; a stored *)
(* length (PgInterval) counts three.                                       *)
(***************************************************************************)
EXTENDS Integers

CONSTANTS
  MinTime, MaxTime,  \* the first and the last time that jiff represents
  UsecPer,           \* microseconds in an hour, a minute, a second, a millisecond
  LimitOf            \* how many of each unit a Span may count

StoredUnits == {"months", "days", "micros"}
ClockUnits == {"hours", "minutes", "seconds", "millis"}
SpanUnits == StoredUnits \cup ClockUnits \cup {"years", "weeks", "nanos"}

ASSUME PgTypesAssumption ==
  /\ MinTime \in Int /\ MaxTime \in Int
  /\ UsecPer \in [ClockUnits -> Nat \ {0}]
  /\ LimitOf \in [SpanUnits -> Nat]

-----------------------------------------------------------------------------
(* Times.                                                                  *)

NanoPerUsec == 1000
UsecPerSec == 1000000
NanoPerSec == UsecPerSec * NanoPerUsec

\* The division of Rust, towards zero, and its remainder.
Quot(a, b) == IF a >= 0 THEN a \div b ELSE -((-a) \div b)
Rem(a, b) == a - b * Quot(a, b)

\* A jiff::SignedDuration: whole seconds and the rest, of the same sign.
Duration(nanos) == [secs |-> Quot(nanos, NanoPerSec), subsec |-> Rem(nanos, NanoPerSec)]
Nanos(d) == d.secs * NanoPerSec + d.subsec

DurationToUsecs_SecondsOnly(d) == d.secs * UsecPerSec

duration_to_usecs(d) == d.secs * UsecPerSec + Quot(d.subsec, NanoPerUsec)

usecs_to_duration(u) == [secs |-> Quot(u, UsecPerSec),
                         subsec |-> Rem(u, UsecPerSec) * NanoPerUsec]

\* ToSql and FromSql of Timestamp, to which those of Timestamptz delegate.
TimeToSql(t) == duration_to_usecs(Duration(t))
TimeFromSql(u) == Nanos(usecs_to_duration(u))

\* The addition in from_sql panics outside of jiff's range.
TimeReadable(u) == TimeFromSql(u) \in MinTime..MaxTime

\* ToSql of DateTime, by as_micros.
DateTimeToSql(t) == Quot(t, NanoPerUsec)

\* FromSql of DateTime, by from_micros: an error outside of jiff's range.
DateTimeFromSql(u) == Nanos(Duration(u * NanoPerUsec))

-----------------------------------------------------------------------------
(* Lengths.                                                                *)

\* All its counts are within their limits and none differs in sign from another.
IsSpan(s) ==
  /\ s \in [SpanUnits -> Int]
  /\ \A x \in SpanUnits : s[x] \in -LimitOf[x]..LimitOf[x]
  /\ \A x, y \in SpanUnits : ~(s[x] < 0 /\ s[y] > 0)

NoLength == [x \in SpanUnits |-> 0]

Interval(months, days, micros) == [months |-> months, days |-> days, micros |-> micros]

LengthToSql_NoWeeks(s) ==
  Interval(s.years * 12 + s.months, s.days,
           s.hours * UsecPer.hours + s.minutes * UsecPer.minutes
             + s.seconds * UsecPer.seconds + s.millis * UsecPer.millis
             + s.micros)

\* ToSql of Interval: the nanoseconds are not looked at.
LengthToSql(s) ==
  Interval(s.years * 12 + s.months, s.weeks * 7 + s.days,
           s.hours * UsecPer.hours + s.minutes * UsecPer.minutes
             + s.seconds * UsecPer.seconds + s.millis * UsecPer.millis
             + s.micros)

\* FromSql of Interval: each sum is set as the count of one unit.
LengthFromSql(i) ==
  [x \in SpanUnits |-> IF x = "months" THEN i.months
                       ELSE IF x = "days" THEN i.days
                       ELSE IF x = "micros" THEN i.micros ELSE 0]

\* The setters of Span panic at a count beyond the limit of their unit.
LengthReadable(i) ==
  /\ i.months \in -LimitOf.months..LimitOf.months
  /\ i.days \in -LimitOf.days..LimitOf.days
  /\ i.micros \in -LimitOf.micros..LimitOf.micros

=============================================================================
