------------------------------ MODULE Api_proofs ------------------------------
(***************************************************************************)
(* Proofs about PgTypes and Api: what the conversions keep, for every      *)
(* time, length and limit, and so what every client gets back.             *)
(***************************************************************************)
EXTENDS ApiDoc, SequenceTheorems, TLAPS

-----------------------------------------------------------------------------
(* Times.                                                                  *)

\* Division towards zero is exact on a multiple, and gets no order wrong.
LEMMA QuotExact == \A u \in Int : Quot(u * NanoPerUsec, NanoPerUsec) = u
  BY DEF Quot, NanoPerUsec

LEMMA QuotMonotone == \A a, b \in Int : a <= b => Quot(a, NanoPerUsec) <= Quot(b, NanoPerUsec)
  BY DEF Quot, NanoPerUsec

\* duration_to_usecs undoes usecs_to_duration, for every i64: no stored time changes
\* by being read and stored again.
THEOREM UsecsKept == \A u \in Int : duration_to_usecs(usecs_to_duration(u)) = u
<1>1. TAKE u \in Int
<1>2. Quot(u, UsecPerSec) \in Int /\ Rem(u, UsecPerSec) \in Int
  BY DEF Quot, Rem, UsecPerSec
<1>3. Quot(Rem(u, UsecPerSec) * NanoPerUsec, NanoPerUsec) = Rem(u, UsecPerSec)
  BY <1>2, QuotExact
<1>4. u = Quot(u, UsecPerSec) * UsecPerSec + Rem(u, UsecPerSec)
  BY <1>2 DEF Rem, UsecPerSec
<1>5. QED
  BY <1>2, <1>3, <1>4 DEF duration_to_usecs, usecs_to_duration, UsecPerSec

\* By way of seconds or not, a time is stored as its whole microseconds: what
\* Timestamp and DateTime store is the same.
THEOREM StoredAlike ==
  \A t \in Int : TimeToSql(t) = Quot(t, NanoPerUsec) /\ TimeToSql(t) = DateTimeToSql(t)
  BY DEF TimeToSql, DateTimeToSql, Duration, duration_to_usecs, Quot, Rem, NanoPerSec, UsecPerSec,
         NanoPerUsec

LEMMA ReadAsMicros == \A u \in Int : TimeFromSql(u) = u * NanoPerUsec
  BY DEF TimeFromSql, usecs_to_duration, Nanos, Quot, Rem, NanoPerSec, UsecPerSec, NanoPerUsec

\* What FromSql makes of a stored time is the same for both types, too.
THEOREM ReadAlike == \A u \in Int : TimeFromSql(u) = DateTimeFromSql(u)
  BY ReadAsMicros DEF DateTimeFromSql, Duration, Nanos, Quot, Rem, NanoPerSec, UsecPerSec, NanoPerUsec

\* The order of two times is not inverted by storing them, as max(start_time)
\* in get_timers needs.
THEOREM OrderKept == \A t1, t2 \in Int : t1 <= t2 => TimeToSql(t1) <= TimeToSql(t2)
  BY StoredAlike, QuotMonotone

\* A time of whole microseconds is read as it was stored.
THEOREM WholeUsecsKept == \A u \in Int : TimeFromSql(TimeToSql(u * NanoPerUsec)) = u * NanoPerUsec
<1>1. TAKE u \in Int
<1>2. u * NanoPerUsec \in Int
  BY DEF NanoPerUsec
<1>3. TimeToSql(u * NanoPerUsec) = u
  BY <1>2, StoredAlike, QuotExact
<1>4. QED
  BY <1>3, ReadAsMicros

\* A start time on the wire is stored relative to PostgreSQL's epoch, and comes back.
LEMMA WireKept ==
  \A w \in Starts : /\ TimeToSql(FromWire(w)) = w - PgEpoch
                    /\ ToWire(TimeFromSql(TimeToSql(FromWire(w)))) = w
                    /\ TimeReadable(TimeToSql(FromWire(w)))
<1>1. TAKE w \in Starts
<1>2. w \in Int /\ PgEpoch \in Int
  BY ApiAssumption
<1>3. FromWire(w) \in Int /\ FromWire(w) = (w - PgEpoch) * NanoPerUsec /\ w - PgEpoch \in Int
  BY <1>2 DEF FromWire, NanoPerUsec
<1>4. TimeToSql(FromWire(w)) = w - PgEpoch
  BY <1>3, StoredAlike, QuotExact
<1>5. TimeFromSql(w - PgEpoch) + PgEpoch * NanoPerUsec = w * NanoPerUsec
  BY <1>2, <1>3, ReadAsMicros DEF NanoPerUsec
<1>6. TimeReadable(w - PgEpoch)
  BY <1>3, ReadAsMicros, ApiAssumption DEF TimeReadable
<1>7. QED
  BY <1>2, <1>4, <1>5, <1>6, QuotExact DEF ToWire

-----------------------------------------------------------------------------
(* Lengths.                                                                *)

\* What is stored of a length, and what the length read back amounts to.
LEMMA StoredAmount ==
  ASSUME NEW x \in [SpanUnits -> Int]
  PROVE  /\ LengthToSql(x) = Interval(Months(x), Days(x), Micros(x))
         /\ LengthToSql(x) \in [StoredUnits -> Int]
         /\ LengthFromSql(LengthToSql(x)) \in [SpanUnits -> Int]
         /\ Amount(LengthFromSql(LengthToSql(x))) = Amount(x)
         /\ LengthReadable(LengthToSql(x)) <=> ~TooLong(x)
<1>1. \A y \in SpanUnits : x[y] \in Int
  OBVIOUS
<1>2. /\ UsecPer.hours \in Nat /\ UsecPer.minutes \in Nat /\ UsecPer.seconds \in Nat
      /\ UsecPer.millis \in Nat
  BY PgTypesAssumption DEF ClockUnits
<1>3. /\ x.years \in Int /\ x.months \in Int /\ x.weeks \in Int /\ x.days \in Int
      /\ x.hours \in Int /\ x.minutes \in Int /\ x.seconds \in Int /\ x.millis \in Int
      /\ x.micros \in Int
  BY <1>1 DEF SpanUnits, StoredUnits, ClockUnits
<1>4. /\ x.years * 12 + x.months = Months(x) /\ x.weeks * 7 + x.days = Days(x)
      /\ Months(x) \in Int /\ Days(x) \in Int
  BY <1>3 DEF Months, Days
<1>5. /\ x.hours * UsecPer.hours + x.minutes * UsecPer.minutes + x.seconds * UsecPer.seconds
            + x.millis * UsecPer.millis + x.micros = Micros(x)
      /\ Micros(x) \in Int
  BY <1>2, <1>3 DEF Micros
<1>6. LengthToSql(x) = Interval(Months(x), Days(x), Micros(x))
  BY <1>4, <1>5 DEF LengthToSql
<1>7. LengthToSql(x) \in [StoredUnits -> Int]
  BY <1>4, <1>5, <1>6 DEF Interval, StoredUnits
<1> DEFINE y == LengthFromSql(LengthToSql(x))
<1>8. /\ y \in [SpanUnits -> Int]
      /\ y.years = 0 /\ y.weeks = 0 /\ y.hours = 0 /\ y.minutes = 0 /\ y.seconds = 0 /\ y.millis = 0
      /\ y.months = Months(x) /\ y.days = Days(x) /\ y.micros = Micros(x)
  BY <1>4, <1>5, <1>6 DEF LengthFromSql, Interval, SpanUnits, StoredUnits, ClockUnits
<1>9. Months(y) = Months(x) /\ Days(y) = Days(x)
  BY <1>4, <1>8 DEF Months, Days
<1>10. Micros(y) = Micros(x)
  <2>1. Micros(y) = 0 * UsecPer.hours + 0 * UsecPer.minutes + 0 * UsecPer.seconds
                      + 0 * UsecPer.millis + Micros(x)
    BY <1>8 DEF Micros
  <2>2. QED
    BY <2>1, <1>2, <1>5
<1>11. LengthReadable(LengthToSql(x)) <=> ~TooLong(x)
  BY <1>6 DEF LengthReadable, Interval, TooLong
<1>12. QED
  BY <1>6, <1>7, <1>8, <1>9, <1>10, <1>11 DEF Amount

\* An interval that can be read is stored unchanged again: reading a split and
\* sending it back moves nothing.
THEOREM IntervalKept ==
  ASSUME NEW i \in [StoredUnits -> Int]
  PROVE  LengthToSql(LengthFromSql(i)) = Interval(i.months, i.days, i.micros)
<1>1. /\ UsecPer.hours \in Nat /\ UsecPer.minutes \in Nat /\ UsecPer.seconds \in Nat
      /\ UsecPer.millis \in Nat
  BY PgTypesAssumption DEF ClockUnits
<1>2. i.months \in Int /\ i.days \in Int /\ i.micros \in Int
  BY DEF StoredUnits
<1> DEFINE y == LengthFromSql(i)
<1>3. /\ y.years = 0 /\ y.weeks = 0 /\ y.hours = 0 /\ y.minutes = 0 /\ y.seconds = 0 /\ y.millis = 0
      /\ y.months = i.months /\ y.days = i.days /\ y.micros = i.micros
  BY DEF LengthFromSql, SpanUnits, StoredUnits, ClockUnits
<1>4. /\ y.years * 12 + y.months = i.months
      /\ y.weeks * 7 + y.days = i.days
  BY <1>2, <1>3
<1>5. y.hours * UsecPer.hours + y.minutes * UsecPer.minutes + y.seconds * UsecPer.seconds
        + y.millis * UsecPer.millis + y.micros = i.micros
  <2>1. /\ y.hours * UsecPer.hours = 0 * UsecPer.hours
        /\ y.minutes * UsecPer.minutes = 0 * UsecPer.minutes
        /\ y.seconds * UsecPer.seconds = 0 * UsecPer.seconds
        /\ y.millis * UsecPer.millis = 0 * UsecPer.millis
    BY <1>3
  <2>2. QED
    BY <2>1, <1>1, <1>2, <1>3
<1>6. QED
  BY <1>4, <1>5 DEF LengthToSql

-----------------------------------------------------------------------------
(* The type invariant.                                                     *)

LEMMA SentIsSpan == \A x \in Lengths \cup {Seeded, NoLength} : x \in [SpanUnits -> Int]
  BY ApiAssumption DEF IsSpan, NoLength

SplitsOK ==
  /\ splits \in Seq(SplitRow)
  /\ \A s \in DOMAIN splits : splits[s].stored = LengthToSql(splits[s].sent)

SheetOK ==
  /\ DOMAIN sheet = Keys
  /\ \A k \in Keys : sheet[k] # NoRow =>
       /\ sheet[k].split \in DOMAIN splits /\ sheet[k].sent \in Starts
       /\ k[2] = TimeToSql(FromWire(sheet[k].sent))

AnswerOK ==
  answer.user \in Callers /\ answer.cause \in Causes /\ service \in {"up", "down"}

\* Nobody adds a split in the name of an anonymous caller: it owns the seeded one.
SeededOnly == \A s \in DOMAIN splits : splits[s].owner = Nil => splits[s].sent = Seeded

\* The inductive invariant: TypeOK says of all rows, not only of those read, that
\* they hold what was sent; SeededOnly keeps the anonymous callers from aborting it.
IInv == SplitsOK /\ SheetOK /\ AnswerOK /\ SeededOnly

LEMMA InitIInv == Init => IInv
<1> SUFFICES ASSUME Init PROVE IInv
  OBVIOUS
<1>1. LengthToSql(Seeded) \in [StoredUnits -> Int]
  BY SentIsSpan, StoredAmount
<1>2. Row(Nil, Seeded, "live") \in SplitRow
  BY <1>1 DEF Row, SplitRow, Callers
<1>3. SplitsOK /\ SeededOnly
  BY <1>2 DEF Init, Row, SplitsOK, SeededOnly
<1>4. SheetOK
  BY DEF Init, SheetOK
<1>5. AnswerOK
  BY DEF Init, AnswerOK, NoAnswer, Callers, Causes
<1>6. QED
  BY <1>3, <1>4, <1>5 DEF IInv

\* What a step does to the splits: nothing, one more of a user, or fewer timers.
Added(u, sent, timer) == splits' = Append(splits, Row(u, sent, timer))

Dropped(s) ==
  splits' = [splits EXCEPT ![s].deleted = TRUE,
                           ![s].timer = IF @ = "live" THEN "deleted" ELSE @]

TimerDropped(s) == splits' = [splits EXCEPT ![s].timer = IF @ = "live" THEN "deleted" ELSE @]

LEMMA AddedKeeps ==
  ASSUME IInv, NEW u \in Users, NEW sent \in Lengths \cup {NoLength}, NEW timer \in {"live", "none"},
         Added(u, sent, timer)
  PROVE  /\ SplitsOK' /\ SeededOnly' /\ DOMAIN splits \subseteq DOMAIN splits'
         /\ Len(splits') \in DOMAIN splits' /\ splits'[Len(splits')] = Row(u, sent, timer)
<1>1. sent \in [SpanUnits -> Int]
  BY SentIsSpan
<1>2. LengthToSql(sent) \in [StoredUnits -> Int]
  BY <1>1, StoredAmount
<1>3. Row(u, sent, timer) \in SplitRow
  BY <1>2 DEF Row, SplitRow, Callers
<1>4. /\ splits' \in Seq(SplitRow) /\ Len(splits') = Len(splits) + 1 /\ Len(splits) \in Nat
      /\ \A s \in 1..Len(splits) : splits'[s] = splits[s]
      /\ splits'[Len(splits')] = Row(u, sent, timer)
      /\ DOMAIN splits = 1..Len(splits) /\ DOMAIN splits' = 1..Len(splits')
  BY <1>3 DEF IInv, SplitsOK, Added
<1>5. \A s \in DOMAIN splits' : (s \in DOMAIN splits /\ splits'[s] = splits[s])
                             \/ splits'[s] = Row(u, sent, timer)
  BY <1>4
<1>6. SplitsOK'
  BY <1>4, <1>5 DEF IInv, SplitsOK, Row
<1>7. SeededOnly'
  BY <1>5, ApiAssumption DEF IInv, SeededOnly, Row
<1>8. QED
  BY <1>4, <1>6, <1>7

LEMMA DroppedKeeps ==
  ASSUME IInv, NEW s \in DOMAIN splits, Dropped(s) \/ TimerDropped(s)
  PROVE  SplitsOK' /\ SeededOnly' /\ DOMAIN splits' = DOMAIN splits
<1>1. /\ splits \in Seq(SplitRow) /\ \A t \in DOMAIN splits : splits[t] \in SplitRow
      /\ DOMAIN splits = 1..Len(splits)
  BY DEF IInv, SplitsOK
<1>2. PICK row \in SplitRow :
        /\ row.owner = splits[s].owner /\ row.sent = splits[s].sent /\ row.stored = splits[s].stored
        /\ splits' = [splits EXCEPT ![s] = row]
  <2>1. CASE Dropped(s)
    <3> DEFINE new == [splits[s] EXCEPT !.deleted = TRUE,
                                        !.timer = IF @ = "live" THEN "deleted" ELSE @]
    <3>1. new \in SplitRow
      BY <1>1 DEF SplitRow
    <3>2. /\ new.owner = splits[s].owner /\ new.sent = splits[s].sent /\ new.stored = splits[s].stored
      BY <1>1 DEF SplitRow
    <3>3. splits' = [splits EXCEPT ![s] = new]
      BY <2>1, <1>1 DEF Dropped, SplitRow
    <3>4. QED
      BY <3>1, <3>2, <3>3
  <2>2. CASE TimerDropped(s)
    <3> DEFINE new == [splits[s] EXCEPT !.timer = IF @ = "live" THEN "deleted" ELSE @]
    <3>1. new \in SplitRow
      BY <1>1 DEF SplitRow
    <3>2. /\ new.owner = splits[s].owner /\ new.sent = splits[s].sent /\ new.stored = splits[s].stored
      BY <1>1 DEF SplitRow
    <3>3. splits' = [splits EXCEPT ![s] = new]
      BY <2>2, <1>1 DEF TimerDropped, SplitRow
    <3>4. QED
      BY <3>1, <3>2, <3>3
  <2>3. QED
    BY <2>1, <2>2
<1>3. splits' \in Seq(SplitRow) /\ DOMAIN splits' = DOMAIN splits
  BY <1>1, <1>2
<1>4. \A t \in DOMAIN splits' : /\ splits'[t].owner = splits[t].owner
                                /\ splits'[t].sent = splits[t].sent
                                /\ splits'[t].stored = splits[t].stored
  BY <1>1, <1>2, <1>3
<1>5. QED
  BY <1>3, <1>4 DEF IInv, SplitsOK, SeededOnly

\* No step takes a split away, so a timesheet row that stays is as it was.
LEMMA SheetKept ==
  ASSUME IInv, UNCHANGED sheet, DOMAIN splits \subseteq DOMAIN splits'
  PROVE  SheetOK'
  BY DEF IInv, SheetOK

LEMMA SheetWritten ==
  ASSUME IInv, UNCHANGED splits, NEW u \in Users, NEW s \in DOMAIN splits, NEW w \in Starts,
         sheet' = [sheet EXCEPT ![<<u, TimeToSql(FromWire(w))>>] = [split |-> s, sent |-> w]]
  PROVE  SheetOK'
<1> DEFINE k == <<u, TimeToSql(FromWire(w))>>
<1>1. k \in Keys /\ k[2] = TimeToSql(FromWire(w))
  BY DEF Keys, Stored
<1>2. /\ DOMAIN sheet' = Keys
      /\ \A l \in Keys : sheet'[l] = IF l = k THEN [split |-> s, sent |-> w] ELSE sheet[l]
  BY <1>1 DEF IInv, SheetOK
<1> HIDE DEF k
<1>3. QED
  BY <1>1, <1>2 DEF IInv, SheetOK

\* One call, as all the actions of Serve are: it is answered, and the splits and the
\* timesheet are as the invariant wants them.
LEMMA ServeKeeps ==
  ASSUME IInv, Serve
  PROVE  SplitsOK' /\ SheetOK' /\ SeededOnly'
<1>1. ASSUME UNCHANGED <<splits, sheet>> PROVE SplitsOK' /\ SheetOK' /\ SeededOnly'
  BY <1>1 DEF IInv, SplitsOK, SheetOK, SeededOnly
<1>2. ASSUME NEW h \in Handlers, RefuseSession(h) \/ AskForLogin(h)
      PROVE  SplitsOK' /\ SheetOK' /\ SeededOnly'
  BY <1>1, <1>2 DEF RefuseSession, AskForLogin
<1>3. ASSUME NEW h \in Handlers, NEW u \in Callers, RefuseRequest(h, u) \/ Fail(h, u) \/ Other(h, u) \/ Unreachable(h, u)
      PROVE  SplitsOK' /\ SheetOK' /\ SeededOnly'
  BY <1>1, <1>3 DEF RefuseRequest, Fail, Other, Unreachable
<1>4. ASSUME NEW u \in Users, NEW sent \in Lengths, CreateTimeSplit(u, sent)
      PROVE  SplitsOK' /\ SheetOK' /\ SeededOnly'
  <2>1. Added(u, sent, "live") /\ UNCHANGED sheet
    BY <1>4 DEF CreateTimeSplit, Added
  <2>2. QED
    BY <2>1, AddedKeeps, SheetKept
<1>5. ASSUME NEW u \in Users, CreateWithoutTimers(u)
      PROVE  SplitsOK' /\ SheetOK' /\ SeededOnly'
  <2>1. Added(u, NoLength, "none") /\ UNCHANGED sheet
    BY <1>5 DEF CreateWithoutTimers, Added
  <2>2. QED
    BY <2>1, AddedKeeps, SheetKept
<1>6. ASSUME NEW u \in Users, NEW s \in DOMAIN splits, DeleteTimeSplit(u, s)
      PROVE  SplitsOK' /\ SheetOK' /\ SeededOnly'
  <2>1. UNCHANGED sheet /\ (Dropped(s) \/ UNCHANGED splits)
    BY <1>6 DEF DeleteTimeSplit, Dropped
  <2>2. QED
    BY <2>1, <1>1, DroppedKeeps, SheetKept
<1>7. ASSUME NEW u \in Users, NEW s \in DOMAIN splits, DeleteTimersOnly(u, s)
      PROVE  SplitsOK' /\ SheetOK' /\ SeededOnly'
  <2>1. UNCHANGED sheet /\ TimerDropped(s)
    BY <1>7 DEF DeleteTimersOnly, TimerDropped
  <2>2. QED
    BY <2>1, DroppedKeeps, SheetKept
<1>8. ASSUME NEW u \in Users, NEW s \in DOMAIN splits, NEW w \in Starts,
             PostTimer(u, s, w) \/ ModifyTimer(u, s, w)
      PROVE  SplitsOK' /\ SheetOK' /\ SeededOnly'
  <2>1. /\ UNCHANGED splits
        /\ \/ UNCHANGED sheet
           \/ sheet' = [sheet EXCEPT ![<<u, TimeToSql(FromWire(w))>>] = [split |-> s, sent |-> w]]
    BY <1>8 DEF PostTimer, ModifyTimer
  <2>2. SplitsOK' /\ SeededOnly'
    BY <2>1 DEF IInv, SplitsOK, SeededOnly
  <2>3. QED
    BY <2>1, <2>2, <1>1, SheetWritten
<1>9. ASSUME NEW u \in Callers, GetTimeSplits(u) \/ GetTimers(u)
      PROVE  SplitsOK' /\ SheetOK' /\ SeededOnly'
  BY <1>1, <1>9 DEF GetTimeSplits, GetTimers
<1>10. QED
  BY <1>2, <1>3, <1>4, <1>5, <1>6, <1>7, <1>8, <1>9 DEF Serve

\* Every call ends, for one of the callers and of the causes.
LEMMA ServeAnswers ==
  ASSUME AnswerOK, Serve
  PROVE  AnswerOK'
<1> USE DEF AnswerOK, Answer, Unanswered, Ends, Done, Panicked, Failed, Callers, Causes
<1>1. ASSUME NEW h \in Handlers, RefuseSession(h) \/ AskForLogin(h) PROVE AnswerOK'
  BY <1>1 DEF RefuseSession, AskForLogin
<1>2. ASSUME NEW h \in Handlers, NEW u \in Callers, RefuseRequest(h, u) \/ Fail(h, u) \/ Other(h, u) \/ Unreachable(h, u)
      PROVE  AnswerOK'
  BY <1>2 DEF RefuseRequest, Fail, Other, Unreachable
<1>3. ASSUME NEW u \in Users, NEW sent \in Lengths, CreateTimeSplit(u, sent) PROVE AnswerOK'
  BY <1>3 DEF CreateTimeSplit
<1>4. ASSUME NEW u \in Users, CreateWithoutTimers(u) PROVE AnswerOK'
  BY <1>4 DEF CreateWithoutTimers
<1>5. ASSUME NEW u \in Users, NEW s \in DOMAIN splits, DeleteTimeSplit(u, s) \/ DeleteTimersOnly(u, s)
      PROVE  AnswerOK'
  BY <1>5 DEF DeleteTimeSplit, DeleteTimersOnly
<1>6. ASSUME NEW u \in Users, NEW s \in DOMAIN splits, NEW w \in Starts,
             PostTimer(u, s, w) \/ ModifyTimer(u, s, w)
      PROVE  AnswerOK'
  BY <1>6 DEF PostTimer, ModifyTimer
<1>7. ASSUME NEW u \in Callers, GetTimeSplits(u) PROVE AnswerOK'
  BY <1>7 DEF GetTimeSplits
<1>8. ASSUME NEW u \in Callers, GetTimers(u) PROVE AnswerOK'
  BY <1>8 DEF GetTimers
<1>9. QED
  BY <1>1, <1>2, <1>3, <1>4, <1>5, <1>6, <1>7, <1>8 DEF Serve

LEMMA StepIInv == IInv /\ [Next]_vars => IInv'
<1> SUFFICES ASSUME IInv, [Next]_vars PROVE IInv'
  OBVIOUS
<1>1. CASE Serve
  <2>1. AnswerOK'
    BY <1>1, ServeAnswers DEF IInv
  <2>2. QED
    BY <2>1, <1>1, ServeKeeps DEF IInv
<1>2. CASE Read
  BY <1>2 DEF Read, IInv, SplitsOK, SheetOK, SeededOnly, AnswerOK, NoAnswer, Callers, Causes
<1>3. CASE CutOff
  <2>1. /\ UNCHANGED sheet
        /\ \/ UNCHANGED splits
           \/ \E u \in Users, sent \in Lengths : Added(u, sent, "live")
    BY <1>3 DEF CutOff, Added
  <2>2. SplitsOK' /\ SheetOK' /\ SeededOnly'
    <3>1. CASE UNCHANGED splits
      BY <2>1, <3>1 DEF IInv, SplitsOK, SheetOK, SeededOnly
    <3>2. CASE \E u \in Users, sent \in Lengths : Added(u, sent, "live")
      BY <2>1, <3>2, AddedKeeps, SheetKept
    <3>3. QED
      BY <2>1, <3>1, <3>2
  <2>3. AnswerOK'
    BY <1>3 DEF CutOff, Unanswered, Ends, IInv, AnswerOK, Causes
  <2>4. QED
    BY <2>2, <2>3 DEF IInv
<1>4. CASE Restart
  BY <1>4 DEF Restart, IInv, SplitsOK, SheetOK, SeededOnly, AnswerOK
<1>5. CASE UNCHANGED vars
  BY <1>5 DEF vars, IInv, SplitsOK, SheetOK, SeededOnly, AnswerOK
<1>6. QED
  BY <1>1, <1>2, <1>3, <1>4, <1>5 DEF Next

LEMMA IInvHolds == Spec => []IInv
  BY InitIInv, StepIInv, PTL DEF Spec

\* What is stored of a length is always the image of what was sent, whoever adds,
\* deletes and half deletes splits.
THEOREM TypeCorrect == Spec => []TypeOK
<1>1. IInv => TypeOK
  BY DEF IInv, SplitsOK, SheetOK, AnswerOK, TypeOK
<1>2. QED
  BY <1>1, IInvHolds, PTL

-----------------------------------------------------------------------------
(* What the answers say.  An answer is about the state that its call left, *)
(* and the client reads it before the next call: each property is shown of *)
(* the call that gives the answer.                                         *)

AnswersOK == ListedAsSent /\ AbortsOverLongLengths /\ LatestAsPosted

LEMMA RoutesAtTimekeeper ==
  \A route \in {"create_time_split", "get_time_splits", "delete_time_split", "get_timers"} :
    AtTimekeeper(route)
<1> DEFINE create == Handler("create_time_split", TRUE, TRUE, {422}, <<"InsertablePackagedTimeSplit">>, "PackagedTimeSplit")
           list == Handler("get_time_splits", FALSE, FALSE, {500}, <<>>, "PackagedTimeSplits")
           delete == Handler("delete_time_split", FALSE, TRUE, {500}, <<"i32">>, "unit")
           latest == Handler("get_timers", FALSE, FALSE, {500}, <<>>, "Timers")
<1>1. {create, list, delete, latest} \subseteq TimekeeperHandlers
  BY DEF TimekeeperHandlers, TimeSplitHandlers, TimerHandlers
<1>2. /\ create.route = "create_time_split" /\ list.route = "get_time_splits"
      /\ delete.route = "delete_time_split" /\ latest.route = "get_timers"
  BY DEF Handler
<1> HIDE DEF create, list, delete, latest
<1>3. QED
  BY <1>1, <1>2 DEF AtTimekeeper

\* Whoever is to blame stays so as long as the splits stay as they are.
LEMMA SameCulprits == UNCHANGED splits => Culprits' = Culprits
  BY DEF Culprits

\* A length that cannot be read is too long, and its owner, who is not anonymous, is
\* to blame.
LEMMA UnreadableIsTooLong ==
  ASSUME IInv, NEW s \in DOMAIN splits, ~LengthReadable(splits[s].stored)
  PROVE  splits[s].owner \in Culprits \cap Users
<1>1. splits[s] \in SplitRow /\ splits[s].stored = LengthToSql(splits[s].sent)
  BY DEF IInv, SplitsOK
<1>2. splits[s].sent \in [SpanUnits -> Int]
  BY <1>1, SentIsSpan DEF SplitRow
<1>3. TooLong(splits[s].sent)
  BY <1>1, <1>2, StoredAmount
<1>4. splits[s].owner \in Culprits
  BY <1>3 DEF Culprits
<1>5. splits[s].owner \in Users
  <2>1. splits[s].sent # Seeded
    BY <1>1, ApiAssumption
  <2>2. splits[s].owner # Nil
    BY <2>1 DEF IInv, SeededOnly
  <2>3. QED
    BY <1>1, <2>2 DEF SplitRow, Callers
<1>6. QED
  BY <1>4, <1>5

LEMMA ListingPanics ==
  ASSUME IInv, NEW u, ~ReadsAll(u)
  PROVE  u \in Culprits \cap Users
<1>1. PICK s \in DOMAIN splits : splits[s].owner = u /\ ~LengthReadable(splits[s].stored)
  BY DEF ReadsAll, ListableBy
<1>2. QED
  BY <1>1, UnreadableIsTooLong

LEMMA UnreadableIsAdded ==
  ASSUME IInv, NEW u \in Users, NEW sent \in Lengths, Added(u, sent, "live"),
         ~LengthReadable(LengthToSql(sent))
  PROVE  u \in Culprits'
<1>1. Len(splits') \in DOMAIN splits' /\ splits'[Len(splits')] = Row(u, sent, "live")
  BY AddedKeeps
<1>2. TooLong(sent)
  BY SentIsSpan, StoredAmount
<1>3. QED
  BY <1>1, <1>2 DEF Culprits, Row

\* No property says anything of an answer of another route or cause, where a service
\* that is down leaves the splits as they are.
LEMMA OtherAnswers ==
  ASSUME AbortsOverLongLengths, UNCHANGED service, service = "up" \/ UNCHANGED splits,
         answer'.cause \notin {"panic", "cut"}, answer'.cause = "down" => service = "down",
         service \in {"up", "down"},
         answer'.cause = "done" =>
           /\ answer'.route \notin {"get_time_splits", "get_timers"}
           /\ answer'.route = "create_time_split" => answer'.value = <<>>
  PROVE  AnswersOK'
<1>1. ListedAsSent' /\ LatestAsPosted'
  BY DEF ListedAsSent, LatestAsPosted, Answered
<1>2. AbortsOverLongLengths'
  <2>1. CASE service = "up"
    BY <2>1 DEF AbortsOverLongLengths
  <2>2. CASE service = "down"
    <3>1. Culprits' # {}
      BY <2>2, SameCulprits DEF AbortsOverLongLengths
    <3>2. QED
      BY <3>1 DEF AbortsOverLongLengths
  <2>3. QED
    BY <2>1, <2>2
<1>3. QED
  BY <1>1, <1>2 DEF AnswersOK

\* The length that create_time_split answers with, or its panic.
LEMMA CreateAnswers ==
  ASSUME IInv, NEW u \in Users, NEW sent \in Lengths, CreateTimeSplit(u, sent)
  PROVE  AnswersOK'
<1>1. /\ SplitsOK' /\ Len(splits') \in DOMAIN splits' /\ splits'[Len(splits')] = Row(u, sent, "live")
  BY AddedKeeps DEF CreateTimeSplit, Added
<1>2. sent \in [SpanUnits -> Int]
  BY SentIsSpan
<1>3. CASE LengthReadable(LengthToSql(sent))
  <2>1. /\ answer'.route = "create_time_split" /\ answer'.cause = "done"
        /\ answer'.value = <<LengthFromSql(LengthToSql(sent))>> /\ service' = "up"
    BY <1>3, RoutesAtTimekeeper DEF CreateTimeSplit, Done, Answer, Ends
  <2>2. Amount(answer'.value[1]) = Amount(sent)
    BY <2>1, <1>2, StoredAmount
  <2>3. splits'[Len(splits')].sent = sent
    BY <1>1 DEF Row
  <2>4. QED
    BY <2>1, <2>2, <2>3 DEF AnswersOK, ListedAsSent, AbortsOverLongLengths, LatestAsPosted, Answered
<1>4. CASE ~LengthReadable(LengthToSql(sent))
  <2>1. answer'.cause = "panic" /\ answer'.user = u
    BY <1>4 DEF CreateTimeSplit, Panicked, Unanswered, Ends
  <2>2. u \in Culprits'
    BY <1>4, UnreadableIsAdded DEF CreateTimeSplit, Added
  <2>3. QED
    BY <2>1, <2>2 DEF AnswersOK, AbortsOverLongLengths, ListedAsSent, LatestAsPosted, Answered
<1>5. QED
  BY <1>3, <1>4

LEMMA ListAnswers ==
  ASSUME IInv, NEW u \in Callers, GetTimeSplits(u)
  PROVE  AnswersOK'
<1>1. UNCHANGED <<splits, sheet>>
  BY DEF GetTimeSplits
<1>2. /\ \A s \in DOMAIN splits : splits[s] \in SplitRow
      /\ \A s \in DOMAIN splits : splits[s].stored = LengthToSql(splits[s].sent)
      /\ \A s \in DOMAIN splits : splits[s].sent \in [SpanUnits -> Int]
  <2>1. \A s \in DOMAIN splits : splits[s] \in SplitRow
    BY DEF IInv, SplitsOK
  <2>2. \A s \in DOMAIN splits : splits[s].sent \in Lengths \cup {Seeded, NoLength}
    BY <2>1 DEF SplitRow
  <2>3. QED
    BY <2>1, <2>2, SentIsSpan DEF IInv, SplitsOK
<1>3. CASE ReadsAll(u)
  <2>1. /\ answer'.route = "get_time_splits" /\ answer'.cause = "done" /\ answer'.user = u
        /\ answer'.value = ListingOf(u) /\ service' = "up"
    BY <1>3, RoutesAtTimekeeper DEF GetTimeSplits, Done, Answer, Ends
  <2>2. \A s \in ListableBy(u) :
          IF Live(s) THEN /\ Len(ListingOf(u)[s]) = 1
                          /\ Amount(ListingOf(u)[s][1]) = Amount(splits[s].sent)
                     ELSE ListingOf(u)[s] = <<>>
    <3>1. TAKE s \in ListableBy(u)
    <3>2. s \in DOMAIN splits
      BY DEF ListableBy
    <3>3. CASE Live(s)
      <4>1. ListingOf(u)[s] = <<LengthFromSql(LengthToSql(splits[s].sent))>>
        BY <1>2, <3>2, <3>3 DEF ListingOf
      <4>2. Amount(LengthFromSql(LengthToSql(splits[s].sent))) = Amount(splits[s].sent)
        BY <1>2, <3>2, StoredAmount
      <4>3. QED
        BY <3>3, <4>1, <4>2
    <3>4. CASE ~Live(s)
      BY <3>4 DEF ListingOf
    <3>5. QED
      BY <3>3, <3>4
  <2>3. DOMAIN ListingOf(u) = ListableBy(u)
    BY DEF ListingOf
  <2>4. /\ ListableBy(u)' = ListableBy(u) /\ \A s : Live(s)' <=> Live(s)
    BY <1>1 DEF ListableBy, Live
  <2>5. ListedAsSent'
    BY <1>1, <2>1, <2>2, <2>3, <2>4 DEF ListedAsSent, Answered
  <2>6. QED
    BY <2>1, <2>5 DEF AnswersOK, AbortsOverLongLengths, LatestAsPosted, Answered
<1>4. CASE ~ReadsAll(u)
  <2>1. answer'.cause = "panic" /\ answer'.user = u
    BY <1>4 DEF GetTimeSplits, Panicked, Unanswered, Ends
  <2>2. u \in Culprits' \cap Users
    BY <1>1, <1>4, ListingPanics, SameCulprits
  <2>3. QED
    BY <2>1, <2>2 DEF AnswersOK, AbortsOverLongLengths, ListedAsSent, LatestAsPosted, Answered
<1>5. QED
  BY <1>3, <1>4

LEMMA TimerAnswers ==
  ASSUME IInv, NEW u \in Callers, GetTimers(u)
  PROVE  AnswersOK'
<1>1. UNCHANGED <<splits, sheet>>
  BY DEF GetTimers
<1> DEFINE rows == VisibleRows(u)
           posted == {sheet[k].sent : k \in rows}
<1>2. VisibleRows(u)' = rows
  BY <1>1 DEF VisibleRows, Live
<1>3. \A k \in rows : /\ sheet[k].sent \in Starts /\ k[2] = TimeToSql(FromWire(sheet[k].sent))
                      /\ k[2] = sheet[k].sent - PgEpoch
                      /\ ToWire(TimeFromSql(k[2])) = sheet[k].sent
                      /\ TimeReadable(k[2])
  BY WireKept DEF VisibleRows, IInv, SheetOK
<1>4. /\ answer'.route = "get_timers" /\ answer'.cause = "done" /\ answer'.user = u
      /\ service' = "up"
      /\ \/ rows = {} /\ answer'.value = <<>>
         \/ \E k \in Newest(rows) : answer'.value = <<ToWire(TimeFromSql(k[2]))>>
  BY <1>3, RoutesAtTimekeeper DEF GetTimers, Newest, Done, Answer, Ends
<1>5. IF posted = {} THEN answer'.value = <<>>
      ELSE answer'.value[1] \in posted /\ \A w \in posted : w <= answer'.value[1]
  <2>1. CASE rows = {}
    BY <2>1, <1>4 DEF Newest
  <2>2. CASE rows # {}
    <3>1. PICK k \in Newest(rows) : answer'.value = <<ToWire(TimeFromSql(k[2]))>>
      BY <2>2, <1>4
    <3>2. k \in rows /\ \A l \in rows : l[2] <= k[2]
      BY <3>1 DEF Newest
    <3>3. answer'.value[1] = sheet[k].sent
      BY <1>3, <3>1, <3>2
    <3>4. \A l \in rows : sheet[l].sent <= sheet[k].sent
      <4>1. \A l \in rows : sheet[l].sent \in Int /\ l[2] = sheet[l].sent - PgEpoch
        BY <1>3, ApiAssumption
      <4>2. PgEpoch \in Int
        BY ApiAssumption
      <4> HIDE DEF rows
      <4>3. QED
        BY <3>2, <4>1, <4>2
    <3>5. QED
      BY <3>2, <3>3, <3>4
  <2>3. QED
    BY <2>1, <2>2
<1>6. LatestAsPosted'
  BY <1>1, <1>2, <1>5, <1>4 DEF LatestAsPosted
<1>7. QED
  BY <1>4, <1>6 DEF AnswersOK, ListedAsSent, AbortsOverLongLengths, Answered

LEMMA ServeSays ==
  ASSUME IInv, AbortsOverLongLengths, Serve
  PROVE  AnswersOK'
<1>1. ASSUME UNCHANGED service, service = "up" \/ UNCHANGED splits,
             answer'.cause \notin {"panic", "cut"}, answer'.cause = "down" => service = "down",
             answer'.cause = "done" =>
               /\ answer'.route \notin {"get_time_splits", "get_timers"}
               /\ answer'.route = "create_time_split" => answer'.value = <<>>
      PROVE  AnswersOK'
  BY <1>1, OtherAnswers DEF IInv, AnswerOK
<1>2. ASSUME NEW h \in Handlers, RefuseSession(h) \/ AskForLogin(h) PROVE AnswersOK'
  BY <1>1, <1>2 DEF RefuseSession, AskForLogin, Answer, Ends
<1>3. ASSUME NEW h \in Handlers, NEW u \in Callers,
             RefuseRequest(h, u) \/ Fail(h, u) \/ Unreachable(h, u)
      PROVE  AnswersOK'
  BY <1>1, <1>3 DEF RefuseRequest, Fail, Unreachable, Failed, Unanswered, Answer, Ends
<1>4. ASSUME NEW h \in Handlers, NEW u \in Callers, Other(h, u) PROVE AnswersOK'
  <2>1. OtherRoutes \cap {"get_time_splits", "get_timers", "create_time_split"} = {}
    BY DEF OtherRoutes, TagHandlers, ProfileHandlers, Handler
  <2>2. answer'.cause = "done" /\ answer'.route \in OtherRoutes /\ UNCHANGED <<splits, service>>
    BY <1>4 DEF Other, Done, Answer, Ends
  <2>3. QED
    BY <1>1, <2>1, <2>2
<1>5. ASSUME NEW u \in Users, NEW sent \in Lengths, CreateTimeSplit(u, sent) PROVE AnswersOK'
  BY <1>5, CreateAnswers
<1>6. ASSUME NEW u \in Users, CreateWithoutTimers(u) PROVE AnswersOK'
  BY <1>1, <1>6, RoutesAtTimekeeper DEF CreateWithoutTimers, Done, Failed, Answer, Ends
<1>7. ASSUME NEW u \in Users, NEW s \in DOMAIN splits, DeleteTimeSplit(u, s) \/ DeleteTimersOnly(u, s)
      PROVE  AnswersOK'
  BY <1>1, <1>7, RoutesAtTimekeeper DEF DeleteTimeSplit, DeleteTimersOnly, Done, Failed, Answer, Ends
<1>8. ASSUME NEW u \in Users, NEW s \in DOMAIN splits, NEW w \in Starts,
             PostTimer(u, s, w) \/ ModifyTimer(u, s, w)
      PROVE  AnswersOK'
  BY <1>1, <1>8 DEF PostTimer, ModifyTimer, Done, Answer, Ends
<1>9. ASSUME NEW u \in Callers, GetTimeSplits(u) PROVE AnswersOK'
  BY <1>9, ListAnswers
<1>10. ASSUME NEW u \in Callers, GetTimers(u) PROVE AnswersOK'
  BY <1>10, TimerAnswers
<1>11. QED
  BY <1>2, <1>3, <1>4, <1>5, <1>6, <1>7, <1>8, <1>9, <1>10 DEF Serve

\* Whichever of the two ways another's call panics, its caller is to blame.
LEMMA CutOffSays ==
  ASSUME IInv, CutOff
  PROVE  AnswersOK'
<1>1. answer'.cause = "cut" /\ answer'.value = <<>>
  BY DEF CutOff, Unanswered, Ends
<1>2. Culprits' # {}
  <2>1. CASE (\E s \in DOMAIN splits : ~LengthReadable(splits[s].stored)) /\ UNCHANGED splits
    BY <2>1, UnreadableIsTooLong, SameCulprits
  <2>2. CASE \E u \in Users, sent \in Lengths :
               ~LengthReadable(LengthToSql(sent)) /\ Added(u, sent, "live")
    BY <2>2, UnreadableIsAdded
  <2>3. QED
    BY <2>1, <2>2 DEF CutOff, Added
<1>3. QED
  BY <1>1, <1>2 DEF AnswersOK, AbortsOverLongLengths, ListedAsSent, LatestAsPosted, Answered

LEMMA AnswersHold == Spec => []AnswersOK
<1>1. Init => AnswersOK
  BY DEF Init, NoAnswer, AnswersOK, AbortsOverLongLengths, ListedAsSent, LatestAsPosted, Answered
<1>2. IInv /\ AnswersOK /\ [Next]_vars => AnswersOK'
  <2> SUFFICES ASSUME IInv, AnswersOK, [Next]_vars PROVE AnswersOK'
    OBVIOUS
  <2>1. CASE Serve
    BY <2>1, ServeSays DEF AnswersOK
  <2>2. CASE Read
    BY <2>2, OtherAnswers DEF Read, NoAnswer, AnswersOK, IInv, AnswerOK
  <2>3. CASE CutOff
    BY <2>3, CutOffSays
  <2>4. CASE Restart \/ UNCHANGED vars
    <3>1. UNCHANGED <<splits, sheet, answer>> /\ (service' = "up" \/ service' = service)
      BY <2>4 DEF Restart, vars
    <3>2. ListedAsSent' /\ LatestAsPosted'
      BY <3>1 DEF AnswersOK, ListedAsSent, LatestAsPosted, Answered, ListableBy, Live, VisibleRows
    <3>3. AbortsOverLongLengths'
      BY <3>1, SameCulprits DEF AnswersOK, AbortsOverLongLengths
    <3>4. QED
      BY <3>2, <3>3 DEF AnswersOK
  <2>5. QED
    BY <2>1, <2>2, <2>3, <2>4 DEF Next
<1>3. QED
  BY <1>1, <1>2, IInvHolds, PTL DEF Spec

\* For every length and every weight of the units: what is listed, and what a new
\* split is answered with, amounts to what was sent.
THEOREM AsSent == Spec => []ListedAsSent
<1>1. AnswersOK => ListedAsSent
  BY DEF AnswersOK
<1>2. QED
  BY <1>1, AnswersHold, PTL

\* For all limits of jiff: when the timekeeper goes down, some user has stored a length
\* that is too long for one of the three units of an interval, and it is such a
\* user's own call that panics.
THEOREM AbortsExplained == Spec => []AbortsOverLongLengths
<1>1. AnswersOK => AbortsOverLongLengths
  BY DEF AnswersOK
<1>2. QED
  BY <1>1, AnswersHold, PTL

\* For every start time and epoch: the largest stored time is that of the latest
\* start time, and it comes back as it was posted.
THEOREM LatestReturned == Spec => []LatestAsPosted
<1>1. AnswersOK => LatestAsPosted
  BY DEF AnswersOK
<1>2. QED
  BY <1>1, AnswersHold, PTL

-----------------------------------------------------------------------------
(* The descriptions: what the derive makes of the routes.                  *)

\* The items that a route is declared with.
Items(method, path, tag, responses, security) ==
  << <<method>>, <<"path", path>>, <<"tag", tag>>, <<"responses", responses>>, <<"security", security>> >>

\* The ways to identify oneself that a security item offers.
Offered(security) == {Names(security[i]) : i \in DOMAIN security}

\* Each item is of its own kind, whichever the method is.
LEMMA KindsOfItems ==
  ASSUME NEW method \in HttpMethods, NEW path, NEW tag, NEW responses, NEW security
  PROVE  LET items == Items(method, path, tag, responses, security) IN
         /\ DOMAIN items = 1..5
         /\ KindOf(items[1]) = "method" /\ KindOf(items[2]) = "path" /\ KindOf(items[3]) = "tag"
         /\ KindOf(items[4]) = "responses" /\ KindOf(items[5]) = "security"
  BY DEF Items, KindOf, HttpMethods, ParameterIns, Valued

LEMMA ItemsOfRoute ==
  ASSUME NEW method \in HttpMethods, NEW path, NEW tag, NEW responses, NEW security
  PROVE  LET items == Items(method, path, tag, responses, security) IN
         /\ LastValue(items, "responses", "none") = responses
         /\ Securities(items) = Offered(security)
<1> DEFINE items == Items(method, path, tag, responses, security)
<1>1. Given(items, "responses") = {4} /\ Given(items, "security") = {5}
  BY KindsOfItems DEF Given
<1>2. items[4][2] = responses /\ items[5][2] = security
  BY DEF Items
<1> HIDE DEF items
<1>3. LastGiven(items, "responses") = 4
  BY <1>1 DEF LastGiven
<1>4. Values(items, "security") = {security}
  BY <1>1, <1>2 DEF Values
<1>5. LastValue(items, "responses", "none") = responses
  BY <1>1, <1>2, <1>3 DEF LastValue
<1>6. Securities(items) = Offered(security)
  BY <1>4 DEF Securities, Offered
<1>7. QED
  BY <1>5, <1>6 DEF items

\* The fields that a route has: none, a body, an id in its path, or both.
LEMMA MarkedFields ==
  ASSUME NEW type
  PROVE  /\ \A mark : Marked(<<>>, mark) = {}
         /\ Marked(<< Body(type) >>, "body") = {[field |-> 1, attr |-> 1]}
         /\ Marked(<< Body(type) >>, "param") = {}
         /\ Marked(<< Id >>, "body") = {}
         /\ Marked(<< Id >>, "param") = {[field |-> 1, attr |-> 1]}
         /\ Marked(<< Body(type), Id >>, "body") = {[field |-> 1, attr |-> 1]}
         /\ Marked(<< Body(type), Id >>, "param") = {[field |-> 2, attr |-> 1]}
<1>1. \A mark : Marked(<<>>, mark) = {}
  BY DEF Marked
<1>2. Marked(<< Body(type) >>, "body") = {[field |-> 1, attr |-> 1]} /\ Marked(<< Body(type) >>, "param") = {}
  BY DEF Marked, Body, Field
<1>3. Marked(<< Id >>, "body") = {} /\ Marked(<< Id >>, "param") = {[field |-> 1, attr |-> 1]}
  BY DEF Marked, Id, Field
<1>4. /\ Marked(<< Body(type), Id >>, "body") = {[field |-> 1, attr |-> 1]}
      /\ Marked(<< Body(type), Id >>, "param") = {[field |-> 2, attr |-> 1]}
  BY DEF Marked, Body, Id, Field
<1>5. QED
  BY <1>1, <1>2, <1>3, <1>4

\* Two arguments in their order.
LEMMA TwoArguments ==
  ASSUME NEW a, NEW b
  PROVE  <<a>> \o <<b>> = <<a, b>>
<1> DEFINE S == {a, b}
           first == <<a>>
           second == <<b>>
<1>1. first \in Seq(S) /\ second \in Seq(S) /\ <<a, b>> \in Seq(S)
  OBVIOUS
<1>2. Len(first) = 1 /\ Len(second) = 1 /\ Len(<<a, b>>) = 2 /\ first[1] = a /\ second[1] = b
  OBVIOUS
<1> HIDE DEF S, first, second
<1>3. first \o second \in Seq(S) /\ Len(first \o second) = 2
  <2>1. first \o second \in Seq(S) /\ Len(first \o second) = Len(first) + Len(second)
    BY <1>1, ConcatProperties
  <2>2. QED
    BY <1>2, <2>1
<1>4. \A i \in 1..2 : (first \o second)[i] = <<a, b>>[i]
  BY <1>1, <1>2, ConcatProperties
<1>5. first \o second = <<a, b>>
  BY <1>1, <1>2, <1>3, <1>4, SeqEqual
<1>6. QED
  BY <1>5 DEF first, second

\* What a description says of a route: the arguments of its handler in their
\* order, how a caller may identify himself, and the responses.
Tells(p, takes, offered, responses) ==
  LET bodies == [i \in DOMAIN p.body |-> p.body[i].type] IN
  /\ p.securities = offered
  /\ p.responses = responses
  /\ takes = (IF p.parameters = {} THEN <<>> ELSE <<"i32">>) \o bodies
  /\ \A x \in p.parameters : x.type = "i32" /\ x.in = "Path"
  /\ \A i \in DOMAIN bodies : bodies[i] \in p.schemas.named
  /\ p.responses \in p.schemas.entered

\* An id is sent in the path, by its type.
LEMMA IdIsInPath ==
  ASSUME NEW fields, NEW i, fields[i] = Id, Marked(fields, "param") = {[field |-> i, attr |-> 1]}
  PROVE  Parameters(fields) = {[name |-> "id", type |-> "i32", in |-> "Path"]}
<1>1. ItemsAt(fields, [field |-> i, attr |-> 1]) = << <<"Path">> >>
  BY DEF ItemsAt, Id, Field
<1>2. KindOf(<<"Path">>) = "parameter_in"
  BY DEF KindOf, HttpMethods, ParameterIns
<1>3. Given(<< <<"Path">> >>, "parameter_in") = {1}
  BY <1>2 DEF Given
<1>4. LastGiven(<< <<"Path">> >>, "parameter_in") = 1
  BY <1>3 DEF LastGiven
<1>5. In(<< <<"Path">> >>) = "Path"
  BY <1>3, <1>4 DEF In
<1>6. fields[i].name = "id" /\ fields[i].type = "i32"
  BY DEF Id, Field
<1>7. QED
  BY <1>1, <1>5, <1>6 DEF Parameters

\* A body is sent as JSON of its type.
LEMMA BodyIsJson ==
  ASSUME NEW fields, NEW type, fields[1] = Body(type),
         Marked(fields, "body") = {[field |-> 1, attr |-> 1]}
  PROVE  /\ RequestBody(fields) = << [type |-> type, content |-> "application/json"] >>
         /\ BodyTypes(fields) = {type}
<1> DEFINE p == [field |-> 1, attr |-> 1]
<1>1. fields[1].type = type /\ ItemsAt(fields, p) = <<>>
  BY DEF ItemsAt, Body, Field
<1>2. LastMarked(fields, "body") = p
  BY DEF LastMarked, Before
<1>3. LastValue(<<>>, "content_type", "application/json") = "application/json"
  BY DEF LastValue, Given
<1>4. Content(fields, p) = [type |-> type, content |-> "application/json"]
  BY <1>1, <1>3 DEF Content
<1>5. QED
  BY <1>1, <1>2, <1>4 DEF RequestBody, BodyTypes

LEMMA FieldsOfRoute ==
  ASSUME NEW type
  PROVE  /\ RequestBody(<<>>) = <<>> /\ Parameters(<<>>) = {}
         /\ RequestBody(<< Id >>) = <<>>
         /\ Parameters(<< Id >>) = {[name |-> "id", type |-> "i32", in |-> "Path"]}
         /\ RequestBody(<< Body(type) >>) = << [type |-> type, content |-> "application/json"] >>
         /\ BodyTypes(<< Body(type) >>) = {type} /\ Parameters(<< Body(type) >>) = {}
         /\ RequestBody(<< Body(type), Id >>) = << [type |-> type, content |-> "application/json"] >>
         /\ BodyTypes(<< Body(type), Id >>) = {type}
         /\ Parameters(<< Body(type), Id >>) = {[name |-> "id", type |-> "i32", in |-> "Path"]}
<1>1. /\ RequestBody(<<>>) = <<>> /\ Parameters(<<>>) = {}
      /\ RequestBody(<< Id >>) = <<>> /\ Parameters(<< Body(type) >>) = {}
  BY MarkedFields DEF RequestBody, Parameters
<1>2. Parameters(<< Id >>) = {[name |-> "id", type |-> "i32", in |-> "Path"]}
  <2> DEFINE fields == << Id >>
  <2>1. fields[1] = Id /\ Marked(fields, "param") = {[field |-> 1, attr |-> 1]}
    BY MarkedFields
  <2> HIDE DEF fields
  <2>2. Parameters(fields) = {[name |-> "id", type |-> "i32", in |-> "Path"]}
    BY <2>1, IdIsInPath
  <2>3. QED
    BY <2>2 DEF fields
<1>3. /\ RequestBody(<< Body(type) >>) = << [type |-> type, content |-> "application/json"] >>
      /\ BodyTypes(<< Body(type) >>) = {type}
  <2> DEFINE fields == << Body(type) >>
  <2>1. fields[1] = Body(type) /\ Marked(fields, "body") = {[field |-> 1, attr |-> 1]}
    BY MarkedFields
  <2> HIDE DEF fields
  <2>2. /\ RequestBody(fields) = << [type |-> type, content |-> "application/json"] >>
        /\ BodyTypes(fields) = {type}
    BY <2>1, BodyIsJson
  <2>3. QED
    BY <2>2 DEF fields
<1>4. /\ RequestBody(<< Body(type), Id >>) = << [type |-> type, content |-> "application/json"] >>
      /\ BodyTypes(<< Body(type), Id >>) = {type}
      /\ Parameters(<< Body(type), Id >>) = {[name |-> "id", type |-> "i32", in |-> "Path"]}
  <2> DEFINE fields == << Body(type), Id >>
  <2>1. /\ fields[1] = Body(type) /\ Marked(fields, "body") = {[field |-> 1, attr |-> 1]}
        /\ fields[2] = Id /\ Marked(fields, "param") = {[field |-> 2, attr |-> 1]}
    BY MarkedFields
  <2> HIDE DEF fields
  <2>2. /\ RequestBody(fields) = << [type |-> type, content |-> "application/json"] >>
        /\ BodyTypes(fields) = {type}
    BY <2>1, BodyIsJson
  <2>3. Parameters(fields) = {[name |-> "id", type |-> "i32", in |-> "Path"]}
    BY <2>1, IdIsInPath
  <2>4. QED
    BY <2>2, <2>3 DEF fields
<1>5. QED
  BY <1>1, <1>2, <1>3, <1>4

\* The derive keeps what a route was declared with, whatever its method, path,
\* tag and type of body.
LEMMA DerivedTells ==
  ASSUME NEW fn, NEW method \in HttpMethods, NEW path, NEW tag, NEW responses, NEW security, NEW type
  PROVE  LET Derived(fields) ==
               derive_into_path(Route(fn, method, path, tag, responses, security, fields))
         IN  /\ Tells(Derived(<<>>), <<>>, Offered(security), responses)
             /\ Tells(Derived(<< Id >>), <<"i32">>, Offered(security), responses)
             /\ Tells(Derived(<< Body(type) >>), <<type>>, Offered(security), responses)
             /\ Tells(Derived(<< Body(type), Id >>), <<"i32", type>>, Offered(security), responses)
<1> DEFINE Derived(fields) == derive_into_path(Route(fn, method, path, tag, responses, security, fields))
           Path == [name |-> "id", type |-> "i32", in |-> "Path"]
           Sent == [type |-> type, content |-> "application/json"]
<1>1. ASSUME NEW fields
      PROVE  /\ Derived(fields).securities = Offered(security)
             /\ Derived(fields).responses = responses
             /\ Derived(fields).body = RequestBody(fields)
             /\ Derived(fields).parameters = Parameters(fields)
             /\ Derived(fields).schemas.named = BodyTypes(fields)
             /\ Derived(fields).schemas.entered = {responses}
  <2> DEFINE items == Items(method, path, tag, responses, security)
             route == Route(fn, method, path, tag, responses, security, fields)
  <2>1. FirstAttribute(route.attrs) = items /\ route.fields = fields
    BY DEF Route, FirstAttribute, Items
  <2>2. LastValue(items, "responses", "none") = responses /\ Securities(items) = Offered(security)
    BY ItemsOfRoute
  <2> HIDE DEF items, route
  <2>3. /\ derive_into_path(route).securities = Offered(security)
        /\ derive_into_path(route).responses = responses
        /\ derive_into_path(route).body = RequestBody(fields)
        /\ derive_into_path(route).parameters = Parameters(fields)
        /\ derive_into_path(route).schemas.named = BodyTypes(fields)
        /\ derive_into_path(route).schemas.entered = {responses}
    BY <2>1, <2>2 DEF derive_into_path, Schemas
  <2>4. QED
    BY <2>3 DEF route
<1> HIDE DEF Derived
<1>2. ASSUME NEW fields, RequestBody(fields) = <<>>, Parameters(fields) = {}
      PROVE  Tells(Derived(fields), <<>>, Offered(security), responses)
  BY <1>1, <1>2 DEF Tells
<1>3. ASSUME NEW fields, RequestBody(fields) = <<>>, Parameters(fields) = {Path}
      PROVE  Tells(Derived(fields), <<"i32">>, Offered(security), responses)
  <2> DEFINE p == Derived(fields)
             bodies == [i \in DOMAIN p.body |-> p.body[i].type]
             ids == IF p.parameters = {} THEN <<>> ELSE <<"i32">>
  <2>1. bodies = <<>> /\ DOMAIN bodies = {}
    BY <1>1, <1>3
  <2>2. ids = <<"i32">>
    BY <1>1, <1>3
  <2>3. <<"i32">> \o <<>> = <<"i32">>
    OBVIOUS
  <2>4. \A x \in p.parameters : x.type = "i32" /\ x.in = "Path"
    BY <1>1, <1>3
  <2> HIDE DEF p, bodies, ids
  <2>5. ids \o bodies = <<"i32">>
    BY <2>1, <2>2, <2>3
  <2>6. \A i \in DOMAIN bodies : bodies[i] \in p.schemas.named
    BY <2>1
  <2>7. p.securities = Offered(security) /\ p.responses = responses /\ responses \in p.schemas.entered
    BY <1>1 DEF p
  <2>8. Tells(p, <<"i32">>, Offered(security), responses)
    BY <2>4, <2>5, <2>6, <2>7, Zenon DEF Tells, bodies, ids
  <2>9. QED
    BY <2>8 DEF p
<1>4. ASSUME NEW fields, RequestBody(fields) = << Sent >>, BodyTypes(fields) = {type}, Parameters(fields) = {}
      PROVE  Tells(Derived(fields), <<type>>, Offered(security), responses)
  BY <1>1, <1>4 DEF Tells
<1>5. ASSUME NEW fields, RequestBody(fields) = << Sent >>, BodyTypes(fields) = {type},
             Parameters(fields) = {Path}
      PROVE  Tells(Derived(fields), <<"i32", type>>, Offered(security), responses)
  <2> DEFINE p == Derived(fields)
             bodies == [i \in DOMAIN p.body |-> p.body[i].type]
             ids == IF p.parameters = {} THEN <<>> ELSE <<"i32">>
  <2>1. bodies = <<type>> /\ DOMAIN bodies = {1}
    BY <1>1, <1>5
  <2>2. ids = <<"i32">>
    BY <1>1, <1>5
  <2>3. <<"i32">> \o <<type>> = <<"i32", type>>
    BY TwoArguments
  <2>4. \A x \in p.parameters : x.type = "i32" /\ x.in = "Path"
    BY <1>1, <1>5
  <2>5. type \in p.schemas.named
    BY <1>1, <1>5
  <2> HIDE DEF p, bodies, ids
  <2>6. ids \o bodies = <<"i32", type>>
    BY <2>1, <2>2, <2>3
  <2>7. \A i \in DOMAIN bodies : bodies[i] \in p.schemas.named
    BY <2>1, <2>5
  <2>8. p.securities = Offered(security) /\ p.responses = responses /\ responses \in p.schemas.entered
    BY <1>1 DEF p
  <2>9. Tells(p, <<"i32", type>>, Offered(security), responses)
    BY <2>4, <2>6, <2>7, <2>8, Zenon DEF Tells, bodies, ids
  <2>10. QED
    BY <2>9 DEF p
<1>6. QED
  BY <1>2, <1>3, <1>4, <1>5, FieldsOfRoute DEF Derived

LEMMA RouteNamed ==
  \A fn, method, path, tag, responses, security, fields :
    Route(fn, method, path, tag, responses, security, fields).fn = fn
  BY DEF Route

\* No two routes are served by functions of the same name.
LEMMA RoutesDistinct == \A r, q \in Routes : r.fn = q.fn => r = q
<1>1. /\ \A r \in TimeSplitRoutes : r.fn \in {"create_time_split", "get_time_splits", "modify_time_split", "delete_time_split"}
      /\ \A r, q \in TimeSplitRoutes : r.fn = q.fn => r = q
  <2>1. \A r \in TimeSplitRoutes : r.fn \in {"create_time_split", "get_time_splits", "modify_time_split", "delete_time_split"}
    BY RouteNamed DEF TimeSplitRoutes
  <2>2. \A r, q \in TimeSplitRoutes : r.fn = q.fn => r = q
    BY RouteNamed DEF TimeSplitRoutes
  <2>3. QED
    BY <2>1, <2>2
<1>2. /\ \A r \in TimerRoutes : r.fn \in {"post_timer", "get_timers", "modify_timer"}
      /\ \A r, q \in TimerRoutes : r.fn = q.fn => r = q
  <2>1. \A r \in TimerRoutes : r.fn \in {"post_timer", "get_timers", "modify_timer"}
    BY RouteNamed DEF TimerRoutes
  <2>2. \A r, q \in TimerRoutes : r.fn = q.fn => r = q
    BY RouteNamed DEF TimerRoutes
  <2>3. QED
    BY <2>1, <2>2
<1>3. /\ \A r \in TagRoutes : r.fn \in {"create_tag", "get_tags", "modify_tag", "delete_tag"}
      /\ \A r, q \in TagRoutes : r.fn = q.fn => r = q
  <2>1. \A r \in TagRoutes : r.fn \in {"create_tag", "get_tags", "modify_tag", "delete_tag"}
    BY RouteNamed DEF TagRoutes
  <2>2. \A r, q \in TagRoutes : r.fn = q.fn => r = q
    BY RouteNamed DEF TagRoutes
  <2>3. QED
    BY <2>1, <2>2
<1>4. /\ \A r \in ProfileRoutes : r.fn \in {"create_profile", "get_profile", "update_profile", "put_avatar", "delete_avatar"}
      /\ \A r, q \in ProfileRoutes : r.fn = q.fn => r = q
  <2>1. \A r \in ProfileRoutes : r.fn \in {"create_profile", "get_profile", "update_profile", "put_avatar", "delete_avatar"}
    BY RouteNamed DEF ProfileRoutes
  <2>2. \A r, q \in ProfileRoutes : r.fn = q.fn => r = q
    BY RouteNamed DEF ProfileRoutes
  <2>3. QED
    BY <2>1, <2>2
<1>5. QED
  BY <1>1, <1>2, <1>3, <1>4 DEF Routes

\* The description of a route is what the derive made of its declaration.
LEMMA DescribedAsDerived ==
  ASSUME NEW r \in Routes
  PROVE  Described(r.fn) = derive_into_path(r)
<1> DEFINE paths == TimekeeperPaths \cup UserPaths
<1>1. paths = {implementor_of(q.fn, q) : q \in Routes}
  BY DEF TimekeeperPaths, UserPaths, Routes
<1>2. \A q : implementor_of(q.fn, q).id = q.fn /\ implementor_of(q.fn, q).operation = derive_into_path(q)
  BY DEF implementor_of
<1> HIDE DEF paths
<1>3. \E p \in paths : p.id = r.fn
  BY <1>1, <1>2
<1>4. \A p \in paths : p.id = r.fn => p.operation = derive_into_path(r)
  BY <1>1, <1>2, RoutesDistinct
<1>5. Described(r.fn) = (CHOOSE p \in paths : p.id = r.fn).operation
  BY DEF Described, paths
<1>6. QED
  BY <1>3, <1>4, <1>5

LEMMA OfferedByRoutes ==
  Offered(BearerOnly) = {{"bearer_jwt"}} /\ Offered(BearerOrNothing) = {{"bearer_jwt"}, {}}
  BY DEF Offered, BearerOnly, BearerOrNothing, Bearer, Names

LEMMA DescribedTells ==
  ASSUME NEW fn, NEW method \in {"get", "post", "put", "delete"}, NEW path, NEW tag, NEW responses,
         NEW security, NEW type
  PROVE  LET R(fields) == Route(fn, method, path, tag, responses, security, fields) IN
         /\ R(<<>>) \in Routes => Tells(Described(fn), <<>>, Offered(security), responses)
         /\ R(<< Id >>) \in Routes => Tells(Described(fn), <<"i32">>, Offered(security), responses)
         /\ R(<< Body(type) >>) \in Routes => Tells(Described(fn), <<type>>, Offered(security), responses)
         /\ R(<< Body(type), Id >>) \in Routes =>
              Tells(Described(fn), <<"i32", type>>, Offered(security), responses)
<1> DEFINE R(fields) == Route(fn, method, path, tag, responses, security, fields)
<1>1. method \in HttpMethods
  BY DEF HttpMethods
<1>2. ASSUME NEW fields, R(fields) \in Routes
      PROVE  Described(fn) = derive_into_path(R(fields))
  <2>1. R(fields).fn = fn
    BY RouteNamed
  <2>2. QED
    BY <1>2, <2>1, DescribedAsDerived
<1>3. QED
  BY <1>1, <1>2, DerivedTells

\* What the descriptions tell of each handler.
LEMMA TimeSplitsTold ==
  /\ Tells(Described("create_time_split"), <<"InsertablePackagedTimeSplit">>, Offered(BearerOnly), "TimeSplitResponses")
  /\ Tells(Described("get_time_splits"), <<>>, Offered(BearerOrNothing), "TimeSplitArrayResponses")
  /\ Tells(Described("modify_time_split"), <<"i32", "InsertableTimeSplit">>, Offered(BearerOnly), "TimeSplitVoidResponses")
  /\ Tells(Described("delete_time_split"), <<"i32">>, Offered(BearerOnly), "TimeSplitVoidResponses")
<1>1. TimeSplitRoutes \subseteq Routes
  BY DEF Routes
<1>2. Tells(Described("create_time_split"), <<"InsertablePackagedTimeSplit">>, Offered(BearerOnly), "TimeSplitResponses")
  <2>1. Route("create_time_split", "post", TimeSplitPath, TimeSplitTag, "TimeSplitResponses", BearerOnly, << Body("InsertablePackagedTimeSplit") >>) \in Routes
    BY <1>1 DEF TimeSplitRoutes
  <2>2. QED
    BY <2>1, DescribedTells
<1>3. Tells(Described("get_time_splits"), <<>>, Offered(BearerOrNothing), "TimeSplitArrayResponses")
  <2>1. Route("get_time_splits", "get", TimeSplitPath, TimeSplitTag, "TimeSplitArrayResponses", BearerOrNothing, <<>>) \in Routes
    BY <1>1 DEF TimeSplitRoutes
  <2>2. QED
    BY <2>1, DescribedTells
<1>4. Tells(Described("modify_time_split"), <<"i32", "InsertableTimeSplit">>, Offered(BearerOnly), "TimeSplitVoidResponses")
  <2>1. Route("modify_time_split", "put", TimeSplitIdPath, TimeSplitTag, "TimeSplitVoidResponses", BearerOnly, << Body("InsertableTimeSplit"), Id >>) \in Routes
    BY <1>1 DEF TimeSplitRoutes
  <2>2. QED
    BY <2>1, DescribedTells
<1>5. Tells(Described("delete_time_split"), <<"i32">>, Offered(BearerOnly), "TimeSplitVoidResponses")
  <2>1. Route("delete_time_split", "delete", TimeSplitIdPath, TimeSplitTag, "TimeSplitVoidResponses", BearerOnly, << Id >>) \in Routes
    BY <1>1 DEF TimeSplitRoutes
  <2>2. QED
    BY <2>1, DescribedTells
<1>6. QED
  BY <1>2, <1>3, <1>4, <1>5

LEMMA TimersTold ==
  /\ Tells(Described("post_timer"), <<"InsertableTimer">>, Offered(BearerOnly), "TimerResponses")
  /\ Tells(Described("get_timers"), <<>>, Offered(BearerOrNothing), "TimerArrayResponses")
  /\ Tells(Described("modify_timer"), <<"InsertableTimer">>, Offered(BearerOnly), "TimerResponses")
<1>1. TimerRoutes \subseteq Routes
  BY DEF Routes
<1>2. Tells(Described("post_timer"), <<"InsertableTimer">>, Offered(BearerOnly), "TimerResponses")
  <2>1. Route("post_timer", "post", TimerPath, "Timer", "TimerResponses", BearerOnly, << Body("InsertableTimer") >>) \in Routes
    BY <1>1 DEF TimerRoutes
  <2>2. QED
    BY <2>1, DescribedTells
<1>3. Tells(Described("get_timers"), <<>>, Offered(BearerOrNothing), "TimerArrayResponses")
  <2>1. Route("get_timers", "get", TimerPath, "Timer", "TimerArrayResponses", BearerOrNothing, <<>>) \in Routes
    BY <1>1 DEF TimerRoutes
  <2>2. QED
    BY <2>1, DescribedTells
<1>4. Tells(Described("modify_timer"), <<"InsertableTimer">>, Offered(BearerOnly), "TimerResponses")
  <2>1. Route("modify_timer", "put", TimerPath, "Timer", "TimerResponses", BearerOnly, << Body("InsertableTimer") >>) \in Routes
    BY <1>1 DEF TimerRoutes
  <2>2. QED
    BY <2>1, DescribedTells
<1>5. QED
  BY <1>2, <1>3, <1>4

LEMMA TagsTold ==
  /\ Tells(Described("create_tag"), <<"InsertableTag">>, Offered(BearerOnly), "TagIDResponses")
  /\ Tells(Described("get_tags"), <<>>, Offered(BearerOrNothing), "TagArrayResponses")
  /\ Tells(Described("modify_tag"), <<"i32", "InsertableTag">>, Offered(BearerOnly), "TimekeeperVoidResponses")
  /\ Tells(Described("delete_tag"), <<"i32">>, Offered(BearerOnly), "TimekeeperVoidResponses")
<1>1. TagRoutes \subseteq Routes
  BY DEF Routes
<1>2. Tells(Described("create_tag"), <<"InsertableTag">>, Offered(BearerOnly), "TagIDResponses")
  <2>1. Route("create_tag", "post", TagPath, "Tag", "TagIDResponses", BearerOnly, << Body("InsertableTag") >>) \in Routes
    BY <1>1 DEF TagRoutes
  <2>2. QED
    BY <2>1, DescribedTells
<1>3. Tells(Described("get_tags"), <<>>, Offered(BearerOrNothing), "TagArrayResponses")
  <2>1. Route("get_tags", "get", TagPath, "Tag", "TagArrayResponses", BearerOrNothing, <<>>) \in Routes
    BY <1>1 DEF TagRoutes
  <2>2. QED
    BY <2>1, DescribedTells
<1>4. Tells(Described("modify_tag"), <<"i32", "InsertableTag">>, Offered(BearerOnly), "TimekeeperVoidResponses")
  <2>1. Route("modify_tag", "put", TagIdPath, "Tag", "TimekeeperVoidResponses", BearerOnly, << Body("InsertableTag"), Id >>) \in Routes
    BY <1>1 DEF TagRoutes
  <2>2. QED
    BY <2>1, DescribedTells
<1>5. Tells(Described("delete_tag"), <<"i32">>, Offered(BearerOnly), "TimekeeperVoidResponses")
  <2>1. Route("delete_tag", "delete", TagIdPath, "Tag", "TimekeeperVoidResponses", BearerOnly, << Id >>) \in Routes
    BY <1>1 DEF TagRoutes
  <2>2. QED
    BY <2>1, DescribedTells
<1>6. QED
  BY <1>2, <1>3, <1>4, <1>5

LEMMA ProfilesTold ==
  /\ Tells(Described("create_profile"), <<"InsertableUserProfile">>, Offered(BearerOnly), "UserSchemaResponsesVoid")
  /\ Tells(Described("get_profile"), <<>>, Offered(BearerOnly), "UserSchemaUserProfileResponse")
  /\ Tells(Described("update_profile"), <<"UserProfileChangeset">>, Offered(BearerOnly), "UserSchemaResponsesVoid")
  /\ Tells(Described("put_avatar"), <<"PutAvatarQuery">>, Offered(BearerOnly), "UserSchemaResponsesUrl")
  /\ Tells(Described("delete_avatar"), <<>>, Offered(BearerOnly), "UserSchemaResponsesVoid")
<1>1. ProfileRoutes \subseteq Routes
  BY DEF Routes
<1>2. Tells(Described("create_profile"), <<"InsertableUserProfile">>, Offered(BearerOnly), "UserSchemaResponsesVoid")
  <2>1. Route("create_profile", "post", ProfilePath, "Profile", "UserSchemaResponsesVoid", BearerOnly, << Body("InsertableUserProfile") >>) \in Routes
    BY <1>1 DEF ProfileRoutes
  <2>2. QED
    BY <2>1, DescribedTells
<1>3. Tells(Described("get_profile"), <<>>, Offered(BearerOnly), "UserSchemaUserProfileResponse")
  <2>1. Route("get_profile", "get", ProfilePath, "Profile", "UserSchemaUserProfileResponse", BearerOnly, <<>>) \in Routes
    BY <1>1 DEF ProfileRoutes
  <2>2. QED
    BY <2>1, DescribedTells
<1>4. Tells(Described("update_profile"), <<"UserProfileChangeset">>, Offered(BearerOnly), "UserSchemaResponsesVoid")
  <2>1. Route("update_profile", "put", ProfilePath, "Profile", "UserSchemaResponsesVoid", BearerOnly, << Body("UserProfileChangeset") >>) \in Routes
    BY <1>1 DEF ProfileRoutes
  <2>2. QED
    BY <2>1, DescribedTells
<1>5. Tells(Described("put_avatar"), <<"PutAvatarQuery">>, Offered(BearerOnly), "UserSchemaResponsesUrl")
  <2>1. Route("put_avatar", "put", AvatarPath, "Profile", "UserSchemaResponsesUrl", BearerOnly, << Body("PutAvatarQuery") >>) \in Routes
    BY <1>1 DEF ProfileRoutes
  <2>2. QED
    BY <2>1, DescribedTells
<1>6. Tells(Described("delete_avatar"), <<>>, Offered(BearerOnly), "UserSchemaResponsesVoid")
  <2>1. Route("delete_avatar", "delete", AvatarPath, "Profile", "UserSchemaResponsesVoid", BearerOnly, <<>>) \in Routes
    BY <1>1 DEF ProfileRoutes
  <2>2. QED
    BY <2>1, DescribedTells
<1>7. QED
  BY <1>2, <1>3, <1>4, <1>5, <1>6

\* Each kind of responses has one success.
LEMMA ResponsesDistinct == \A s, t \in Responses : s.responses = t.responses => s = t
<1>1. /\ \A s \in TimeSplitResponses : s.responses \in {"TimeSplitVoidResponses", "TimeSplitArrayResponses", "TimeSplitResponses"}
      /\ \A s, t \in TimeSplitResponses : s.responses = t.responses => s = t
  BY DEF TimeSplitResponses, Success
<1>2. /\ \A s \in TimerResponses : s.responses \in {"TimerArrayResponses", "TimerResponses"}
      /\ \A s, t \in TimerResponses : s.responses = t.responses => s = t
  BY DEF TimerResponses, Success
<1>3. /\ \A s \in TagResponses : s.responses \in {"TagArrayResponses", "TagIDResponses"}
      /\ \A s, t \in TagResponses : s.responses = t.responses => s = t
  BY DEF TagResponses, Success
<1>4. /\ \A s \in TimekeeperResponses : s.responses \in {"TimekeeperVoidResponses"}
      /\ \A s, t \in TimekeeperResponses : s.responses = t.responses => s = t
  BY DEF TimekeeperResponses, Success
<1>5. /\ \A s \in UserResponses : s.responses \in {"UserSchemaResponsesVoid", "UserSchemaResponsesUrl", "UserSchemaUserProfileResponse"}
      /\ \A s, t \in UserResponses : s.responses = t.responses => s = t
  BY DEF UserResponses, Success
<1>6. QED
  BY <1>1, <1>2, <1>3, <1>4, <1>5 DEF Responses

LEMMA SuccessTold ==
  ASSUME NEW p, NEW s \in Responses, p.responses = s.responses
  PROVE  SuccessOf(p) = s
  BY ResponsesDistinct DEF SuccessOf

\* A handler takes, demands and returns what the description of its route says.
Agrees(h) ==
  LET p == Described(h.route) IN
  /\ Tells(p, h.takes, Offered(IF h.login \/ h.writes THEN BearerOnly ELSE BearerOrNothing), p.responses)
  /\ SuccessOf(p).body = h.returns
  /\ SuccessOf(p).content = Json \/ h.route = "put_avatar"

LEMMA AgreesAsTold ==
  ASSUME NEW h, NEW takes, NEW security, NEW s \in Responses,
         Tells(Described(h.route), takes, Offered(security), s.responses),
         h.takes = takes, h.returns = s.body,
         security = IF h.login \/ h.writes THEN BearerOnly ELSE BearerOrNothing,
         s.content = Json \/ h.route = "put_avatar"
  PROVE  Agrees(h)
<1>1. Described(h.route).responses = s.responses
  BY DEF Tells
<1>2. SuccessOf(Described(h.route)) = s
  BY <1>1, SuccessTold
<1>3. QED
  BY <1>1, <1>2 DEF Agrees

LEMMA TimeSplitHandlersAgree ==
  ASSUME NEW h \in TimeSplitHandlers
  PROVE  Agrees(h)
<1>1. CASE h.route = "create_time_split"
  <2>1. /\ h.route = "create_time_split" /\ h.takes = <<"InsertablePackagedTimeSplit">> /\ h.returns = "PackagedTimeSplit"
        /\ (h.login \/ h.writes)
    BY <1>1 DEF TimeSplitHandlers, Handler
  <2> DEFINE s == Success("TimeSplitResponses", "PackagedTimeSplit", Json)
  <2>2. s \in Responses /\ s.responses = "TimeSplitResponses" /\ s.body = "PackagedTimeSplit" /\ s.content = Json
    BY DEF Responses, TimeSplitResponses, Success
  <2> HIDE DEF s
  <2>3. QED
    BY <2>1, <2>2, TimeSplitsTold, AgreesAsTold
<1>2. CASE h.route = "get_time_splits"
  <2>1. /\ h.route = "get_time_splits" /\ h.takes = <<>> /\ h.returns = "PackagedTimeSplits"
        /\ ~(h.login \/ h.writes)
    BY <1>2 DEF TimeSplitHandlers, Handler
  <2> DEFINE s == Success("TimeSplitArrayResponses", "PackagedTimeSplits", Json)
  <2>2. s \in Responses /\ s.responses = "TimeSplitArrayResponses" /\ s.body = "PackagedTimeSplits" /\ s.content = Json
    BY DEF Responses, TimeSplitResponses, Success
  <2> HIDE DEF s
  <2>3. QED
    BY <2>1, <2>2, TimeSplitsTold, AgreesAsTold
<1>3. CASE h.route = "modify_time_split"
  <2>1. /\ h.route = "modify_time_split" /\ h.takes = <<"i32", "InsertableTimeSplit">> /\ h.returns = "unit"
        /\ (h.login \/ h.writes)
    BY <1>3 DEF TimeSplitHandlers, Handler
  <2> DEFINE s == Success("TimeSplitVoidResponses", "unit", Json)
  <2>2. s \in Responses /\ s.responses = "TimeSplitVoidResponses" /\ s.body = "unit" /\ s.content = Json
    BY DEF Responses, TimeSplitResponses, Success
  <2> HIDE DEF s
  <2>3. QED
    BY <2>1, <2>2, TimeSplitsTold, AgreesAsTold
<1>4. CASE h.route = "delete_time_split"
  <2>1. /\ h.route = "delete_time_split" /\ h.takes = <<"i32">> /\ h.returns = "unit"
        /\ (h.login \/ h.writes)
    BY <1>4 DEF TimeSplitHandlers, Handler
  <2> DEFINE s == Success("TimeSplitVoidResponses", "unit", Json)
  <2>2. s \in Responses /\ s.responses = "TimeSplitVoidResponses" /\ s.body = "unit" /\ s.content = Json
    BY DEF Responses, TimeSplitResponses, Success
  <2> HIDE DEF s
  <2>3. QED
    BY <2>1, <2>2, TimeSplitsTold, AgreesAsTold
<1>5. h.route \in {"create_time_split", "get_time_splits", "modify_time_split", "delete_time_split"}
  BY DEF TimeSplitHandlers, Handler
<1>6. QED
  BY <1>1, <1>2, <1>3, <1>4, <1>5

LEMMA TimerHandlersAgree ==
  ASSUME NEW h \in TimerHandlers
  PROVE  Agrees(h)
<1>1. CASE h.route = "post_timer"
  <2>1. /\ h.route = "post_timer" /\ h.takes = <<"InsertableTimer">> /\ h.returns = "Timer"
        /\ (h.login \/ h.writes)
    BY <1>1 DEF TimerHandlers, Handler
  <2> DEFINE s == Success("TimerResponses", "Timer", Json)
  <2>2. s \in Responses /\ s.responses = "TimerResponses" /\ s.body = "Timer" /\ s.content = Json
    BY DEF Responses, TimerResponses, Success
  <2> HIDE DEF s
  <2>3. QED
    BY <2>1, <2>2, TimersTold, AgreesAsTold
<1>2. CASE h.route = "get_timers"
  <2>1. /\ h.route = "get_timers" /\ h.takes = <<>> /\ h.returns = "Timers"
        /\ ~(h.login \/ h.writes)
    BY <1>2 DEF TimerHandlers, Handler
  <2> DEFINE s == Success("TimerArrayResponses", "Timers", Json)
  <2>2. s \in Responses /\ s.responses = "TimerArrayResponses" /\ s.body = "Timers" /\ s.content = Json
    BY DEF Responses, TimerResponses, Success
  <2> HIDE DEF s
  <2>3. QED
    BY <2>1, <2>2, TimersTold, AgreesAsTold
<1>3. CASE h.route = "modify_timer"
  <2>1. /\ h.route = "modify_timer" /\ h.takes = <<"InsertableTimer">> /\ h.returns = "Timer"
        /\ (h.login \/ h.writes)
    BY <1>3 DEF TimerHandlers, Handler
  <2> DEFINE s == Success("TimerResponses", "Timer", Json)
  <2>2. s \in Responses /\ s.responses = "TimerResponses" /\ s.body = "Timer" /\ s.content = Json
    BY DEF Responses, TimerResponses, Success
  <2> HIDE DEF s
  <2>3. QED
    BY <2>1, <2>2, TimersTold, AgreesAsTold
<1>4. h.route \in {"post_timer", "get_timers", "modify_timer"}
  BY DEF TimerHandlers, Handler
<1>5. QED
  BY <1>1, <1>2, <1>3, <1>4

LEMMA TagHandlersAgree ==
  ASSUME NEW h \in TagHandlers
  PROVE  Agrees(h)
<1>1. CASE h.route = "create_tag"
  <2>1. /\ h.route = "create_tag" /\ h.takes = <<"InsertableTag">> /\ h.returns = "TagID"
        /\ (h.login \/ h.writes)
    BY <1>1 DEF TagHandlers, Handler
  <2> DEFINE s == Success("TagIDResponses", "TagID", Json)
  <2>2. s \in Responses /\ s.responses = "TagIDResponses" /\ s.body = "TagID" /\ s.content = Json
    BY DEF Responses, TagResponses, Success
  <2> HIDE DEF s
  <2>3. QED
    BY <2>1, <2>2, TagsTold, AgreesAsTold
<1>2. CASE h.route = "get_tags"
  <2>1. /\ h.route = "get_tags" /\ h.takes = <<>> /\ h.returns = "Tags"
        /\ ~(h.login \/ h.writes)
    BY <1>2 DEF TagHandlers, Handler
  <2> DEFINE s == Success("TagArrayResponses", "Tags", Json)
  <2>2. s \in Responses /\ s.responses = "TagArrayResponses" /\ s.body = "Tags" /\ s.content = Json
    BY DEF Responses, TagResponses, Success
  <2> HIDE DEF s
  <2>3. QED
    BY <2>1, <2>2, TagsTold, AgreesAsTold
<1>3. CASE h.route = "modify_tag"
  <2>1. /\ h.route = "modify_tag" /\ h.takes = <<"i32", "InsertableTag">> /\ h.returns = "unit"
        /\ (h.login \/ h.writes)
    BY <1>3 DEF TagHandlers, Handler
  <2> DEFINE s == Success("TimekeeperVoidResponses", "unit", Json)
  <2>2. s \in Responses /\ s.responses = "TimekeeperVoidResponses" /\ s.body = "unit" /\ s.content = Json
    BY DEF Responses, TimekeeperResponses, Success
  <2> HIDE DEF s
  <2>3. QED
    BY <2>1, <2>2, TagsTold, AgreesAsTold
<1>4. CASE h.route = "delete_tag"
  <2>1. /\ h.route = "delete_tag" /\ h.takes = <<"i32">> /\ h.returns = "unit"
        /\ (h.login \/ h.writes)
    BY <1>4 DEF TagHandlers, Handler
  <2> DEFINE s == Success("TimekeeperVoidResponses", "unit", Json)
  <2>2. s \in Responses /\ s.responses = "TimekeeperVoidResponses" /\ s.body = "unit" /\ s.content = Json
    BY DEF Responses, TimekeeperResponses, Success
  <2> HIDE DEF s
  <2>3. QED
    BY <2>1, <2>2, TagsTold, AgreesAsTold
<1>5. h.route \in {"create_tag", "get_tags", "modify_tag", "delete_tag"}
  BY DEF TagHandlers, Handler
<1>6. QED
  BY <1>1, <1>2, <1>3, <1>4, <1>5

LEMMA ProfileHandlersAgree ==
  ASSUME NEW h \in ProfileHandlers
  PROVE  Agrees(h)
<1>1. CASE h.route = "create_profile"
  <2>1. /\ h.route = "create_profile" /\ h.takes = <<"InsertableUserProfile">> /\ h.returns = "unit"
        /\ (h.login \/ h.writes)
    BY <1>1 DEF ProfileHandlers, Handler
  <2> DEFINE s == Success("UserSchemaResponsesVoid", "unit", Json)
  <2>2. s \in Responses /\ s.responses = "UserSchemaResponsesVoid" /\ s.body = "unit" /\ s.content = Json
    BY DEF Responses, UserResponses, Success
  <2> HIDE DEF s
  <2>3. QED
    BY <2>1, <2>2, ProfilesTold, AgreesAsTold
<1>2. CASE h.route = "get_profile"
  <2>1. /\ h.route = "get_profile" /\ h.takes = <<>> /\ h.returns = "UserProfile"
        /\ (h.login \/ h.writes)
    BY <1>2 DEF ProfileHandlers, Handler
  <2> DEFINE s == Success("UserSchemaUserProfileResponse", "UserProfile", Json)
  <2>2. s \in Responses /\ s.responses = "UserSchemaUserProfileResponse" /\ s.body = "UserProfile" /\ s.content = Json
    BY DEF Responses, UserResponses, Success
  <2> HIDE DEF s
  <2>3. QED
    BY <2>1, <2>2, ProfilesTold, AgreesAsTold
<1>3. CASE h.route = "put_avatar"
  <2>1. /\ h.route = "put_avatar" /\ h.takes = <<"PutAvatarQuery">> /\ h.returns = "UserAvatarPutUrl"
        /\ (h.login \/ h.writes)
    BY <1>3 DEF ProfileHandlers, Handler
  <2> DEFINE s == Success("UserSchemaResponsesUrl", "UserAvatarPutUrl", "text/plain")
  <2>2. s \in Responses /\ s.responses = "UserSchemaResponsesUrl" /\ s.body = "UserAvatarPutUrl" /\ s.content = "text/plain"
    BY DEF Responses, UserResponses, Success
  <2> HIDE DEF s
  <2>3. QED
    BY <2>1, <2>2, ProfilesTold, AgreesAsTold
<1>4. CASE h.route = "delete_avatar"
  <2>1. /\ h.route = "delete_avatar" /\ h.takes = <<>> /\ h.returns = "unit"
        /\ (h.login \/ h.writes)
    BY <1>4 DEF ProfileHandlers, Handler
  <2> DEFINE s == Success("UserSchemaResponsesVoid", "unit", Json)
  <2>2. s \in Responses /\ s.responses = "UserSchemaResponsesVoid" /\ s.body = "unit" /\ s.content = Json
    BY DEF Responses, UserResponses, Success
  <2> HIDE DEF s
  <2>3. QED
    BY <2>1, <2>2, ProfilesTold, AgreesAsTold
<1>5. CASE h.route = "update_profile"
  <2>1. /\ h.route = "update_profile" /\ h.takes = <<"UserProfileChangeset">> /\ h.returns = "unit"
        /\ (h.login \/ h.writes)
    BY <1>5 DEF ProfileHandlers, Handler
  <2> DEFINE s == Success("UserSchemaResponsesVoid", "unit", Json)
  <2>2. s \in Responses /\ s.responses = "UserSchemaResponsesVoid" /\ s.body = "unit" /\ s.content = Json
    BY DEF Responses, UserResponses, Success
  <2> HIDE DEF s
  <2>3. QED
    BY <2>1, <2>2, ProfilesTold, AgreesAsTold
<1>6. h.route \in {"create_profile", "get_profile", "put_avatar", "delete_avatar", "update_profile"}
  BY DEF ProfileHandlers, Handler
<1>7. QED
  BY <1>1, <1>2, <1>3, <1>4, <1>5, <1>6

\* All sixteen handlers agree with the descriptions of their routes: with the
\* types of what they extract and return, and with who needs a token.
THEOREM HandlersAsDescribed == \A h \in Handlers : Agrees(h)
  BY TimeSplitHandlersAgree, TimerHandlersAgree, TagHandlersAgree, ProfileHandlersAgree DEF Handlers, TimekeeperHandlers

\* Handlers of which the model has the statements, and those of them that read.
LEMMA HandlersOfStatements ==
  /\ \A route \in {"create_time_split", "delete_time_split", "post_timer", "modify_timer"} :
       \E h \in Handlers : h.route = route
  /\ \A route \in {"get_time_splits", "get_timers"} :
       \E h \in Handlers : h.route = route /\ ~h.login /\ ~h.writes
<1> DEFINE create == Handler("create_time_split", TRUE, TRUE, {422}, <<"InsertablePackagedTimeSplit">>, "PackagedTimeSplit")
           list == Handler("get_time_splits", FALSE, FALSE, {500}, <<>>, "PackagedTimeSplits")
           delete == Handler("delete_time_split", FALSE, TRUE, {500}, <<"i32">>, "unit")
           post == Handler("post_timer", TRUE, TRUE, {500, 404, 422}, <<"InsertableTimer">>, "Timer")
           latest == Handler("get_timers", FALSE, FALSE, {500}, <<>>, "Timers")
           modify == Handler("modify_timer", TRUE, TRUE, {500, 404, 422}, <<"InsertableTimer">>, "Timer")
<1>1. create \in Handlers /\ list \in Handlers /\ delete \in Handlers
  BY DEF Handlers, TimekeeperHandlers, TimeSplitHandlers
<1>2. post \in Handlers /\ latest \in Handlers /\ modify \in Handlers
  BY DEF Handlers, TimekeeperHandlers, TimerHandlers
<1>3. create.route = "create_time_split" /\ delete.route = "delete_time_split"
  BY DEF Handler
<1>4. post.route = "post_timer" /\ modify.route = "modify_timer"
  BY DEF Handler
<1>5. list.route = "get_time_splits" /\ ~list.login /\ ~list.writes
  BY DEF Handler
<1>6. latest.route = "get_timers" /\ ~latest.login /\ ~latest.writes
  BY DEF Handler
<1> HIDE DEF create, list, delete, post, latest, modify
<1>7. QED
  BY <1>1, <1>2, <1>3, <1>4, <1>5, <1>6

\* The answer is one that a handler of its route gives to its caller.
AnswerOf(h) ==
  /\ h.route = answer.route
  /\ answer.cause = "done" /\ (h.login \/ h.writes) => answer.user \in Users
  /\ answer.cause = "login" => h.login /\ answer.user = Nil

AnsweredByHandler == answer.route # "none" => \E h \in Handlers : AnswerOf(h)

LEMMA ServeByHandler ==
  ASSUME Serve
  PROVE  AnsweredByHandler'
<1>1. ASSUME NEW h \in Handlers, RefuseSession(h) \/ AskForLogin(h)
      PROVE  AnsweredByHandler'
  BY <1>1 DEF RefuseSession, AskForLogin, Answer, Ends, AnsweredByHandler, AnswerOf
<1>2. ASSUME NEW h \in Handlers, NEW u \in Callers, RefuseRequest(h, u) \/ Fail(h, u) \/ Other(h, u) \/ Unreachable(h, u)
      PROVE  AnsweredByHandler'
  BY <1>2 DEF RefuseRequest, Fail, Other, Unreachable, Failed, Done, Unanswered, Answer, Ends,
                 AnsweredByHandler, AnswerOf
<1>3. ASSUME NEW u \in Users, NEW route, answer'.route = route, answer'.user = u, answer'.cause # "login",
             route \in {"create_time_split", "delete_time_split", "post_timer", "modify_timer"}
      PROVE  AnsweredByHandler'
  BY <1>3, HandlersOfStatements DEF AnsweredByHandler, AnswerOf
<1>4. ASSUME NEW route \in {"get_time_splits", "get_timers"}, answer'.route = route, answer'.cause # "login"
      PROVE  AnsweredByHandler'
  BY <1>4, HandlersOfStatements DEF AnsweredByHandler, AnswerOf
<1>5. ASSUME NEW u \in Users, NEW sent \in Lengths, CreateTimeSplit(u, sent) PROVE AnsweredByHandler'
  BY <1>3, <1>5 DEF CreateTimeSplit, Done, Panicked, Unanswered, Answer, Ends
<1>6. ASSUME NEW u \in Users, CreateWithoutTimers(u) PROVE AnsweredByHandler'
  BY <1>3, <1>6 DEF CreateWithoutTimers, Done, Failed, Answer, Ends
<1>7. ASSUME NEW u \in Users, NEW s \in DOMAIN splits, DeleteTimeSplit(u, s) \/ DeleteTimersOnly(u, s)
      PROVE  AnsweredByHandler'
  BY <1>3, <1>7 DEF DeleteTimeSplit, DeleteTimersOnly, Done, Failed, Answer, Ends
<1>8. ASSUME NEW u \in Users, NEW s \in DOMAIN splits, NEW w \in Starts,
             PostTimer(u, s, w) \/ ModifyTimer(u, s, w)
      PROVE  AnsweredByHandler'
  BY <1>3, <1>8 DEF PostTimer, ModifyTimer, Done, Answer, Ends
<1>9. ASSUME NEW u \in Callers, GetTimeSplits(u) \/ GetTimers(u) PROVE AnsweredByHandler'
  BY <1>4, <1>9 DEF GetTimeSplits, GetTimers, Done, Panicked, Unanswered, Answer, Ends
<1>10. QED
  BY <1>1, <1>2, <1>5, <1>6, <1>7, <1>8, <1>9 DEF Serve

LEMMA AlwaysByHandler == Spec => []AnsweredByHandler
<1>1. Init => AnsweredByHandler
  BY DEF Init, NoAnswer, AnsweredByHandler
<1>2. AnsweredByHandler /\ [Next]_vars => AnsweredByHandler'
  <2> SUFFICES ASSUME AnsweredByHandler, [Next]_vars PROVE AnsweredByHandler'
    OBVIOUS
  <2>1. CASE Serve
    BY <2>1, ServeByHandler
  <2>2. CASE Read
    BY <2>2 DEF Read, NoAnswer, AnsweredByHandler
  <2>3. CASE CutOff
    BY <2>3 DEF CutOff, Unanswered, Ends, AnsweredByHandler, AnswerOf
  <2>4. CASE Restart \/ UNCHANGED vars
    BY <2>4 DEF Restart, vars, AnsweredByHandler, AnswerOf
  <2>5. QED
    BY <2>1, <2>2, <2>3, <2>4 DEF Next
<1>3. QED
  BY <1>1, <1>2, PTL DEF Spec

\* Whoever is answered 200 has shown a token or has none, as the description of the
\* route offers, and no route that is described as open asks for a login: the
\* handlers' own checks, the privileges of the roles and the descriptions agree.
THEOREM SecurityDescribed == Spec => []SecurityAsDescribed
<1>1. AnsweredByHandler => SecurityAsDescribed
  <2> SUFFICES ASSUME AnsweredByHandler, answer.route # "none"
               PROVE  LET offered == Described(answer.route).securities
                          used == IF answer.user = Nil THEN {} ELSE {"bearer_jwt"}
                      IN  /\ answer.cause = "done" => used \in offered
                          /\ answer.cause = "login" => {} \notin offered
    BY DEF SecurityAsDescribed
  <2>1. PICK h \in Handlers : AnswerOf(h)
    BY DEF AnsweredByHandler
  <2>2. Described(h.route).securities = Offered(IF h.login \/ h.writes THEN BearerOnly ELSE BearerOrNothing)
    BY HandlersAsDescribed DEF Agrees, Tells
  <2>3. Described(answer.route).securities =
          IF h.login \/ h.writes THEN {{"bearer_jwt"}} ELSE {{"bearer_jwt"}, {}}
    BY <2>1, <2>2, OfferedByRoutes DEF AnswerOf
  <2>4. Nil \notin Users
    BY ApiAssumption
  <2>5. QED
    BY <2>1, <2>3, <2>4 DEF AnswerOf
<1>2. QED
  BY <1>1, AlwaysByHandler, PTL

\* Whatever a handler has taken from the request and returned when it answers 200 is
\* of the types that the description of its route names and enters as schemas.
THEOREM TypesDescribed == Spec => []TypesAsDescribed
<1>1. AnsweredByHandler => TypesAsDescribed
  <2> SUFFICES ASSUME AnsweredByHandler, answer.cause = "done", answer.route # "none",
                      NEW h, h = CHOOSE x \in Handlers : x.route = answer.route,
                      NEW p, p = Described(answer.route)
               PROVE  LET bodies == [i \in DOMAIN p.body |-> p.body[i].type] IN
                      /\ h.takes = (IF p.parameters = {} THEN <<>> ELSE <<"i32">>) \o bodies
                      /\ \A x \in p.parameters : x.type = "i32" /\ x.in = "Path"
                      /\ h.returns = SuccessOf(p).body
                      /\ h.returns # "unit" => SuccessOf(p).content = Json \/ answer.route = "put_avatar"
                      /\ \A i \in DOMAIN bodies : bodies[i] \in p.schemas.named
                      /\ p.responses \in p.schemas.entered
    BY DEF TypesAsDescribed
  <2>1. \E x \in Handlers : x.route = answer.route
    BY DEF AnsweredByHandler, AnswerOf
  <2>2. h \in Handlers /\ h.route = answer.route
    BY <2>1
  <2>3. Agrees(h)
    BY <2>2, HandlersAsDescribed
  <2>4. Tells(p, h.takes, Offered(IF h.login \/ h.writes THEN BearerOnly ELSE BearerOrNothing), p.responses)
    BY <2>2, <2>3 DEF Agrees
  <2>5. h.returns = SuccessOf(p).body /\ (SuccessOf(p).content = Json \/ answer.route = "put_avatar")
    BY <2>2, <2>3 DEF Agrees
  <2>6. QED
    BY <2>4, <2>5, Zenon DEF Tells
<1>2. QED
  BY <1>1, AlwaysByHandler, PTL

=============================================================================
