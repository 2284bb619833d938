-------------------------- MODULE FocusTimer_proofs --------------------------
(***************************************************************************)
(* Proofs about FocusTimer, for any duration, any way of setting the clock *)
(* and any delay of the callbacks.                                         *)
(***************************************************************************)
EXTENDS FocusTimer, TLAPS

USE FocusTimerAssumption DEF States

\* There is nothing left to run if and only if the timer is complete.
NothingLeft == timer.remaining = 0 <=> timer.state = "complete"

\* RunsExactly needs the number of intervals, because a callback must find a
\* running timer; and what is shown needs NothingLeft.
IInv == TypeOK /\ RunsExactly /\ OneInterval /\ NothingLeft

LEMMA InitIInv == Init => IInv
  BY DEF Init, IInv, TypeOK, RunsExactly, OneInterval, NothingLeft, Timers

\* stopInterval() clears the one interval there is and touches nothing else.
LEMMA StopIntervalOK ==
  ASSUME NEW t \in Timers, t.intervals \in {0, 1}, t.intervalId = "set" <=> t.intervals = 1
  PROVE  /\ StopInterval(t) \in Timers
         /\ StopInterval(t).intervals = 0 /\ StopInterval(t).intervalId = "undefined"
         /\ StopInterval(t).state = t.state
         /\ StopInterval(t).remaining = t.remaining
         /\ StopInterval(t).deadline = t.deadline
<1>1. CASE t.intervalId = "set"
  <2>1. t.intervals - 1 = 0
    BY <1>1
  <2>2. StopInterval(t) = [t EXCEPT !.intervalId = "undefined", !.intervals = t.intervals - 1]
    BY <1>1 DEF StopInterval
  <2>3. StopInterval(t) = [t EXCEPT !.intervalId = "undefined", !.intervals = 0]
    BY <2>1, <2>2
  <2>4. QED
    <3>1. [t EXCEPT !.intervalId = "undefined", !.intervals = 0] \in Timers
      BY DEF Timers
    <3>2. /\ StopInterval(t).intervals = 0 /\ StopInterval(t).intervalId = "undefined"
          /\ StopInterval(t).state = t.state
          /\ StopInterval(t).remaining = t.remaining
          /\ StopInterval(t).deadline = t.deadline
      BY <2>3 DEF Timers
    <3>3. QED
      BY <2>3, <3>1, <3>2
<1>2. CASE t.intervalId # "set"
  BY <1>2 DEF StopInterval, Timers
<1>3. QED
  BY <1>1, <1>2

\* updateRemaining() of a running timer completes it at its deadline.
LEMMA UpdateRemainingOK ==
  ASSUME IInv, timer.state = "running", NEW t, t = UpdateRemaining(timer)
  PROVE  /\ t \in Timers
         /\ t.intervals \in {0, 1} /\ (t.intervalId = "set" <=> t.intervals = 1)
         /\ \/ /\ t.state = "complete" /\ t.remaining = 0 /\ ran >= Duration
               /\ t.intervals = 0
            \/ /\ t.state = "running" /\ t.remaining = Duration - ran /\ t.remaining > 0
               /\ t.deadline = timer.deadline /\ t.intervals = timer.intervals
<1>1. /\ timer \in Timers /\ timer.intervals \in {0, 1}
      /\ (timer.intervalId = "set" <=> timer.intervals = 1)
      /\ timer.deadline - now = Duration - ran
      /\ now \in Nat /\ ran \in Int
  BY DEF IInv, TypeOK, OneInterval, RunsExactly
<1>2. CASE timer.deadline <= now
  <2>1. t = [StopInterval(timer) EXCEPT !.remaining = 0, !.state = "complete"]
    BY <1>2 DEF UpdateRemaining
  <2>2. ran >= Duration
    BY <1>1, <1>2 DEF Timers
  <2> DEFINE s == StopInterval(timer)
  <2>3. s \in Timers /\ s.intervals = 0 /\ s.intervalId = "undefined"
    BY <1>1, StopIntervalOK
  <2> HIDE DEF s
  <2>4. t = [s EXCEPT !.remaining = 0, !.state = "complete"]
    BY <2>1 DEF s
  <2>5. /\ t \in Timers /\ t.state = "complete" /\ t.remaining = 0
        /\ t.intervals = s.intervals /\ t.intervalId = s.intervalId
    BY <2>3, <2>4 DEF Timers
  <2>6. QED
    BY <2>2, <2>3, <2>5
<1>3. CASE ~(timer.deadline <= now)
  <2>1. t = [timer EXCEPT !.remaining = timer.deadline - now]
    BY <1>3 DEF UpdateRemaining
  <2>2. timer.deadline - now \in Nat \ {0}
    BY <1>1, <1>3 DEF Timers
  <2>3. QED
    BY <1>1, <2>1, <2>2 DEF Timers
<1>4. QED
  BY <1>2, <1>3

LEMMA NextIInv == IInv /\ [Next]_vars => IInv'
<1> SUFFICES ASSUME IInv, [Next]_vars
             PROVE  IInv'
  OBVIOUS
<1> USE DEF IInv, TypeOK, RunsExactly, OneInterval, NothingLeft
<1>1. CASE Pause
  <2> DEFINE u == UpdateRemaining(timer)
             t == StopInterval(u)
  <2>1. /\ u \in Timers /\ u.intervals \in {0, 1} /\ (u.intervalId = "set" <=> u.intervals = 1)
        /\ \/ u.state = "complete" /\ u.remaining = 0 /\ ran >= Duration
           \/ u.state = "running" /\ u.remaining = Duration - ran /\ u.remaining > 0
    BY <1>1, UpdateRemainingOK DEF Pause
  <2>2. /\ t \in Timers /\ t.intervals = 0 /\ t.intervalId = "undefined"
        /\ t.state = u.state /\ t.remaining = u.remaining
    BY <2>1, StopIntervalOK
  <2> HIDE DEF u
  <2>3. /\ timer' = IF t.state = "complete" THEN t ELSE [t EXCEPT !.state = "paused"]
        /\ UNCHANGED <<now, mounted, ran>>
    BY <1>1 DEF Pause, u
  <2> HIDE DEF t
  <2>4. CASE t.state = "complete"
    BY <2>1, <2>2, <2>3, <2>4
  <2>5. CASE t.state = "running"
    <3>1. timer' = [t EXCEPT !.state = "paused"]
      BY <2>3, <2>5
    <3>2. /\ timer' \in Timers /\ timer'.state = "paused" /\ timer'.remaining = t.remaining
          /\ timer'.intervals = 0 /\ timer'.intervalId = "undefined"
      BY <2>2, <3>1 DEF Timers
    <3>3. QED
      BY <2>1, <2>2, <2>3, <2>5, <3>2
  <2>6. QED
    BY <2>1, <2>2, <2>4, <2>5
<1>2. CASE Start
  <2>1. ToRun \in Nat \ {0} /\ (timer.state # "complete" => ToRun = Duration - ran)
    BY <1>2 DEF Start, ToRun, Timers
  <2>2. timer.intervals = 0
    BY <1>2 DEF Start
  <2> DEFINE left == ToRun
  <2> HIDE DEF left
  <2>3. /\ timer' = [timer EXCEPT !.state = "running", !.remaining = left,
                                 !.deadline = now + left, !.intervalId = "set",
                                 !.intervals = 1]
        /\ ran' = (IF timer.state = "complete" THEN 0 ELSE ran)
        /\ mounted /\ UNCHANGED <<now, mounted>>
    BY <1>2, <2>2 DEF Start, left
  <2>4. left \in Nat \ {0} /\ left = Duration - ran'
    BY <2>1, <2>3 DEF left, ToRun
  <2>5. /\ timer' \in Timers /\ timer'.state = "running" /\ timer'.remaining = left
        /\ timer'.deadline = now + left /\ timer'.intervals = 1 /\ timer'.intervalId = "set"
    <3>1. timer \in Timers /\ now + left \in Int /\ left \in Nat
      BY <2>4
    <3>2. QED
      BY <2>3, <3>1 DEF Timers
  <2>6. QED
    BY <2>3, <2>4, <2>5
<1>3. CASE Reset
  <2> DEFINE t == StopInterval(timer)
  <2>1. t \in Timers /\ t.intervals = 0 /\ t.intervalId = "undefined"
    BY StopIntervalOK
  <2>2. timer' = [t EXCEPT !.remaining = Duration, !.state = "ready"]
        /\ ran' = 0 /\ UNCHANGED <<now, mounted>>
    BY <1>3 DEF Reset
  <2> HIDE DEF t
  <2>3. /\ timer' \in Timers /\ timer'.state = "ready" /\ timer'.remaining = Duration
        /\ timer'.intervals = 0 /\ timer'.intervalId = "undefined"
    BY <2>1, <2>2 DEF Timers
  <2>4. QED
    BY <2>2, <2>3
<1>4. CASE Callback
  <2>1. timer.state = "running" /\ timer.intervals = 1 /\ mounted
    BY <1>4 DEF Callback
  <2>2. timer' = UpdateRemaining(timer) /\ UNCHANGED <<now, mounted, ran>>
    BY <1>4 DEF Callback
  <2>3. /\ timer' \in Timers
        /\ timer'.intervals \in {0, 1} /\ (timer'.intervalId = "set" <=> timer'.intervals = 1)
        /\ \/ /\ timer'.state = "complete" /\ timer'.remaining = 0 /\ ran >= Duration
              /\ timer'.intervals = 0
           \/ /\ timer'.state = "running" /\ timer'.remaining = Duration - ran
              /\ timer'.remaining > 0
              /\ timer'.deadline = timer.deadline /\ timer'.intervals = timer.intervals
    BY <2>1, <2>2, UpdateRemainingOK
  <2>4. QED
    BY <2>1, <2>2, <2>3 DEF Timers
<1>5. CASE Destroy
  <2>1. /\ timer' \in Timers /\ timer'.intervals = 0 /\ timer'.intervalId = "undefined"
        /\ timer'.state = timer.state /\ timer'.remaining = timer.remaining
        /\ timer'.deadline = timer.deadline
        /\ ~mounted' /\ mounted' \in BOOLEAN /\ UNCHANGED <<now, ran>>
    BY <1>5, StopIntervalOK DEF Destroy
  <2>2. TypeOK' /\ RunsExactly' /\ NothingLeft'
    BY <2>1
  <2>3. OneInterval'
    BY <2>1
  <2>4. QED
    BY <2>2, <2>3
<1>6. ASSUME NEW d \in Int, MoveClock(d)
      PROVE  IInv'
  BY <1>6 DEF MoveClock, Timers
<1>7. CASE UNCHANGED vars
  BY <1>7 DEF vars
<1>8. QED
  BY <1>1, <1>2, <1>3, <1>4, <1>5, <1>6, <1>7 DEF Next, Tick

LEMMA Invariant == Spec => []IInv
<1>1. QED
  BY InitIInv, NextIInv, PTL DEF Spec

\* Type correctness.
THEOREM TypeCorrect == Spec => []TypeOK
<1>1. IInv => TypeOK
  BY DEF IInv
<1>2. QED
  BY <1>1, Invariant, PTL

\* The timer runs for its duration on the clock, neither more nor less, however
\* late its callbacks are and however often it is paused.
THEOREM ExactDuration == Spec => []RunsExactly
<1>1. IInv => RunsExactly
  BY DEF IInv
<1>2. QED
  BY <1>1, Invariant, PTL

\* No sequence of clicks and callbacks leaves an interval behind.
THEOREM NoIntervalLeaks == Spec => []OneInterval
<1>1. IInv => OneInterval
  BY DEF IInv
<1>2. QED
  BY <1>1, Invariant, PTL

\* 00:00 is shown when the timer is complete and at no other time, whatever
\* the unit the display rounds up to.
THEOREM ZeroIsComplete == Spec => []ZeroMeansComplete
<1>1. ASSUME NEW x \in Nat
      PROVE  (x + Second - 1) \div Second = 0 <=> x = 0
  OBVIOUS
<1>2. IInv => ZeroMeansComplete
  BY <1>1 DEF IInv, TypeOK, NothingLeft, ZeroMeansComplete, ShownSeconds, Timers
<1>3. QED
  BY <1>2, Invariant, PTL

-----------------------------------------------------------------------------
(* The refinement: each action of FocusTimer is one of Countdown.           *)

\* The moments of the code are differences on the clock of the countdown.
LEMMA LeftIs ==
  ASSUME IInv
  PROVE  /\ timer.state = "running" => Left = Duration - ran /\ Left = timer.deadline - now
         /\ timer.state # "running" => Left = timer.remaining
         /\ timer.state = "complete" => Left = 0
         /\ Left \in Int
  BY DEF IInv, TypeOK, RunsExactly, Left, Timers

LEMMA StartBegins ==
  ASSUME IInv, Start
  PROVE  Timing!Begin
<1>1. ToRun \in Nat /\ now \in Nat
  BY DEF IInv, TypeOK, ToRun, Timers
<1> DEFINE left == ToRun
<1>2. left = IF timer.state = "complete" THEN Duration ELSE timer.remaining
  BY DEF ToRun
<1>3. /\ timer' = [timer EXCEPT !.state = "running", !.remaining = left,
                               !.deadline = now + left, !.intervalId = "set",
                               !.intervals = timer.intervals + 1]
      /\ mounted /\ timer.state # "running" /\ UNCHANGED <<now, mounted>>
  BY DEF Start
<1> HIDE DEF left
<1>4. timer'.state = "running" /\ timer'.remaining = left /\ timer'.deadline = now + left
  BY <1>3 DEF IInv, TypeOK, Timers
<1>5. Left' = left
  BY <1>1, <1>3, <1>4 DEF Left, left
<1>6. Left = timer.remaining
  BY <1>3 DEF Left
<1>7. QED
  BY <1>2, <1>3, <1>4, <1>5, <1>6 DEF Timing!Begin

\* A callback completes the timer when nothing is left and refreshes it otherwise.
LEMMA CallbackRefreshes ==
  ASSUME IInv, Callback
  PROVE  Timing!Refresh \/ Timing!Finish
<1>1. timer.state = "running" /\ mounted
  BY DEF Callback, IInv, TypeOK, OneInterval, Timers
<1>2. timer' = UpdateRemaining(timer) /\ UNCHANGED <<now, mounted, ran>>
  BY DEF Callback
<1>3. \/ /\ timer'.state = "complete" /\ timer'.remaining = 0 /\ ran >= Duration
      \/ /\ timer'.state = "running" /\ timer'.remaining = Duration - ran
         /\ timer'.remaining > 0 /\ timer'.deadline = timer.deadline
  BY <1>1, <1>2, UpdateRemainingOK
<1>4. Left = Duration - ran /\ Left = timer.deadline - now /\ ran \in Int
  BY <1>1, LeftIs DEF IInv, TypeOK
<1>5. CASE timer'.state = "complete"
  <2>1. Left <= 0 /\ Left' = 0
    BY <1>3, <1>4, <1>5 DEF Left
  <2>2. QED
    BY <1>1, <1>2, <1>3, <1>5, <2>1 DEF Timing!Finish
<1>6. CASE timer'.state = "running"
  <2>1. Left > 0 /\ Left' = Left /\ timer'.remaining = Left
    BY <1>1, <1>2, <1>3, <1>4, <1>6 DEF Left
  <2>2. QED
    BY <1>1, <1>2, <1>6, <2>1 DEF Timing!Refresh
<1>7. QED
  BY <1>3, <1>5, <1>6

\* So does a click, which pauses the timer if something is left.
LEMMA PauseRefreshes ==
  ASSUME IInv, Pause
  PROVE  Timing!Refresh \/ Timing!Finish
<1> DEFINE u == UpdateRemaining(timer)
           t == StopInterval(u)
<1>1. mounted /\ timer.state = "running"
  BY DEF Pause
<1>2. /\ u \in Timers /\ u.intervals \in {0, 1} /\ (u.intervalId = "set" <=> u.intervals = 1)
      /\ \/ u.state = "complete" /\ u.remaining = 0 /\ ran >= Duration
         \/ u.state = "running" /\ u.remaining = Duration - ran /\ u.remaining > 0
  BY <1>1, UpdateRemainingOK
<1>3. t \in Timers /\ t.state = u.state /\ t.remaining = u.remaining
  BY <1>2, StopIntervalOK
<1> HIDE DEF u
<1>4. /\ timer' = IF t.state = "complete" THEN t ELSE [t EXCEPT !.state = "paused"]
      /\ UNCHANGED <<now, mounted, ran>>
  BY DEF Pause, u
<1> HIDE DEF t
<1>5. Left = Duration - ran /\ Left \in Int /\ ran \in Int
  BY <1>1, LeftIs DEF IInv, TypeOK
<1>6. CASE t.state = "complete"
  <2>1. timer' = t
    BY <1>4, <1>6
  <2>2. Left <= 0 /\ timer'.state = "complete" /\ timer'.remaining = 0 /\ Left' = 0
    BY <1>2, <1>3, <1>5, <1>6, <2>1 DEF Left
  <2>3. QED
    BY <1>1, <1>4, <2>2 DEF Timing!Finish
<1>7. CASE t.state = "running"
  <2>1. timer' = [t EXCEPT !.state = "paused"]
    BY <1>4, <1>7
  <2>2. timer'.state = "paused" /\ timer'.remaining = t.remaining
    BY <1>3, <2>1 DEF Timers
  <2>3. Left > 0 /\ timer'.remaining = Left /\ Left' = Left
    BY <1>2, <1>3, <1>5, <1>7, <2>2 DEF Left
  <2>4. QED
    BY <1>1, <1>4, <2>2, <2>3 DEF Timing!Refresh
<1>8. QED
  BY <1>2, <1>3, <1>6, <1>7

LEMMA ResetRenews ==
  ASSUME IInv, Reset
  PROVE  Timing!Renew
<1> DEFINE t == StopInterval(timer)
<1>1. t \in Timers
  BY StopIntervalOK DEF IInv, TypeOK, OneInterval
<1>2. /\ timer' = [t EXCEPT !.remaining = Duration, !.state = "ready"]
      /\ mounted /\ timer.state # "ready" /\ UNCHANGED mounted
  BY DEF Reset
<1> HIDE DEF t
<1>3. timer'.state = "ready" /\ timer'.remaining = Duration
  BY <1>1, <1>2 DEF Timers
<1>4. Left' = Duration
  BY <1>3 DEF Left
<1>5. QED
  BY <1>2, <1>3, <1>4 DEF Timing!Renew

LEMMA DestroyLeaves ==
  ASSUME IInv, Destroy
  PROVE  Timing!Leave
<1>1. /\ timer'.state = timer.state /\ timer'.remaining = timer.remaining
      /\ timer'.deadline = timer.deadline
  BY StopIntervalOK DEF Destroy, IInv, TypeOK, OneInterval
<1>2. Left' = Left
  BY <1>1 DEF Left, Destroy
<1>3. QED
  BY <1>1, <1>2 DEF Timing!Leave, Destroy

LEMMA ClockPasses ==
  ASSUME IInv, NEW d \in Int, MoveClock(d)
  PROVE  Timing!Pass(d)
<1>1. Left' = IF timer.state = "running" THEN Left - d ELSE Left
  BY DEF MoveClock, Left, IInv, TypeOK, Timers
<1>2. QED
  BY <1>1 DEF Timing!Pass, MoveClock

LEMMA StepsCount ==
  ASSUME IInv, [Next]_vars
  PROVE  [Timing!CountdownNext]_Timing!countdownVars
<1> USE DEF Timing!CountdownNext
<1>1. CASE Pause
  BY <1>1, PauseRefreshes
<1>2. CASE Start
  BY <1>2, StartBegins
<1>3. CASE Reset
  BY <1>3, ResetRenews
<1>4. CASE Callback
  BY <1>4, CallbackRefreshes
<1>5. CASE Destroy
  BY <1>5, DestroyLeaves
<1>6. ASSUME NEW d \in Jumps \cup {1}, MoveClock(d)
      PROVE  Timing!CountdownNext
  <2>1. Timing!Pass(d)
    BY <1>6, ClockPasses
  <2>2. QED
    BY <2>1
<1>7. CASE UNCHANGED vars
  <2>1. UNCHANGED Timing!countdownVars
    BY <1>7 DEF vars, Left, Timing!countdownVars
  <2>2. QED
    BY <2>1
<1>8. QED
  BY <1>1, <1>2, <1>3, <1>4, <1>5, <1>6, <1>7 DEF Next, Tick

\* For every duration and every way of setting the clock the focus timer is a countdown:
\* what is left changes with the clock while the timer runs and with nothing
\* else, and a click or a callback completes it when nothing is left, never before.
THEOREM Refinement == Spec => ImplementsCountdown
<1>1. Init => Timing!CountdownInit
  BY DEF Init, Timing!CountdownInit, Left
<1>2. IInv /\ [Next]_vars => [Timing!CountdownNext]_Timing!countdownVars
  BY StepsCount
<1>3. QED
  BY <1>1, <1>2, Invariant, PTL DEF Spec, ImplementsCountdown, Timing!CountdownSpec

=============================================================================
