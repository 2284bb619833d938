------------------------------ MODULE FocusTimer ------------------------------
(***************************************************************************)
(* The focus timer of the frontend (timer.ts): two buttons, an interval    *)
(* whose callback the browser may delay as long as it likes, and a         *)
(* deadline on the wall clock, which may also be set forwards or back.     *)
(* The handlers of one event run to completion.                            *)
(***************************************************************************)
EXTENDS Integers

CONSTANTS
  Duration,  \* TIMER_DURATION_MS
  Second,    \* how many units of time the display rounds up to
  Jumps,     \* by how much the clock may be set forwards or back
  MaxNow     \* bound: the last moment of the clock

ASSUME FocusTimerAssumption ==
  /\ Duration \in Nat \ {0}
  /\ Second \in Nat \ {0}
  /\ Jumps \subseteq Int
  /\ MaxNow \in Nat

VARIABLES
  now,      \* Date.now()
  timer,    \* the fields of the component, and its intervals in the browser
  mounted,  \* the component has not been destroyed
  ran       \* history: how far the clock has moved while the timer was running

vars == <<now, timer, mounted, ran>>

States == {"ready", "running", "paused", "complete"}

\* intervalId: undefined or an id; intervals: how many are set and
\* have not been cleared.
Timers == [state : States, remaining : Nat, deadline : Int,
           intervalId : {"undefined", "set"}, intervals : Nat]

Init ==
  /\ now = 0
  /\ timer = [state |-> "ready", remaining |-> Duration, deadline |-> 0,
              intervalId |-> "undefined", intervals |-> 0]
  /\ mounted = TRUE
  /\ ran = 0

-----------------------------------------------------------------------------

StopInterval_Never(t) == t

\* stopInterval(): clearInterval of the id that is held.
StopInterval(t) ==
  IF t.intervalId = "set"
    THEN [t EXCEPT !.intervalId = "undefined", !.intervals = @ - 1]
    ELSE t

UpdateRemaining_ByTick(t) ==
  IF t.remaining <= 1
    THEN [StopInterval(t) EXCEPT !.remaining = 0, !.state = "complete"]
    ELSE [t EXCEPT !.remaining = @ - 1]

UpdateRemaining_NoComplete(t) ==
  IF t.deadline <= now THEN [t EXCEPT !.remaining = 0] ELSE [t EXCEPT !.remaining = t.deadline - now]

\* updateRemaining(): what is left until the deadline, at least zero.
UpdateRemaining(t) ==
  IF t.deadline <= now
    THEN [StopInterval(t) EXCEPT !.remaining = 0, !.state = "complete"]
    ELSE [t EXCEPT !.remaining = t.deadline - now]

Pause_AsShown ==
  LET t == StopInterval(timer) IN
  /\ mounted
  /\ timer.state = "running"
  /\ timer' = IF t.state = "complete" THEN t ELSE [t EXCEPT !.state = "paused"]
  /\ UNCHANGED <<now, mounted, ran>>

\* toggle() of a running timer: a click after the deadline completes it.
Pause ==
  LET t == StopInterval(UpdateRemaining(timer)) IN
  /\ mounted
  /\ timer.state = "running"
  /\ timer' = IF t.state = "complete" THEN t ELSE [t EXCEPT !.state = "paused"]
  /\ UNCHANGED <<now, mounted, ran>>

\* What the timer has left to run when it is started or resumed.
ToRun == IF timer.state = "complete" THEN Duration ELSE timer.remaining

\* toggle() of any other timer.  The bound leaves room on the clock for it to end.
Start ==
  /\ mounted
  /\ timer.state # "running"
  /\ now + ToRun <= MaxNow
  /\ timer' = [timer EXCEPT !.state = "running", !.remaining = ToRun,
                            !.deadline = now + ToRun,
                            !.intervalId = "set", !.intervals = @ + 1]
  /\ ran' = IF timer.state = "complete" THEN 0 ELSE ran
  /\ UNCHANGED <<now, mounted>>

\* reset(): the button is disabled while the timer is ready.
Reset ==
  /\ mounted
  /\ timer.state # "ready"
  /\ timer' = [StopInterval(timer) EXCEPT !.remaining = Duration, !.state = "ready"]
  /\ ran' = 0
  /\ UNCHANGED <<now, mounted>>

\* The browser runs the callback of an interval.
Callback ==
  /\ timer.intervals > 0
  /\ timer' = UpdateRemaining(timer)
  /\ UNCHANGED <<now, mounted, ran>>

\* DestroyRef.onDestroy.
Destroy ==
  /\ mounted
  /\ mounted' = FALSE
  /\ timer' = StopInterval(timer)
  /\ UNCHANGED <<now, ran>>

MoveClock(d) ==
  /\ now + d \in 0..MaxNow
  /\ now' = now + d
  /\ ran' = IF timer.state = "running" THEN ran + d ELSE ran
  /\ UNCHANGED <<timer, mounted>>

\* Time passes.
Tick == MoveClock(1)

Next ==
  \/ Pause \/ Start \/ Reset \/ Callback \/ Destroy
  \/ Tick
  \/ \E d \in Jumps : MoveClock(d)

Spec == Init /\ [][Next]_vars

\* Time does not stop, and the browser runs the callback of a set interval
\* sooner or later.
FairSpec == Spec /\ WF_vars(Tick) /\ WF_vars(Callback)

-----------------------------------------------------------------------------
(* Properties.                                                             *)

\* Type invariant.
TypeOK ==
  /\ now \in Nat
  /\ timer \in Timers
  /\ mounted \in BOOLEAN
  /\ ran \in Int

\* However late callbacks run, however often the timer is paused and resumed
\* and however the clock is set, the timer stands for exactly Duration on the
\* clock: the deadline is what has not been run yet away, a pause keeps all of
\* it, and the timer completes only when all of it has been run.
RunsExactly ==
  /\ timer.state = "ready" => timer.remaining = Duration /\ ran = 0
  /\ timer.state = "running" => timer.deadline - now = Duration - ran
  /\ timer.state = "paused" => timer.remaining = Duration - ran
  /\ timer.state = "complete" => timer.remaining = 0 /\ ran >= Duration

\* A running timer has one interval and every other, and one that was
\* destroyed, has none: none is left behind by clicks that come before, after or
\* instead of the callback that should have completed the timer.
OneInterval ==
  /\ timer.intervals = IF mounted /\ timer.state = "running" THEN 1 ELSE 0
  /\ timer.intervalId = "set" <=> timer.intervals = 1

ShownSeconds_Floor == timer.remaining \div Second

\* time(): Math.ceil of the seconds that remain.
ShownSeconds == (timer.remaining + Second - 1) \div Second

\* The display reads 00:00 when the timer is complete and at no other time.
ZeroMeansComplete == ShownSeconds = 0 <=> timer.state = "complete"

\* Unless the clock is set back for ever, a running timer does not run for ever:
\* it completes, or someone pauses, resets or destroys it.
Ends ==
  <>[][now' >= now]_now =>
    (mounted /\ timer.state = "running" ~> ~mounted \/ timer.state # "running")

-----------------------------------------------------------------------------
(* The abstract specification: a countdown without a clock.                *)

\* What is left to run: of a running timer, the time until its deadline.
Left == IF timer.state = "running" THEN timer.deadline - now ELSE timer.remaining

Timing == INSTANCE Countdown WITH
  Moves <- Jumps \cup {1}, state <- timer.state, left <- Left, shown <- timer.remaining,
  present <- mounted

\* Deadlines, callbacks that come late or that a click comes before, and intervals
\* add up to a countdown: what is left changes with the clock while the timer
\* runs and with nothing else, a click or a callback completes the timer when nothing
\* is left and never before, and nothing happens to a timer that was destroyed.
ImplementsCountdown == Timing!CountdownSpec

=============================================================================
