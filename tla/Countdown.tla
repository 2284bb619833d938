------------------------------- MODULE Countdown -------------------------------
(***************************************************************************)
(* What the focus timer promises: a countdown that loses no time and gains *)
(* none.  There is no wall clock here, no deadline, and no callback that   *)
(* somebody has to set and to clear.                                       *)
(***************************************************************************)
EXTENDS Integers

CONSTANTS
  Duration,  \* what is to run
  Moves      \* by how much time may move at once

VARIABLES
  state,   \* "ready", "running", "paused" or "complete"
  left,    \* what is left to run; less than nothing if nobody has noticed the end
  shown,   \* what was left when the display was last brought up to date
  present  \* the timer is on the page

countdownVars == <<state, left, shown, present>>

CountdownInit ==
  /\ state = "ready" /\ left = Duration /\ shown = Duration
  /\ present = TRUE

\* Time moves.
Pass(d) ==
  /\ left' = IF state = "running" THEN left - d ELSE left
  /\ UNCHANGED <<state, shown, present>>

\* The timer is started, resumed, or, when it is complete, started again.
Begin ==
  /\ present /\ state # "running"
  /\ state' = "running"
  /\ left' = IF state = "complete" THEN Duration ELSE left
  /\ shown' = left'
  /\ UNCHANGED present

\* As long as something is left the display is brought up to date, at a pause too.
Refresh ==
  /\ present /\ state = "running" /\ left > 0
  /\ state' \in {"running", "paused"}
  /\ shown' = left
  /\ UNCHANGED <<left, present>>

\* When nothing is left the timer completes, whoever notices it.
Finish ==
  /\ present /\ state = "running" /\ left <= 0
  /\ state' = "complete" /\ left' = 0 /\ shown' = 0
  /\ UNCHANGED present

Renew ==
  /\ present /\ state # "ready"
  /\ state' = "ready" /\ left' = Duration /\ shown' = Duration
  /\ UNCHANGED present

\* The page is left, and the timer with it as it is.
Leave ==
  /\ present
  /\ present' = FALSE
  /\ UNCHANGED <<state, left, shown>>

CountdownNext ==
  \/ Begin \/ Refresh \/ Finish \/ Renew \/ Leave
  \/ \E d \in Moves : Pass(d)

CountdownSpec == CountdownInit /\ [][CountdownNext]_countdownVars

=============================================================================
