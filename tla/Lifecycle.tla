------------------------------- MODULE Lifecycle -------------------------------
(***************************************************************************)
(* A service from its start to its end: Startup until it serves, and then  *)
(* the requests it answers and how it stops.  On SIGTERM it takes no more  *)
(* requests, waits for those it has, and shuts the two exporters of its    *)
(* telemetry down, which send what is still in their batches.  Who waits   *)
(* too long is killed by the container engine; whoever has ended is        *)
(* started again.                                                          *)
(***************************************************************************)
EXTENDS Startup

CONSTANTS
  UidService,  \* the service whose migration creates set_uid, which all call
  Exporters,   \* those that are configured: both or none
  MaxOpen,     \* bound: requests that an instance handles at the same time
  MaxStops     \* bound: how often instances are told to stop

ASSUME LifecycleAssumption ==
  /\ UidService \in Services
  /\ Exporters \in {{}, {"tracer", "logger"}}
  /\ MaxOpen \in Nat /\ MaxStops \in Nat

VARIABLES
  phase,   \* of an instance that serves: what main waits for
  open,    \* the requests that its process has begun and not answered
  batch,   \* the exporters that its process has given something not yet sent
  status,  \* how its process has ended
  stops    \* how often instances were told to stop

lifeVars == <<phase, open, batch, status, stops>>
allVars == <<pc, pending, owner, applied, executed, fails, phase, open, batch, status, stops>>

Phases == {"requests", "draining", "tracer", "logger"}
EndStatuses == {"none", "ok", "error", "failed", "killed"}

LifeInit ==
  /\ Init
  /\ phase = [i \in Instances |-> "requests"]
  /\ open = [i \in Instances |-> 0]
  /\ batch = [i \in Instances |-> {}]
  /\ status = [i \in Instances |-> "none"]
  /\ stops = 0

-----------------------------------------------------------------------------
(* Starting.                                                               *)

\* The container starts a process, which has no requests and new exporters.
FirstStep(i) ==
  /\ Connect(i)
  /\ phase' = [phase EXCEPT ![i] = "requests"]
  /\ open' = [open EXCEPT ![i] = 0]
  /\ batch' = [batch EXCEPT ![i] = {}]
  /\ status' = [status EXCEPT ![i] = "none"]
  /\ UNCHANGED stops

\* A migration that may not be run makes the process panic.
NextStep(i) ==
  /\ pc[i] # "down" /\ Start(i)
  /\ status' = IF pc'[i] = "down" THEN [status EXCEPT ![i] = "failed"] ELSE status
  /\ UNCHANGED <<phase, open, batch, stops>>

Starting(i) == FirstStep(i) \/ NextStep(i)

Crash(i) ==
  /\ Fail(i)
  /\ status' = [status EXCEPT ![i] = "failed"]
  /\ UNCHANGED <<phase, open, batch, stops>>

-----------------------------------------------------------------------------
(* Serving.                                                                *)

In(i, name) == pc[i] = "serving" /\ phase[i] = name

Begin(i) ==
  /\ In(i, "requests") /\ open[i] < MaxOpen
  /\ open' = [open EXCEPT ![i] = @ + 1]
  /\ UNCHANGED <<vars, phase, batch, status, stops>>

\* The request is answered, or its client has gone, and its span is closed; it may be
\* sampled or not, and something may have been logged or not.
Finish(i) ==
  /\ pc[i] = "serving" /\ open[i] > 0
  /\ open' = [open EXCEPT ![i] = @ - 1]
  /\ \E records \in SUBSET Exporters : batch' = [batch EXCEPT ![i] = @ \cup records]
  /\ UNCHANGED <<vars, phase, status, stops>>

\* The batches are also exported from time to time, and given up if that fails.
SendBatch(i, exporter) ==
  /\ pc[i] = "serving" /\ exporter \in batch[i]
  /\ batch' = [batch EXCEPT ![i] = @ \ {exporter}]
  /\ UNCHANGED <<vars, phase, open, status, stops>>

-----------------------------------------------------------------------------
(* Stopping.                                                               *)

\* shutdown_signal; a process that does not serve yet is ended by it, see Fail, and
\* one that is stopping takes no notice of another.
Signal(i) ==
  /\ In(i, "requests") /\ stops < MaxStops
  /\ phase' = [phase EXCEPT ![i] = "draining"]
  /\ stops' = stops + 1
  /\ UNCHANGED <<vars, open, batch, status>>

Drained_AtOnce(i) == TRUE

\* with_graceful_shutdown.
Drained(i) == open[i] = 0

Drain(i) ==
  /\ In(i, "draining") /\ Drained(i)
  /\ phase' = [phase EXCEPT ![i] = "tracer"]
  /\ UNCHANGED <<vars, open, batch, status, stops>>

\* InitState::shutdown: the tracer, if there is one, and then the logger.
ShutdownTracer(i) ==
  /\ In(i, "tracer")
  /\ batch' = [batch EXCEPT ![i] = @ \ {"tracer"}]
  /\ phase' = [phase EXCEPT ![i] = "logger"]
  /\ UNCHANGED <<vars, open, status, stops>>

Ends(i, how) ==
  /\ Exit(i)
  /\ status' = [status EXCEPT ![i] = how]
  /\ UNCHANGED <<phase, open, stops>>

ShutdownLogger(i) ==
  /\ In(i, "logger")
  /\ batch' = [batch EXCEPT ![i] = @ \ {"logger"}]
  /\ Ends(i, "ok")

\* An exporter reports an error; main returns it, without shutting the other down.
ShutdownFails(i) ==
  /\ In(i, "tracer") \/ In(i, "logger")
  /\ Exporters # {}
  /\ Ends(i, "error")
  /\ UNCHANGED batch

Kill(i) ==
  /\ pc[i] = "serving" /\ phase[i] # "requests"
  /\ Ends(i, "killed")
  /\ UNCHANGED batch

LifeNext ==
  \E i \in Instances :
    \/ Starting(i) \/ Crash(i)
    \/ Begin(i) \/ Finish(i) \/ \E exporter \in Exporters : SendBatch(i, exporter)
    \/ Signal(i) \/ Drain(i) \/ ShutdownTracer(i) \/ ShutdownLogger(i) \/ ShutdownFails(i)
    \/ Kill(i)

LifeSpec == LifeInit /\ [][LifeNext]_allVars

\* "restart: unless-stopped"; a process that was started runs, and one that was told
\* to stop is killed after the grace period.  Nothing is assumed of its requests.
LifeFairSpec ==
  LifeSpec /\ \A i \in Instances : WF_allVars(Starting(i)) /\ WF_allVars(Kill(i))

-----------------------------------------------------------------------------
(* Properties.                                                             *)

\* Type invariant: a process that does not serve yet has neither requests nor
\* anything to send, and no request is open when the exporters are shut down.
LifecycleOK ==
  /\ TypeOK
  /\ phase \in [Instances -> Phases] /\ open \in [Instances -> 0..MaxOpen]
  /\ batch \in [Instances -> SUBSET Exporters] /\ status \in [Instances -> EndStatuses]
  /\ stops \in 0..MaxStops
  /\ \A i \in Instances :
       /\ pc[i] \notin {"serving", "down"} => phase[i] = "requests" /\ open[i] = 0 /\ batch[i] = {}
       /\ phase[i] \in {"tracer", "logger"} => open[i] = 0

\* A process that ends by itself leaves no request that it had begun unfinished; if
\* it reports no error it leaves no telemetry in its batches either, not even that
\* of its last requests.
StopsCleanly ==
  \A i \in Instances : pc[i] = "down" =>
    /\ status[i] \in {"ok", "error"} => open[i] = 0
    /\ status[i] = "ok" => batch[i] = {}

\* Whoever comes first, whoever fails on the way and whoever is stopped, in the end
\* every instance serves and every service finds the function that it calls for
\* each request.
ComesUp ==
  <>[](UidService \in applied /\ \A i \in Instances : pc[i] = "serving" /\ phase[i] = "requests")

=============================================================================
