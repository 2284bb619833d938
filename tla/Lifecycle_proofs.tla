--------------------------- MODULE Lifecycle_proofs ---------------------------
(***************************************************************************)
(* Proofs about Startup, and about Lifecycle, which takes the steps of     *)
(* Startup; for any services and any number of instances and requests.     *)
(***************************************************************************)
EXTENDS Lifecycle, TLAPS

USE StartupAssumption DEF AllMigrations, Migrations, Pcs, Goto

-----------------------------------------------------------------------------

LEMMA InitTypeOK == Init => TypeOK
  BY DEF Init, TypeOK

LEMMA NextTypeOK == TypeOK /\ [Next]_vars => TypeOK'
<1> SUFFICES ASSUME TypeOK, [Next]_vars
             PROVE  TypeOK'
  OBVIOUS
<1> USE DEF TypeOK
<1>1. ASSUME NEW i \in Instances, Connect(i)
      PROVE  TypeOK'
  BY <1>1 DEF Connect
<1>2. ASSUME NEW i \in Instances, CreateTable(i)
      PROVE  TypeOK'
  <2>1. owner' \in Services \cup {Nobody} /\ (owner # Nobody => owner' = owner)
    BY <1>2 DEF CreateTable
  <2>2. QED
    BY <1>2, <2>1 DEF CreateTable
<1>3. ASSUME NEW i \in Instances, ListMigrations(i)
      PROVE  TypeOK'
  BY <1>3 DEF ListMigrations, MayUse, Granted, PendingOf
<1>4. ASSUME NEW i \in Instances, NEW m \in Migrations(i), Migrate(i, m)
      PROVE  TypeOK'
  <2>1. m \in AllMigrations /\ applied \subseteq applied'
    BY <1>4 DEF Migrate
  <2>2. applied' \subseteq AllMigrations /\ executed' \in [AllMigrations -> Nat]
    BY <1>4, <2>1 DEF Migrate
  <2>3. pc' \in [Instances -> Pcs] /\ pending' \in [Instances -> SUBSET AllMigrations]
    BY <1>4 DEF Migrate
  <2>4. UNCHANGED <<owner, fails>>
    BY <1>4 DEF Migrate
  <2>5. \A j \in Instances : /\ pending'[j] \subseteq pending[j]
                             /\ pc'[j] = pc[j] \/ (pc'[j] = "down" /\ pending'[j] = {})
    BY <1>4 DEF Migrate
  <2>6. QED
    BY <2>1, <2>2, <2>3, <2>4, <2>5
<1>5. ASSUME NEW i \in Instances, Serve(i)
      PROVE  TypeOK'
  BY <1>5 DEF Serve
<1>6. ASSUME NEW i \in Instances, Fail(i)
      PROVE  TypeOK'
  BY <1>6 DEF Fail
<1>7. ASSUME NEW i \in Instances, Exit(i)
      PROVE  TypeOK'
  BY <1>7 DEF Exit
<1>8. CASE UNCHANGED vars
  BY <1>8 DEF vars
<1>9. QED
  BY <1>1, <1>2, <1>3, <1>4, <1>5, <1>6, <1>7, <1>8 DEF Next, Start

\* Type correctness: whoever has read the table owned it or had been granted it.
THEOREM TypeCorrect == Spec => []TypeOK
<1>1. QED
  BY InitTypeOK, NextTypeOK, PTL DEF Spec

-----------------------------------------------------------------------------
(* What has been run.                                                      *)

\* What an instance no longer has to run has been run.  This is stable although
\* the list it read may be old, because nothing is ever removed from the table.
DoneOrPending ==
  \A i \in Instances : pc[i] \in {"migrating", "serving"} =>
    Migrations(i) \ pending[i] \subseteq applied

IInv == TypeOK /\ RunsOnce /\ DoneOrPending

LEMMA InitIInv == Init => IInv
  BY InitTypeOK DEF Init, IInv, RunsOnce, DoneOrPending

LEMMA NextIInv == IInv /\ [Next]_vars => IInv'
<1> SUFFICES ASSUME IInv, [Next]_vars
             PROVE  IInv'
  OBVIOUS
<1>0. TypeOK /\ TypeOK'
  BY NextTypeOK DEF IInv
<1>1. ASSUME NEW i \in Instances, Connect(i) \/ CreateTable(i) \/ Serve(i) \/ Fail(i) \/ Exit(i)
      PROVE  IInv'
  <2>1. UNCHANGED <<applied, executed>>
    BY <1>1 DEF Connect, CreateTable, Serve, Fail, Exit
  <2>2. \A j \in Instances : pc'[j] \in {"migrating", "serving"} =>
           pc[j] \in {"migrating", "serving"} /\ pending'[j] = pending[j]
    BY <1>0, <1>1 DEF Connect, CreateTable, Serve, Fail, Exit, TypeOK
  <2>3. QED
    BY <1>0, <2>1, <2>2 DEF IInv, RunsOnce, DoneOrPending
<1>2. ASSUME NEW i \in Instances, ListMigrations(i)
      PROVE  IInv'
  <2>1. UNCHANGED <<applied, executed>>
    BY <1>2 DEF ListMigrations
  <2>2. DoneOrPending'
    BY <1>0, <1>2, <2>1 DEF IInv, DoneOrPending, ListMigrations, PendingOf, TypeOK
  <2>3. QED
    BY <1>0, <2>1, <2>2 DEF IInv, RunsOnce
<1>3. ASSUME NEW i \in Instances, NEW m \in Migrations(i), Migrate(i, m)
      PROVE  IInv'
  <2>1. CASE CanRecord(m)
    <3>1. /\ m \notin applied /\ applied' = applied \cup {m}
          /\ executed' = [executed EXCEPT ![m] = @ + 1]
          /\ pending' = [pending EXCEPT ![i] = @ \ {m}] /\ pc' = pc
      BY <1>3, <2>1 DEF Migrate, CanRecord
    <3>2. \A n \in AllMigrations : executed'[n] = IF n \in applied' THEN 1 ELSE 0
      BY <1>0, <3>1 DEF IInv, RunsOnce, TypeOK
    <3>3. Setup \in applied'
      BY <1>3, <3>1 DEF IInv, DoneOrPending, Migrate, IsNext
    <3>4. DoneOrPending'
      BY <1>0, <3>1 DEF IInv, DoneOrPending, TypeOK
    <3>5. QED
      BY <1>0, <3>2, <3>3, <3>4 DEF IInv, RunsOnce
  <2>2. CASE ~CanRecord(m)
    <3>1. /\ UNCHANGED <<applied, executed>>
          /\ \A j \in Instances : pc'[j] \in {"migrating", "serving"} =>
               pc[j] \in {"migrating", "serving"} /\ pending'[j] = pending[j]
      BY <1>0, <1>3, <2>2 DEF Migrate, TypeOK
    <3>2. QED
      BY <1>0, <3>1 DEF IInv, RunsOnce, DoneOrPending
  <2>3. QED
    BY <2>1, <2>2
<1>4. CASE UNCHANGED vars
  BY <1>0, <1>4 DEF vars, IInv, RunsOnce, DoneOrPending
<1>5. QED
  BY <1>1, <1>2, <1>3, <1>4 DEF Next, Start

LEMMA Invariant == Spec => []IInv
<1>1. QED
  BY InitIInv, NextIInv, PTL DEF Spec

\* However many instances read the table, fail and come back in whatever order,
\* each migration takes effect once and Setup comes first.
THEOREM MigratedOnce == Spec => []RunsOnce
<1>1. IInv => RunsOnce
  BY DEF IInv
<1>2. QED
  BY <1>1, Invariant, PTL

\* An instance that serves has all of its migrations in the database.
THEOREM ServedAreMigrated == Spec => []ServesMigrated
<1>1. IInv => ServesMigrated
  BY DEF IInv, DoneOrPending, ServesMigrated, TypeOK
<1>2. QED
  BY <1>1, Invariant, PTL

-----------------------------------------------------------------------------
(* Lifecycle takes the steps of Startup, or none of them.                  *)

LEMMA LifeNextIsNext == [LifeNext]_allVars => [Next]_vars
<1> SUFFICES ASSUME [LifeNext]_allVars
             PROVE  [Next]_vars
  OBVIOUS
<1>1. ASSUME NEW i \in Instances, Starting(i) \/ Crash(i)
      PROVE  [Next]_vars
  BY <1>1 DEF Starting, FirstStep, NextStep, Crash, Next, Start
<1>2. ASSUME NEW i \in Instances,
             Begin(i) \/ Finish(i) \/ (\E exporter \in Exporters : SendBatch(i, exporter))
               \/ Signal(i) \/ Drain(i) \/ ShutdownTracer(i)
      PROVE  UNCHANGED vars
  BY <1>2 DEF Begin, Finish, SendBatch, Signal, Drain, ShutdownTracer
<1>3. ASSUME NEW i \in Instances, ShutdownLogger(i) \/ ShutdownFails(i) \/ Kill(i)
      PROVE  [Next]_vars
  BY <1>3 DEF ShutdownLogger, ShutdownFails, Kill, Ends, Next
<1>4. CASE UNCHANGED allVars
  BY <1>4 DEF allVars, vars
<1>5. QED
  BY <1>1, <1>2, <1>3, <1>4 DEF LifeNext

\* Lifecycle implements Startup: what is proved of Startup holds however the
\* instances are stopped.
THEOREM LifecycleIsStartup == LifeSpec => Spec
<1>1. LifeInit => Init
  BY DEF LifeInit
<1>2. QED
  BY <1>1, LifeNextIsNext, PTL DEF LifeSpec, Spec

-----------------------------------------------------------------------------
(* What stopping leaves behind.                                            *)

\* The tracer is shut down first; nothing is recorded after that, because no
\* request is open.
TracerSent == \A i \in Instances : phase[i] = "logger" => "tracer" \notin batch[i]

LifeInv == LifecycleOK /\ StopsCleanly /\ TracerSent

LEMMA InitLifeInv == LifeInit => LifeInv
  BY InitTypeOK, LifecycleAssumption
  DEF LifeInit, Init, LifeInv, LifecycleOK, StopsCleanly, TracerSent, Phases, EndStatuses

LEMMA NextLifeInv == LifeInv /\ [LifeNext]_allVars => LifeInv'
<1> SUFFICES ASSUME LifeInv, [LifeNext]_allVars
             PROVE  LifeInv'
  OBVIOUS
<1>0. TypeOK /\ TypeOK'
  BY NextTypeOK, LifeNextIsNext DEF LifeInv, LifecycleOK
<1>T. /\ pc \in [Instances -> Pcs]
      /\ phase \in [Instances -> Phases] /\ open \in [Instances -> 0..MaxOpen]
      /\ batch \in [Instances -> SUBSET Exporters] /\ status \in [Instances -> EndStatuses]
      /\ stops \in 0..MaxStops
  BY DEF LifeInv, LifecycleOK, TypeOK
<1>I. \A i \in Instances :
        /\ pc[i] \notin {"serving", "down"} => phase[i] = "requests" /\ open[i] = 0 /\ batch[i] = {}
        /\ phase[i] \in {"tracer", "logger"} => open[i] = 0
        /\ pc[i] = "down" => /\ status[i] \in {"ok", "error"} => open[i] = 0
                             /\ status[i] = "ok" => batch[i] = {}
        /\ phase[i] = "logger" => "tracer" \notin batch[i]
  BY DEF LifeInv, LifecycleOK, StopsCleanly, TracerSent
<1> USE LifecycleAssumption DEF LifeInv, LifecycleOK, StopsCleanly, TracerSent, Phases, EndStatuses
<1>1. ASSUME NEW i \in Instances, FirstStep(i)
      PROVE  LifeInv'
  <2>1. /\ pc' = [pc EXCEPT ![i] = "connected"]
        /\ phase' = [phase EXCEPT ![i] = "requests"] /\ open' = [open EXCEPT ![i] = 0]
        /\ batch' = [batch EXCEPT ![i] = {}] /\ status' = [status EXCEPT ![i] = "none"]
        /\ UNCHANGED stops
    BY <1>1 DEF FirstStep, Connect
  <2>2. QED
    BY <1>0, <1>T, <1>I, <2>1
<1>2. ASSUME NEW i \in Instances, NextStep(i)
      PROVE  LifeInv'
  <2>1. pc[i] \notin {"serving", "down"}
    BY <1>2 DEF NextStep, Start, Connect, CreateTable, ListMigrations, Migrate, Serve
  <2>2. \A j \in Instances : j # i => pc'[j] = pc[j]
    BY <1>2, <1>T DEF NextStep, Start, Connect, CreateTable, ListMigrations, Migrate, Serve
  <2>3. /\ UNCHANGED <<phase, open, batch, stops>>
        /\ status' = IF pc'[i] = "down" THEN [status EXCEPT ![i] = "failed"] ELSE status
    BY <1>2 DEF NextStep
  <2>4. QED
    BY <1>0, <1>T, <1>I, <2>1, <2>2, <2>3
<1>3. ASSUME NEW i \in Instances, Crash(i)
      PROVE  LifeInv'
  <2>1. /\ pc' = [pc EXCEPT ![i] = "down"] /\ status' = [status EXCEPT ![i] = "failed"]
        /\ UNCHANGED <<phase, open, batch, stops>>
    BY <1>3 DEF Crash, Fail
  <2>2. QED
    BY <1>0, <1>T, <1>I, <2>1
<1>4. ASSUME NEW i \in Instances, Begin(i)
      PROVE  LifeInv'
  <2>1. /\ pc[i] = "serving" /\ phase[i] = "requests" /\ open[i] < MaxOpen
        /\ open' = [open EXCEPT ![i] = open[i] + 1]
        /\ UNCHANGED <<pc, phase, batch, status, stops>>
    BY <1>4 DEF Begin, In, vars
  <2>2. QED
    BY <1>0, <1>T, <1>I, <2>1
<1>5. ASSUME NEW i \in Instances, Finish(i)
      PROVE  LifeInv'
  <2>1. PICK records \in SUBSET Exporters : batch' = [batch EXCEPT ![i] = @ \cup records]
    BY <1>5 DEF Finish
  <2>2. /\ pc[i] = "serving" /\ open[i] > 0 /\ open' = [open EXCEPT ![i] = open[i] - 1]
        /\ UNCHANGED <<pc, phase, status, stops>>
    BY <1>5 DEF Finish, vars
  <2>3. phase[i] \notin {"tracer", "logger"}
    BY <1>I, <2>2
  <2>4. QED
    BY <1>0, <1>T, <1>I, <2>1, <2>2, <2>3
<1>6. ASSUME NEW i \in Instances, NEW exporter \in Exporters, SendBatch(i, exporter)
      PROVE  LifeInv'
  <2>1. /\ pc[i] = "serving" /\ batch' = [batch EXCEPT ![i] = @ \ {exporter}]
        /\ UNCHANGED <<pc, phase, open, status, stops>>
    BY <1>6 DEF SendBatch, vars
  <2>2. QED
    BY <1>0, <1>T, <1>I, <2>1
<1>7. ASSUME NEW i \in Instances, Signal(i)
      PROVE  LifeInv'
  <2>1. /\ pc[i] = "serving" /\ phase' = [phase EXCEPT ![i] = "draining"]
        /\ stops < MaxStops /\ stops' = stops + 1 /\ UNCHANGED <<pc, open, batch, status>>
    BY <1>7 DEF Signal, In, vars
  <2>2. QED
    BY <1>0, <1>T, <1>I, <2>1
<1>8. ASSUME NEW i \in Instances, Drain(i)
      PROVE  LifeInv'
  <2>1. /\ pc[i] = "serving" /\ open[i] = 0 /\ phase' = [phase EXCEPT ![i] = "tracer"]
        /\ UNCHANGED <<pc, open, batch, status, stops>>
    BY <1>8 DEF Drain, Drained, In, vars
  <2>2. QED
    BY <1>0, <1>T, <1>I, <2>1
<1>9. ASSUME NEW i \in Instances, ShutdownTracer(i)
      PROVE  LifeInv'
  <2>1. /\ pc[i] = "serving" /\ open[i] = 0 /\ phase' = [phase EXCEPT ![i] = "logger"]
        /\ batch' = [batch EXCEPT ![i] = @ \ {"tracer"}]
        /\ UNCHANGED <<pc, open, status, stops>>
    BY <1>9, <1>I DEF ShutdownTracer, In, vars
  <2>2. QED
    BY <1>0, <1>T, <1>I, <2>1
<1>10. ASSUME NEW i \in Instances, ShutdownLogger(i)
       PROVE  LifeInv'
  <2>1. /\ pc' = [pc EXCEPT ![i] = "down"] /\ status' = [status EXCEPT ![i] = "ok"]
        /\ batch' = [batch EXCEPT ![i] = @ \ {"logger"}] /\ UNCHANGED <<phase, open, stops>>
    BY <1>10 DEF ShutdownLogger, Ends, Exit
  <2>2. open[i] = 0 /\ "tracer" \notin batch[i] /\ batch[i] \subseteq {"tracer", "logger"}
    BY <1>10, <1>T, <1>I DEF ShutdownLogger, In
  <2>3. batch'[i] = {}
    BY <1>T, <2>1, <2>2
  <2>4. QED
    BY <1>0, <1>T, <1>I, <2>1, <2>2, <2>3
<1>11. ASSUME NEW i \in Instances, ShutdownFails(i)
       PROVE  LifeInv'
  <2>1. /\ pc' = [pc EXCEPT ![i] = "down"] /\ status' = [status EXCEPT ![i] = "error"]
        /\ UNCHANGED <<phase, open, batch, stops>>
    BY <1>11 DEF ShutdownFails, Ends, Exit
  <2>2. open[i] = 0
    BY <1>11, <1>I DEF ShutdownFails, In
  <2>3. QED
    BY <1>0, <1>T, <1>I, <2>1, <2>2
<1>12. ASSUME NEW i \in Instances, Kill(i)
       PROVE  LifeInv'
  <2>1. /\ pc' = [pc EXCEPT ![i] = "down"] /\ status' = [status EXCEPT ![i] = "killed"]
        /\ UNCHANGED <<phase, open, batch, stops>>
    BY <1>12 DEF Kill, Ends, Exit
  <2>2. QED
    BY <1>0, <1>T, <1>I, <2>1
<1>13. CASE UNCHANGED allVars
  BY <1>0, <1>13, <1>T, <1>I DEF allVars
<1>14. QED
  BY <1>1, <1>2, <1>3, <1>4, <1>5, <1>6, <1>7, <1>8, <1>9, <1>10, <1>11, <1>12, <1>13
  DEF LifeNext, Starting

LEMMA LifeInvariant == LifeSpec => []LifeInv
<1>1. QED
  BY InitLifeInv, NextLifeInv, PTL DEF LifeSpec

\* No request is open when the exporters are shut down, and none is begun before
\* the instance serves.
THEOREM LifeCorrect == LifeSpec => []LifecycleOK
<1>1. LifeInv => LifecycleOK
  BY DEF LifeInv
<1>2. QED
  BY <1>1, LifeInvariant, PTL

\* A process that ends by itself leaves no request unfinished, and one that reports
\* no error no telemetry in its batches.
THEOREM StoppedCleanly == LifeSpec => []StopsCleanly
<1>1. LifeInv => StopsCleanly
  BY DEF LifeInv
<1>2. QED
  BY <1>1, LifeInvariant, PTL

=============================================================================
