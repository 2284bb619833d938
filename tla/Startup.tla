-------------------------------- MODULE Startup --------------------------------
(***************************************************************************)
(* How the services start.  Each runs its embedded migrations before it    *)
(* serves, and all of them record what they ran in one table, which the    *)
(* first to come creates and the others may use only once the migration    *)
(* they all begin with has granted it to them.  A service that fails exits *)
(* and its container is started again; how it stops is the subject of      *)
(* Lifecycle.                                                              *)
(*                                                                         *)
(* A migration is the service it belongs to, or Setup for the one that all *)
(* services have.  A service may have several instances, which are the     *)
(* same user to the database.                                              *)
(***************************************************************************)
EXTENDS Naturals

CONSTANTS
  Services,    \* services that keep their tables in the database
  Setup,       \* the migration they have in common
  Instances,   \* containers
  ServiceOf,   \* the service that an instance runs
  Nobody,      \* the owner of a table that does not exist
  MaxFails     \* bound: how often an instance fails for a reason of its own

ASSUME StartupAssumption ==
  /\ Setup \notin Services /\ Nobody \notin Services
  /\ ServiceOf \in [Instances -> Services]
  /\ MaxFails \in Nat

VARIABLES
  pc,        \* how far an instance has come
  pending,   \* the migrations it found not to have been run
  owner,     \* who created __diesel_schema_migrations
  applied,   \* the rows of that table
  executed,  \* history: how often a migration was committed
  fails      \* how often an instance has failed for a reason of its own

vars == <<pc, pending, owner, applied, executed, fails>>

Migrations(i) == {Setup, ServiceOf[i]}
AllMigrations == Services \cup {Setup}

Pcs == {"down", "connected", "listing", "migrating", "serving"}

Init ==
  /\ pc = [i \in Instances |-> "down"]
  /\ pending = [i \in Instances |-> {}]
  /\ owner = Nobody
  /\ applied = {}
  /\ executed = [m \in AllMigrations |-> 0]
  /\ fails = 0

-----------------------------------------------------------------------------

Goto(i, to) == pc' = [pc EXCEPT ![i] = to]

\* The container is started and connects to the database.
Connect(i) ==
  /\ pc[i] = "down"
  /\ Goto(i, "connected")
  /\ UNCHANGED <<pending, owner, applied, executed, fails>>

\* CREATE TABLE IF NOT EXISTS __diesel_schema_migrations.
CreateTable(i) ==
  /\ pc[i] = "connected"
  /\ owner' = IF owner = Nobody THEN ServiceOf[i] ELSE owner
  /\ Goto(i, "listing")
  /\ UNCHANGED <<pending, applied, executed, fails>>

Granted_Never == FALSE

\* The last statement of Setup is the GRANT to the role of all services.
Granted == Setup \in applied

MayUse_Anybody(i) == TRUE

MayUse(i) == owner = ServiceOf[i] \/ Granted

PendingOf_IfNoneApplied(i) == IF applied \subseteq {Setup} THEN Migrations(i) \ applied ELSE {}

\* Those that were not run, whatever others were.
PendingOf(i) == Migrations(i) \ applied

\* SELECT version FROM __diesel_schema_migrations.
ListMigrations(i) ==
  /\ pc[i] = "listing"
  /\ \/ /\ MayUse(i)
        /\ pending' = [pending EXCEPT ![i] = PendingOf(i)]
        /\ Goto(i, "migrating")
     \/ /\ ~MayUse(i)
        /\ Goto(i, "down")
        /\ UNCHANGED pending
  /\ UNCHANGED <<owner, applied, executed, fails>>

\* In the order of their versions.
IsNext(i, m) == m \in pending[i] /\ (Setup \in pending[i] => m = Setup)

CanRecord_Always(m) == TRUE

\* version is the primary key.
CanRecord(m) == m \notin applied

\* A migration and the row that records it are one transaction; another instance
\* may have run it since the list was read, and then all of it is undone.
Migrate(i, m) ==
  /\ pc[i] = "migrating" /\ IsNext(i, m)
  /\ \/ /\ CanRecord(m)
        /\ applied' = applied \cup {m}
        /\ executed' = [executed EXCEPT ![m] = @ + 1]
        /\ pending' = [pending EXCEPT ![i] = @ \ {m}]
        /\ UNCHANGED pc
     \/ /\ ~CanRecord(m)
        /\ Goto(i, "down")
        /\ pending' = [pending EXCEPT ![i] = {}]
        /\ UNCHANGED <<applied, executed>>
  /\ UNCHANGED <<owner, fails>>

\* The rest of init, and main: the pool, the certificate, the listener.
Serve(i) ==
  /\ pc[i] = "migrating" /\ pending[i] = {}
  /\ Goto(i, "serving")
  /\ UNCHANGED <<pending, owner, applied, executed, fails>>

\* The process ends: a statement fails, be it that two instances create the table
\* at once, the connection is lost or a file is missing; or it is killed.
Fail(i) ==
  /\ pc[i] # "down" /\ fails < MaxFails
  /\ Goto(i, "down")
  /\ pending' = [pending EXCEPT ![i] = {}]
  /\ fails' = fails + 1
  /\ UNCHANGED <<owner, applied, executed>>

\* The process ends after it has been told to: Lifecycle says how.
Exit(i) ==
  /\ pc[i] = "serving"
  /\ Goto(i, "down")
  /\ UNCHANGED <<pending, owner, applied, executed, fails>>

Start(i) ==
  \/ Connect(i)
  \/ CreateTable(i)
  \/ ListMigrations(i)
  \/ \E m \in Migrations(i) : Migrate(i, m)
  \/ Serve(i)

Next == \E i \in Instances : Start(i) \/ Fail(i) \/ Exit(i)

Spec == Init /\ [][Next]_vars

-----------------------------------------------------------------------------
(* Properties.                                                             *)

\* Type invariant: whoever has read the table owned it or had been granted it, and
\* what is pending ends with the process.
TypeOK ==
  /\ pc \in [Instances -> Pcs]
  /\ pending \in [Instances -> SUBSET AllMigrations]
  /\ \A i \in Instances :
       /\ pending[i] \subseteq Migrations(i)
       /\ pc[i] # "migrating" => pending[i] = {}
       /\ pc[i] \in {"migrating", "serving"} => owner = ServiceOf[i] \/ Setup \in applied
  /\ owner \in Services \cup {Nobody}
  /\ applied \subseteq AllMigrations
  /\ executed \in [AllMigrations -> Nat]
  /\ fails \in 0..MaxFails

\* Instances list what is to be run and run it later, with others in between and
\* failures at any point: still each migration takes effect once, and is then
\* recorded, and none before the one they all begin with.
RunsOnce ==
  /\ \A m \in AllMigrations : executed[m] = IF m \in applied THEN 1 ELSE 0
  /\ applied # {} => Setup \in applied

\* No instance serves on a database that lacks one of its own migrations, although
\* those of the other services are recorded in the same table.
ServesMigrated ==
  \A i \in Instances : pc[i] = "serving" => Migrations(i) \subseteq applied

=============================================================================
