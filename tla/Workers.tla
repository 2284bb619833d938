-------------------------------- MODULE Workers --------------------------------
(***************************************************************************)
(* The workers of the time server.  Each of them polls the one listening   *)
(* socket, edge-triggered, and its own connections; whoever comes first    *)
(* accepts.  Every build profile has panic = "abort": a worker that panics *)
(* ends the whole process, everybody's connections and the queue with it,  *)
(* and its container starts it again.                                      *)
(*                                                                         *)
(* What happens on a connection once it is accepted is the subject of      *)
(* Timesync.  The kernel's poll and the queue of the socket are external.  *)
(***************************************************************************)
EXTENDS Naturals, Sequences, FiniteSets

CONSTANTS
  Threads,  \* the workers: two per processor
  Conns,    \* connections that clients may have at the same time
  NoOne,    \* no worker
  MaxFiles  \* descriptors that the process has for polls and connections

ASSUME WorkersAssumption ==
  NoOne \notin Threads /\ IsFiniteSet(Threads) /\ MaxFiles \in Nat

VARIABLES
  process,  \* whether the process runs
  pc,       \* of each worker: how far it is
  event,    \* of each worker: the listener has something new to report to its poll
  backlog,  \* the connections that wait to be accepted, in order
  holder,   \* of each connection: the worker that has it in its slab
  calm      \* history: in this life of the process no system call has failed, and
            \* the descriptors were enough for whoever had come

vars == <<process, pc, event, backlog, holder, calm>>

Pcs == {"starting", "polling", "accepting"}

Registered(w) == pc[w] # "starting"

Waiting == {backlog[i] : i \in DOMAIN backlog}

Open == {c \in Conns : holder[c] # NoOne}

Polls == {w \in Threads : Registered(w)}

Used == Cardinality(Open) + Cardinality(Polls)

\* accept4 takes the descriptor before it looks at the queue.
OutOfDescriptors == Used >= MaxFiles

\* One descriptor to spare with all workers polling and these connections accepted.
Fits(conns) == Cardinality(conns) + Cardinality(Threads) < MaxFiles

Init ==
  /\ process = "up"
  /\ pc = [w \in Threads |-> "starting"]
  /\ event = [w \in Threads |-> FALSE]
  /\ backlog = <<>>
  /\ holder = [c \in Conns |-> NoOne]
  /\ calm = Fits({})

-----------------------------------------------------------------------------
(* Clients.                                                                *)

\* The listener is bound before the workers start.  All that poll it are told.
Connect(c) ==
  /\ process = "up"
  /\ c \notin Waiting \cup Open
  /\ backlog' = Append(backlog, c)
  /\ event' = [w \in Threads |-> event[w] \/ Registered(w)]
  /\ calm' = (calm /\ Fits(Waiting' \cup Open))
  /\ UNCHANGED <<process, pc, holder>>

\* A connection is done with; its worker removes it between two polls.
Remove(c) ==
  /\ holder[c] # NoOne /\ pc[holder[c]] = "polling"
  /\ holder' = [holder EXCEPT ![c] = NoOne]
  /\ UNCHANGED <<process, pc, event, backlog, calm>>

-----------------------------------------------------------------------------
(* A worker.                                                               *)

Ready_Never == FALSE

\* A socket that is readable when it is registered is reported.
Ready == backlog # <<>>

\* Poll::new and register.
Register(w) ==
  /\ process = "up" /\ pc[w] = "starting" /\ ~OutOfDescriptors
  /\ pc' = [pc EXCEPT ![w] = "polling"]
  /\ event' = [event EXCEPT ![w] = Ready]
  /\ UNCHANGED <<process, backlog, holder, calm>>

\* The SERVER event.
TakeEvent(w) ==
  /\ pc[w] = "polling" /\ event[w]
  /\ pc' = [pc EXCEPT ![w] = "accepting"]
  /\ event' = [event EXCEPT ![w] = FALSE]
  /\ UNCHANGED <<process, backlog, holder, calm>>

AfterAccept_OncePerEvent == "polling"

\* accept_connections goes round until nobody waits.
AfterAccept == "accepting"

Accept(w) ==
  /\ pc[w] = "accepting" /\ backlog # <<>> /\ ~OutOfDescriptors
  /\ holder' = [holder EXCEPT ![Head(backlog)] = w]
  /\ backlog' = Tail(backlog)
  /\ pc' = [pc EXCEPT ![w] = AfterAccept]
  /\ UNCHANGED <<process, event, calm>>

Abort_WorkerOnly(w) ==
  /\ pc' = [pc EXCEPT ![w] = "starting"]
  /\ event' = [event EXCEPT ![w] = FALSE]
  /\ UNCHANGED <<process, backlog, holder>>

\* A panic of worker w: nothing unwinds, the process ends with all its workers, and
\* the kernel resets the connections of all of them and those in the queue.
Abort(w) ==
  /\ process' = "down"
  /\ pc' = [v \in Threads |-> "starting"]
  /\ event' = [v \in Threads |-> FALSE]
  /\ backlog' = <<>>
  /\ holder' = [c \in Conns |-> NoOne]

WouldBlock_IsAnError(w) ==
  /\ pc[w] = "accepting" /\ backlog = <<>>
  /\ Abort(w) /\ UNCHANGED calm

WouldBlock(w) ==
  /\ pc[w] = "accepting" /\ backlog = <<>> /\ ~OutOfDescriptors
  /\ pc' = [pc EXCEPT ![w] = "polling"]
  /\ UNCHANGED <<process, event, backlog, holder, calm>>

\* Poll::new or accept gets no descriptor.
PanicWithoutDescriptor(w) ==
  /\ process = "up" /\ pc[w] \in {"starting", "accepting"} /\ OutOfDescriptors
  /\ Abort(w) /\ UNCHANGED calm

\* Another of the results that are unwrapped is an error: of the poll, of registering
\* and deregistering, of an accept and set_nodelay, or of the clock.
SystemCallFails(w) ==
  /\ process = "up"
  /\ Abort(w) /\ calm' = FALSE

\* restart: unless-stopped.
Restart ==
  /\ process = "down"
  /\ process' = "up"
  /\ calm' = Fits({})
  /\ UNCHANGED <<pc, event, backlog, holder>>

Work(w) ==
  \/ Register(w) \/ TakeEvent(w) \/ Accept(w) \/ WouldBlock(w)
  \/ PanicWithoutDescriptor(w)

Next ==
  \/ \E c \in Conns : Connect(c) \/ Remove(c)
  \/ \E w \in Threads : Work(w) \/ SystemCallFails(w)
  \/ Restart

Spec == Init /\ [][Next]_vars

\* Threads are scheduled and the container is restarted.  Clients may stay for ever,
\* and no system call has to fail.
FairSpec == Spec /\ WF_vars(Restart) /\ \A w \in Threads : WF_vars(Work(w))

-----------------------------------------------------------------------------
(* Properties.                                                             *)

\* Type invariant: a connection waits or is held, once, and by a worker that polls;
\* a process that is down has nobody waiting and holds nobody; and there are never
\* more polls and connections than there are descriptors for.
TypeOK ==
  /\ process \in {"up", "down"} /\ calm \in BOOLEAN
  /\ pc \in [Threads -> Pcs] /\ event \in [Threads -> BOOLEAN]
  /\ backlog \in Seq(Conns) /\ holder \in [Conns -> Threads \cup {NoOne}]
  /\ Cardinality(Waiting) = Len(backlog) /\ Waiting \cap Open = {}
  /\ \A c \in Open : Registered(holder[c])
  /\ process = "down" => Waiting = {} /\ Open = {} /\ Polls = {}
  /\ Used <= MaxFiles

\* No number of races between the workers over the queue, in which most come too
\* late and find nobody, ends the server: as long as no system call fails and there
\* was always a descriptor to spare beyond all polls and whoever had come, it is up.
StaysUp == calm => process = "up"

\* No wake-up is lost: while connections wait, a worker that sleeps in its poll has
\* an event to come back for, though events are reported once and connections are
\* taken by whoever comes first.
NoWakeUpLost == backlog # <<>> => \A w \in Threads : pc[w] = "polling" => event[w]

\* Nobody waits for ever: however many clients keep their connections, and however
\* often the process is aborted and started again, whoever is in the queue is
\* accepted, or reset with the whole process.
QueueServed == \A c \in Conns : c \in Waiting ~> c \notin Waiting

=============================================================================
