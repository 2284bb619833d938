---------------------------- MODULE Workers_proofs ----------------------------
(***************************************************************************)
(* Proofs about Workers, for any workers and connections and any number of *)
(* descriptors.                                                            *)
(***************************************************************************)
EXTENDS Workers, FunctionTheorems, FiniteSetTheorems, SequenceTheorems, TLAPS

Typed ==
  /\ process \in {"up", "down"} /\ calm \in BOOLEAN
  /\ pc \in [Threads -> Pcs] /\ event \in [Threads -> BOOLEAN]
  /\ backlog \in Seq(Conns) /\ holder \in [Conns -> Threads \cup {NoOne}]

\* Each connection is in one place, once.
InOnePlace ==
  /\ \A i, j \in 1..Len(backlog) : backlog[i] = backlog[j] => i = j
  /\ \A i \in 1..Len(backlog) : holder[backlog[i]] = NoOne

\* Only workers that poll hold connections, and a process that is down has nothing.
HeldByTheLiving ==
  /\ \A c \in Conns : holder[c] # NoOne => Registered(holder[c])
  /\ process = "down" => backlog = <<>> /\ \A w \in Threads : pc[w] = "starting"

WithinLimits == IsFiniteSet(Open) /\ Used <= MaxFiles

\* What calm means for the present: whoever waits and is held still fits.
CalmFits == calm => process = "up" /\ Fits(Waiting \cup Open)

\* The inductive invariant.  TypeOK counts the queue; that it holds each
\* connection once, and that the connections held are finitely many at all, is what
\* the counts rest on.
IInv ==
  Typed /\ InOnePlace /\ HeldByTheLiving /\ WithinLimits /\ CalmFits /\ NoWakeUpLost

-----------------------------------------------------------------------------
(* The queue.                                                              *)

\* A queue without repetitions has as many members as places.
LEMMA QueueCounted ==
  ASSUME Typed, InOnePlace
  PROVE  Cardinality(Waiting) = Len(backlog)
<1>1. Len(backlog) \in Nat /\ DOMAIN backlog = 1..Len(backlog)
  BY DEF Typed
<1>2. backlog \in Bijection(1..Len(backlog), Waiting)
  <2>1. backlog \in [1..Len(backlog) -> Waiting]
    BY <1>1 DEF Typed, Waiting
  <2>2. backlog \in Injection(1..Len(backlog), Waiting)
    BY <2>1 DEF InOnePlace, Injection, IsInjective
  <2>3. backlog \in Surjection(1..Len(backlog), Waiting)
    BY <1>1, <2>1 DEF Waiting, Surjection
  <2>4. QED
    BY <2>2, <2>3 DEF Bijection
<1>3. IsFiniteSet(1..Len(backlog)) /\ Cardinality(1..Len(backlog)) = Len(backlog)
  <2>1. \A n \in Nat : IsFiniteSet(1..n) /\ Cardinality(1..n) = IF 1 > n THEN 0 ELSE n - 1 + 1
    BY FS_Interval
  <2>2. QED
    BY <1>1, <2>1
<1>4. QED
  BY <1>2, <1>3, FS_Bijection DEF ExistsBijection

\* The connections that wait are finitely many, and so are the polls.
LEMMA FinitelyMany ==
  ASSUME Typed
  PROVE  /\ IsFiniteSet(Waiting)
         /\ IsFiniteSet(Polls) /\ Cardinality(Polls) \in Nat
         /\ Cardinality(Threads) \in Nat /\ Cardinality(Polls) <= Cardinality(Threads)
<1>1. Len(backlog) \in Nat /\ DOMAIN backlog = 1..Len(backlog)
  BY DEF Typed
<1>2. backlog \in Surjection(1..Len(backlog), Waiting)
  <2>1. backlog \in [1..Len(backlog) -> Waiting]
    BY <1>1 DEF Typed, Waiting
  <2>2. QED
    BY <1>1, <2>1 DEF Waiting, Surjection
<1>3. IsFiniteSet(1..Len(backlog))
  BY <1>1, FS_Interval
<1>4. IsFiniteSet(Waiting)
  BY <1>2, <1>3, FS_Surjection
<1>5. IsFiniteSet(Polls) /\ Cardinality(Polls) <= Cardinality(Threads)
  BY FS_Subset, WorkersAssumption DEF Polls
<1>6. QED
  BY <1>4, <1>5, FS_CardinalityType, WorkersAssumption

\* What the head leaves behind: everybody else, each in one place.
LEMMA HeadServed ==
  ASSUME Typed, backlog # <<>>
  PROVE  /\ Head(backlog) \in Conns /\ Head(backlog) \in Waiting
         /\ Tail(backlog) \in Seq(Conns) /\ Len(Tail(backlog)) = Len(backlog) - 1
         /\ \A i \in 1..Len(Tail(backlog)) : Tail(backlog)[i] = backlog[i + 1]
         /\ \A c \in Waiting : c # Head(backlog) =>
              c \in {Tail(backlog)[i] : i \in DOMAIN Tail(backlog)}
         /\ InOnePlace => /\ \A i, j \in 1..Len(Tail(backlog)) :
                               Tail(backlog)[i] = Tail(backlog)[j] => i = j
                          /\ \A i \in 1..Len(Tail(backlog)) :
                               /\ Tail(backlog)[i] # Head(backlog)
                               /\ holder[Tail(backlog)[i]] = NoOne
<1>1. /\ backlog \in Seq(Conns) /\ Len(backlog) \in Nat \ {0}
      /\ DOMAIN backlog = 1..Len(backlog)
  BY EmptySeq DEF Typed
<1>2. Head(backlog) = backlog[1] /\ 1 \in 1..Len(backlog)
  BY <1>1
<1>3. /\ Head(backlog) \in Conns
      /\ Tail(backlog) \in Seq(Conns) /\ Len(Tail(backlog)) = Len(backlog) - 1
      /\ \A i \in 1..Len(Tail(backlog)) : Tail(backlog)[i] = backlog[i + 1]
  BY <1>1, HeadTailProperties
<1>4. DOMAIN Tail(backlog) = 1..Len(Tail(backlog))
  BY <1>3
<1>5. ASSUME NEW c \in Waiting, c # Head(backlog)
      PROVE  c \in {Tail(backlog)[i] : i \in DOMAIN Tail(backlog)}
  <2>1. PICK i \in 1..Len(backlog) : c = backlog[i]
    BY <1>1 DEF Waiting
  <2>2. i - 1 \in 1..Len(Tail(backlog)) /\ (i - 1) + 1 = i
    BY <1>1, <1>2, <1>3, <1>5, <2>1
  <2>3. Tail(backlog)[i - 1] = backlog[i]
    BY <1>3, <2>2
  <2>4. QED
    BY <1>4, <2>1, <2>2, <2>3
<1>6. \A i \in 1..Len(Tail(backlog)) : i + 1 \in 1..Len(backlog) /\ i + 1 # 1
  BY <1>1, <1>3
<1>7. ASSUME InOnePlace, NEW i \in 1..Len(Tail(backlog))
      PROVE  /\ \A j \in 1..Len(Tail(backlog)) : Tail(backlog)[i] = Tail(backlog)[j] => i = j
             /\ Tail(backlog)[i] # Head(backlog)
             /\ holder[Tail(backlog)[i]] = NoOne
  BY <1>1, <1>2, <1>3, <1>6, <1>7 DEF InOnePlace
<1>8. QED
  BY <1>1, <1>2, <1>3, <1>5, <1>7 DEF Waiting

-----------------------------------------------------------------------------
(* The invariant.                                                          *)

LEMMA InitIInv == Init => IInv
<1> SUFFICES ASSUME Init
             PROVE  IInv
  OBVIOUS
<1>1. Typed
  BY DEF Init, Typed, Pcs, Fits
<1>2. InOnePlace /\ HeldByTheLiving /\ NoWakeUpLost
  BY DEF Init, InOnePlace, HeldByTheLiving, NoWakeUpLost
<1>3. Open = {} /\ Waiting = {} /\ Polls = {}
  BY DEF Init, Open, Waiting, Polls, Registered
<1>4. WithinLimits
  BY <1>3, FS_EmptySet, WorkersAssumption DEF WithinLimits, Used
<1>5. CalmFits
  BY <1>3 DEF Init, CalmFits
<1>6. QED
  BY <1>1, <1>2, <1>4, <1>5 DEF IInv

\* Who gives up connections or polls stays within the limit.
LEMMA StayWithin ==
  ASSUME Typed, WithinLimits, Open' \subseteq Open, Polls' \subseteq Polls
  PROVE  WithinLimits'
<1>1. IsFiniteSet(Open') /\ Cardinality(Open') <= Cardinality(Open)
  BY FS_Subset DEF WithinLimits
<1>2. Cardinality(Open') \in Nat /\ Cardinality(Open) \in Nat
  BY <1>1, FS_CardinalityType DEF WithinLimits
<1>3. IsFiniteSet(Polls') /\ Cardinality(Polls') <= Cardinality(Polls)
  BY FS_Subset, FinitelyMany
<1>4. Cardinality(Polls') \in Nat /\ Cardinality(Polls) \in Nat
  BY <1>3, FS_CardinalityType, FinitelyMany
<1>5. QED
  BY <1>1, <1>2, <1>3, <1>4, WorkersAssumption DEF WithinLimits, Used

\* Where nobody new comes, whoever fitted still does.
LEMMA StillFits ==
  ASSUME Typed, WithinLimits, CalmFits, process' = process, calm' = calm,
         Waiting' \cup Open' \subseteq Waiting \cup Open
  PROVE  CalmFits'
<1>1. IsFiniteSet(Waiting \cup Open)
  BY FinitelyMany, FS_Union DEF WithinLimits
<1>2. /\ IsFiniteSet(Waiting' \cup Open')
      /\ Cardinality(Waiting' \cup Open') <= Cardinality(Waiting \cup Open)
  BY <1>1, FS_Subset
<1>3. Cardinality(Waiting' \cup Open') \in Nat /\ Cardinality(Waiting \cup Open) \in Nat
  BY <1>1, <1>2, FS_CardinalityType
<1>4. QED
  BY <1>2, <1>3, FinitelyMany, WorkersAssumption DEF CalmFits, Fits

\* Who fits leaves a descriptor to spare.
LEMMA CalmHasDescriptors ==
  ASSUME IInv, calm
  PROVE  ~OutOfDescriptors
<1>1. IsFiniteSet(Waiting \cup Open)
  BY FinitelyMany, FS_Union DEF IInv, WithinLimits
<1>2. Cardinality(Open) <= Cardinality(Waiting \cup Open)
  BY <1>1, FS_Subset
<1>3. Cardinality(Open) \in Nat /\ Cardinality(Waiting \cup Open) \in Nat
  BY <1>1, FS_CardinalityType DEF IInv, WithinLimits
<1>4. QED
  BY <1>2, <1>3, FinitelyMany, WorkersAssumption
     DEF IInv, CalmFits, Fits, OutOfDescriptors, Used

LEMMA ConnectIInv ==
  ASSUME IInv, NEW c \in Conns, Connect(c)
  PROVE  IInv'
<1>1. /\ Append(backlog, c) \in Seq(Conns) /\ Len(Append(backlog, c)) = Len(backlog) + 1
      /\ \A i \in 1..Len(backlog) : Append(backlog, c)[i] = backlog[i]
      /\ Append(backlog, c)[Len(backlog) + 1] = c
  BY AppendProperties DEF IInv, Typed
<1>2. Len(backlog) \in Nat /\ DOMAIN backlog = 1..Len(backlog)
  BY DEF IInv, Typed
<1>3. holder[c] = NoOne /\ \A i \in 1..Len(backlog) : backlog[i] # c
  BY <1>2 DEF Connect, Waiting, Open
<1>4. Typed'
  BY <1>1 DEF Connect, IInv, Typed, Registered, Fits
<1>5. InOnePlace'
  <2>1. \A i \in 1..Len(backlog') : i = Len(backlog) + 1 \/ i \in 1..Len(backlog)
    BY <1>1, <1>2 DEF Connect
  <2>2. QED
    BY <1>1, <1>2, <1>3, <2>1 DEF Connect, IInv, InOnePlace
<1>6. HeldByTheLiving'
  BY DEF Connect, IInv, HeldByTheLiving, Registered
<1>7. WithinLimits'
  BY StayWithin DEF Connect, IInv, Open, Polls, Registered
<1>8. CalmFits'
  BY DEF Connect, IInv, CalmFits, Open
<1>9. NoWakeUpLost'
  BY DEF Connect, IInv, Typed, Pcs, NoWakeUpLost, Registered
<1>10. QED
  BY <1>4, <1>5, <1>6, <1>7, <1>8, <1>9 DEF IInv

LEMMA RemoveIInv ==
  ASSUME IInv, NEW c \in Conns, Remove(c)
  PROVE  IInv'
<1>1. Typed'
  BY DEF Remove, IInv, Typed
<1>2. InOnePlace' /\ HeldByTheLiving'
  BY DEF Remove, IInv, Typed, InOnePlace, HeldByTheLiving, Registered
<1>3. Open' \subseteq Open /\ Polls' = Polls /\ Waiting' = Waiting
  BY DEF Remove, IInv, Typed, Open, Polls, Waiting, Registered
<1>4. WithinLimits'
  BY <1>3, StayWithin DEF IInv
<1>5. CalmFits'
  BY <1>3, StillFits DEF Remove, IInv
<1>6. NoWakeUpLost'
  BY DEF Remove, IInv, NoWakeUpLost
<1>7. QED
  BY <1>1, <1>2, <1>4, <1>5, <1>6 DEF IInv

\* The steps of a worker by which no connection changes place.
LEMMA TurnIInv ==
  ASSUME IInv, NEW w \in Threads, Register(w) \/ TakeEvent(w) \/ WouldBlock(w)
  PROVE  IInv'
<1>1. /\ backlog' = backlog /\ holder' = holder /\ process' = process /\ calm' = calm
      /\ pc' = [pc EXCEPT ![w] = pc'[w]] /\ pc'[w] \in {"polling", "accepting"}
      /\ event' = [event EXCEPT ![w] = event'[w]] /\ event'[w] \in BOOLEAN
      /\ pc'[w] = "polling" /\ backlog # <<>> => event'[w]
      /\ pc[w] = "starting" => process = "up" /\ ~OutOfDescriptors
  BY DEF Register, TakeEvent, WouldBlock, Ready, IInv, Typed
<1>2. Typed'
  BY <1>1 DEF IInv, Typed, Pcs
<1>3. InOnePlace'
  BY <1>1 DEF IInv, InOnePlace
<1>4. HeldByTheLiving'
  BY <1>1 DEF IInv, Typed, HeldByTheLiving, Registered
<1>5. Open' = Open /\ Waiting' = Waiting
  BY <1>1 DEF Open, Waiting
<1>6. WithinLimits'
  <2>1. Polls' = Polls \cup {w}
    BY <1>1 DEF IInv, Typed, Polls, Registered
  <2>2. CASE w \in Polls
    BY <1>5, <2>1, <2>2, StayWithin DEF IInv
  <2>3. CASE w \notin Polls
    <3>1. Used < MaxFiles
      <4>1. Cardinality(Open) \in Nat /\ Cardinality(Polls) \in Nat
        BY FS_CardinalityType, FinitelyMany DEF IInv, WithinLimits
      <4>2. QED
        BY <1>1, <2>3, <4>1, WorkersAssumption DEF Polls, Registered, OutOfDescriptors, Used
    <3>2. /\ IsFiniteSet(Polls') /\ Cardinality(Polls') = Cardinality(Polls) + 1
      BY <2>1, <2>3, FinitelyMany, FS_AddElement DEF IInv
    <3>3. Cardinality(Open) \in Nat /\ Cardinality(Polls) \in Nat
      BY FS_CardinalityType, FinitelyMany DEF IInv, WithinLimits
    <3>4. QED
      BY <1>5, <3>1, <3>2, <3>3, WorkersAssumption DEF IInv, WithinLimits, Used
  <2>4. QED
    BY <2>2, <2>3
<1>7. CalmFits'
  BY <1>1, <1>5, StillFits DEF IInv
<1>8. NoWakeUpLost'
  BY <1>1 DEF IInv, Typed, NoWakeUpLost
<1>9. QED
  BY <1>2, <1>3, <1>4, <1>6, <1>7, <1>8 DEF IInv

LEMMA AcceptIInv ==
  ASSUME IInv, NEW w \in Threads, Accept(w)
  PROVE  IInv'
<1> DEFINE c == Head(backlog)
<1>1. /\ c \in Conns /\ c \in Waiting
      /\ Tail(backlog) \in Seq(Conns)
      /\ \A i, j \in 1..Len(Tail(backlog)) : Tail(backlog)[i] = Tail(backlog)[j] => i = j
      /\ \A i \in 1..Len(Tail(backlog)) :
           /\ Tail(backlog)[i] # c
           /\ holder[Tail(backlog)[i]] = NoOne
           /\ Tail(backlog)[i] \in Conns
  BY HeadServed DEF Accept, IInv
<1>2. /\ holder' = [holder EXCEPT ![c] = w] /\ backlog' = Tail(backlog)
      /\ pc' = [pc EXCEPT ![w] = "accepting"] /\ pc[w] = "accepting"
      /\ backlog # <<>> /\ ~OutOfDescriptors
      /\ process' = process /\ event' = event /\ calm' = calm
  BY DEF Accept, AfterAccept
<1> HIDE DEF c
<1>3. Typed'
  BY <1>1, <1>2 DEF IInv, Typed, Pcs
<1>4. InOnePlace'
  BY <1>1, <1>2 DEF IInv, Typed, InOnePlace
<1>5. HeldByTheLiving'
  BY <1>1, <1>2 DEF IInv, Typed, HeldByTheLiving, Registered
<1>6. WithinLimits'
  <2>1. Open' = Open \cup {c}
    BY <1>1, <1>2, WorkersAssumption DEF IInv, Typed, Open
  <2>2. Polls' = Polls
    BY <1>2 DEF IInv, Typed, Polls, Registered
  <2>3. /\ IsFiniteSet(Open) /\ Cardinality(Open) \in Nat /\ Cardinality(Polls) \in Nat
        /\ Used < MaxFiles
    <3>1. IsFiniteSet(Open) /\ Cardinality(Open) \in Nat /\ Cardinality(Polls) \in Nat
      BY FS_CardinalityType, FinitelyMany DEF IInv, WithinLimits
    <3>2. QED
      BY <1>2, <3>1, WorkersAssumption DEF OutOfDescriptors, Used
  <2>4. IsFiniteSet(Open \cup {c}) /\ Cardinality(Open \cup {c}) <= Cardinality(Open) + 1
    <3>1. /\ IsFiniteSet(Open \cup {c})
          /\ \/ Cardinality(Open \cup {c}) = Cardinality(Open)
             \/ Cardinality(Open \cup {c}) = Cardinality(Open) + 1
      BY <2>3, FS_AddElement
    <3>2. QED
      BY <2>3, <3>1
  <2>5. Cardinality(Open \cup {c}) \in Nat
    BY <2>4, FS_CardinalityType
  <2>6. QED
    BY <2>1, <2>2, <2>3, <2>4, <2>5, WorkersAssumption DEF WithinLimits, Used
<1>7. CalmFits'
  <2>1. Waiting' \subseteq Waiting /\ Open' \subseteq Open \cup {c}
    BY <1>1, <1>2, HeadServed DEF IInv, Typed, Waiting, Open
  <2>2. QED
    BY <1>1, <1>2, <2>1, StillFits DEF IInv
<1>8. NoWakeUpLost'
  BY <1>1, <1>2 DEF IInv, Typed, NoWakeUpLost
<1>9. QED
  BY <1>3, <1>4, <1>5, <1>6, <1>7, <1>8 DEF IInv

\* A panic, over a descriptor when the server is not calm or over a system call.
LEMMA AbortIInv ==
  ASSUME IInv, NEW w \in Threads, PanicWithoutDescriptor(w) \/ SystemCallFails(w)
  PROVE  IInv'
<1>1. /\ process' = "down" /\ backlog' = <<>>
      /\ pc' = [v \in Threads |-> "starting"] /\ event' = [v \in Threads |-> FALSE]
      /\ holder' = [c \in Conns |-> NoOne]
  BY DEF PanicWithoutDescriptor, SystemCallFails, Abort
<1>2. ~calm' /\ calm' \in BOOLEAN
  <2>1. CASE PanicWithoutDescriptor(w)
    <3>1. OutOfDescriptors /\ calm' = calm
      BY <2>1 DEF PanicWithoutDescriptor
    <3>2. ~calm /\ calm \in BOOLEAN
      BY <3>1, CalmHasDescriptors DEF IInv, Typed
    <3>3. QED
      BY <3>1, <3>2
  <2>2. CASE SystemCallFails(w)
    BY <2>2 DEF SystemCallFails
  <2>3. QED
    BY <2>1, <2>2
<1>3. Typed'
  BY <1>1, <1>2 DEF Typed, Pcs
<1>4. InOnePlace' /\ HeldByTheLiving' /\ NoWakeUpLost'
  BY <1>1 DEF InOnePlace, HeldByTheLiving, NoWakeUpLost
<1>5. Open' \subseteq Open /\ Polls' \subseteq Polls
  BY <1>1 DEF Open, Polls, Registered
<1>6. CalmFits'
  BY <1>2 DEF CalmFits
<1>7. QED
  BY <1>3, <1>4, <1>5, <1>6, StayWithin DEF IInv

LEMMA RestartIInv ==
  ASSUME IInv, Restart
  PROVE  IInv'
<1>1. /\ pc' = pc /\ event' = event /\ backlog' = backlog /\ holder' = holder
      /\ process' = "up" /\ calm' = Fits({}) /\ process = "down"
  BY DEF Restart
<1>2. Typed'
  BY <1>1 DEF IInv, Typed, Fits
<1>3. InOnePlace' /\ HeldByTheLiving' /\ NoWakeUpLost'
  BY <1>1 DEF IInv, InOnePlace, HeldByTheLiving, NoWakeUpLost, Registered
<1>4. Open' = Open /\ Polls' = Polls
  BY <1>1 DEF Open, Polls, Registered
<1>5. CalmFits'
  <2>1. backlog = <<>> /\ \A c \in Conns : holder[c] = NoOne
    BY <1>1 DEF IInv, Typed, HeldByTheLiving, Registered
  <2>2. Waiting' = {} /\ Open' = {}
    BY <1>1, <2>1 DEF Waiting, Open
  <2>3. QED
    BY <1>1, <2>2 DEF CalmFits
<1>6. QED
  BY <1>2, <1>3, <1>4, <1>5, StayWithin DEF IInv

LEMMA NextIInv == IInv /\ [Next]_vars => IInv'
<1> SUFFICES ASSUME IInv, [Next]_vars
             PROVE  IInv'
  OBVIOUS
<1>1. CASE \E c \in Conns : Connect(c) \/ Remove(c)
  BY <1>1, ConnectIInv, RemoveIInv
<1>2. CASE \E w \in Threads : Work(w) \/ SystemCallFails(w)
  BY <1>2, TurnIInv, AcceptIInv, AbortIInv DEF Work
<1>3. CASE Restart
  BY <1>3, RestartIInv
<1>4. CASE UNCHANGED vars
  BY <1>4 DEF vars, IInv, Typed, InOnePlace, HeldByTheLiving, WithinLimits, CalmFits,
              NoWakeUpLost, Open, Polls, Used, Waiting, Registered
<1>5. QED
  BY <1>1, <1>2, <1>3, <1>4 DEF Next

LEMMA IInvHolds == Spec => []IInv
  BY InitIInv, NextIInv, PTL DEF Spec

-----------------------------------------------------------------------------
(* The theorems.                                                           *)

\* A connection waits or is held, once, by a worker that polls, an aborted process has
\* none of them, and there are never more polls and connections than descriptors, in
\* whatever order workers race, panic and the process starts again.
THEOREM TypeCorrect == Spec => []TypeOK
<1>1. IInv => TypeOK
  <2> SUFFICES ASSUME IInv
               PROVE  TypeOK
    OBVIOUS
  <2>1. Cardinality(Waiting) = Len(backlog)
    BY QueueCounted DEF IInv
  <2>2. Waiting \cap Open = {}
    BY DEF IInv, Typed, InOnePlace, Waiting, Open
  <2>3. \A c \in Open : Registered(holder[c])
    BY DEF IInv, HeldByTheLiving, Open
  <2>4. process = "down" => Waiting = {} /\ Open = {} /\ Polls = {}
    BY DEF IInv, Typed, HeldByTheLiving, Waiting, Open, Polls, Registered
  <2>5. QED
    BY <2>1, <2>2, <2>3, <2>4 DEF IInv, Typed, WithinLimits, TypeOK
<1>2. QED
  BY <1>1, IInvHolds, PTL

\* Edge-triggered events wake every worker that could sleep through a connection:
\* what accept_connections and the registration of the listener rest on.
THEOREM WakeUpsKept == Spec => []NoWakeUpLost
<1>1. IInv => NoWakeUpLost
  BY DEF IInv
<1>2. QED
  BY <1>1, IInvHolds, PTL

\* With a descriptor to spare beyond all polls and whoever has come, and no other
\* system call that fails, the workers' races never abort the process.
THEOREM CalmStaysUp == Spec => []StaysUp
<1>1. IInv => StaysUp
  BY DEF IInv, CalmFits, StaysUp
<1>2. QED
  BY <1>1, IInvHolds, PTL

=============================================================================
