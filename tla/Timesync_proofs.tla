--------------------------- MODULE Timesync_proofs ---------------------------
(***************************************************************************)
(* Proofs about Timesync, for buffers of every length, pieces of every     *)
(* length and every client.                                                *)
(***************************************************************************)
EXTENDS Timesync, TLAPS

USE TimesyncAssumption

-----------------------------------------------------------------------------
(* Appending to a sequence of positions.                                   *)

LEMMA AppendFacts ==
  ASSUME NEW s \in Seq(Nat), NEW e \in Nat
  PROVE  /\ Append(s, e) \in Seq(Nat)
         /\ DOMAIN Append(s, e) = DOMAIN s \cup {Len(s) + 1}
         /\ \A i \in DOMAIN s : i < Len(s) + 1 /\ Append(s, e)[i] = s[i]
         /\ Append(s, e)[Len(s) + 1] = e
         /\ LastOf(Append(s, e)) = e
  BY DEF LastOf

LEMMA LastOfIn ==
  ASSUME NEW s \in Seq(Nat)
  PROVE  /\ LastOf(s) \in Nat
         /\ s # <<>> => \E i \in DOMAIN s : s[i] = LastOf(s) /\ \A j \in DOMAIN s : j <= i
         /\ s = <<>> => LastOf(s) = 0
  BY DEF LastOf

-----------------------------------------------------------------------------
(* Reading.                                                                *)

\* A read never fills the buffer beyond its end, and it makes progress.
LEMMA BytesReadOK ==
  ASSUME TypeOK, state = "reading", pos < stream
  PROVE  /\ BytesRead \in Nat /\ BytesRead > 0
         /\ pos + BytesRead <= stream /\ total + BytesRead <= BufLen
         /\ BytesRead = stream - pos \/ total + BytesRead = BufLen
  BY DEF TypeOK, BytesRead

\* A response that is written leaves the send buffer within its bounds.
LEMMA WriteResponseOK ==
  ASSUME TypeOK, WriteResponse
  PROVE  unread' \in 0..SendRoom /\ cut' \in BOOLEAN
<1>1. unread' \in 0..SendRoom
  BY DEF TypeOK, WriteResponse
<1>2. cut' \in BOOLEAN
  BY Zenon DEF TypeOK, WriteResponse
<1>3. QED
  BY <1>1, <1>2

LEMMA InitTypeOK == Init => TypeOK
<1> SUFFICES ASSUME Init
             PROVE  TypeOK
  OBVIOUS
<1>1. event \in BOOLEAN /\ cut \in BOOLEAN /\ polite \in BOOLEAN
  BY Zenon DEF Init
<1>2. QED
  BY <1>1 DEF Init, TypeOK, Fins, States

LEMMA NextTypeOK == TypeOK /\ [Next]_vars => TypeOK'
<1> SUFFICES ASSUME TypeOK, [Next]_vars
             PROVE  TypeOK'
  OBVIOUS
<1> USE DEF TypeOK, Fins, States, client
<1>1. ASSUME NEW n \in Pieces, NEW last \in BOOLEAN, Arrive(n, last)
      PROVE  TypeOK'
  <2>1. stream' \in Nat /\ pos' \in 0..stream'
    BY <1>1 DEF Arrive
  <2>2. requests' \in Seq(Nat)
    BY <1>1, AppendFacts DEF Arrive
  <2>3. event' \in BOOLEAN /\ polite' \in BOOLEAN
    BY <1>1, Zenon DEF Arrive
  <2>4. QED
    BY <1>1, <2>1, <2>2, <2>3 DEF Arrive
<1>2. ASSUME NEW how \in {"half", "full"}, Close(how)
      PROVE  TypeOK'
  <2>1. event' \in BOOLEAN /\ polite' \in BOOLEAN
    BY <1>2, Zenon DEF Close
  <2>2. QED
    BY <1>2, <2>1 DEF Close
<1>3. CASE Reset
  BY <1>3 DEF Reset
<1>4. ASSUME NEW n \in 0..SendRoom, Drain(n)
      PROVE  TypeOK'
  BY <1>4 DEF Drain
<1>5. CASE Accept
  BY <1>5 DEF Accept
<1>6. CASE Panic
  BY <1>6 DEF Panic
<1>7. CASE TakeEvent
  BY <1>7 DEF TakeEvent
<1>8. CASE ReadNothing
  BY <1>8 DEF ReadNothing
<1>9. CASE ReadRequest
  <2>1. /\ BytesRead \in Nat /\ pos + BytesRead <= stream /\ total + BytesRead <= BufLen
        /\ pos' = pos + BytesRead
    BY <1>9, BytesReadOK DEF ReadRequest
  <2>2. CASE fin # "reset"
    <3>1. unread' \in 0..SendRoom /\ cut' \in BOOLEAN
      BY <1>9, <2>2, WriteResponseOK DEF ReadRequest
    <3>2. replies' = Append(replies, pos + BytesRead) /\ total' = 0 /\ state' = "waiting"
      BY <1>9, <2>2 DEF ReadRequest
    <3>3. replies' \in Seq(Nat)
      BY <2>1, <3>2, AppendFacts
    <3>4. QED
      BY <1>9, <2>1, <3>1, <3>2, <3>3 DEF ReadRequest
  <2>3. CASE fin = "reset"
    BY <1>9, <2>1, <2>3 DEF ReadRequest
  <2>4. QED
    BY <2>2, <2>3
<1>10. CASE ReadMore
  <2>1. /\ BytesRead \in Nat /\ pos + BytesRead <= stream /\ total + BytesRead <= BufLen
        /\ pos' = pos + BytesRead
    BY <1>10, BytesReadOK DEF ReadMore
  <2>2. CASE total + BytesRead >= BufLen
    BY <1>10, <2>1, <2>2 DEF ReadMore, TotalIfFull
  <2>3. CASE ~(total + BytesRead >= BufLen)
    BY <1>10, <2>1, <2>3 DEF ReadMore
  <2>4. QED
    BY <2>2, <2>3
<1>11. CASE UNCHANGED vars
  BY <1>11 DEF vars
<1>12. QED
  BY <1>1, <1>2, <1>3, <1>4, <1>5, <1>6, <1>7, <1>8, <1>9, <1>10, <1>11
  DEF Next, HandleReadable

\* Type correctness: in particular handle_readable never reads into no room.
THEOREM TypeCorrect == Spec => []TypeOK
  BY InitTypeOK, NextTypeOK, PTL DEF Spec

-----------------------------------------------------------------------------
(* Any client.                                                             *)

LEMMA NextOneReplyEach == TypeOK /\ OneReplyEach /\ [Next]_vars => OneReplyEach'
<1> SUFFICES ASSUME TypeOK, OneReplyEach, [Next]_vars
             PROVE  OneReplyEach'
  OBVIOUS
<1>1. CASE ReadRequest /\ fin # "reset"
  <2> DEFINE read == pos + BytesRead
  <2>1. /\ replies' = Append(replies, read) /\ requests' = requests /\ pos' = read
        /\ \E j \in DOMAIN requests : requests[j] = read
    BY <1>1 DEF ReadRequest, Answerable, client
  <2>2. read \in Nat /\ pos < read /\ pos \in Nat
    BY <1>1, BytesReadOK DEF ReadRequest, TypeOK
  <2>3. /\ replies \in Seq(Nat)
        /\ DOMAIN replies' = DOMAIN replies \cup {Len(replies) + 1}
        /\ \A i \in DOMAIN replies : i < Len(replies) + 1 /\ replies'[i] = replies[i]
        /\ replies'[Len(replies) + 1] = read
    BY <2>1, <2>2, AppendFacts DEF TypeOK
  <2>4. \A i \in DOMAIN replies : replies[i] \in Nat /\ i \in Nat /\ Len(replies) \in Nat
    BY <2>3
  <2> HIDE DEF read
  <2>5. \A i \in DOMAIN replies' :
          replies'[i] <= pos' /\ \E j \in DOMAIN requests' : requests'[j] = replies'[i]
    BY <2>1, <2>2, <2>3, <2>4 DEF OneReplyEach
  <2>6. \A i, j \in DOMAIN replies' : i < j => replies'[i] < replies'[j]
    <3> SUFFICES ASSUME NEW i \in DOMAIN replies', NEW j \in DOMAIN replies', i < j
                 PROVE  replies'[i] < replies'[j]
      OBVIOUS
    <3>1. i \in DOMAIN replies
      BY <2>3, <2>4
    <3>2. CASE j \in DOMAIN replies
      BY <2>3, <3>1, <3>2 DEF OneReplyEach
    <3>3. CASE j = Len(replies) + 1
      BY <2>2, <2>3, <2>4, <3>1, <3>3 DEF OneReplyEach
    <3>4. QED
      BY <2>3, <3>2, <3>3
  <2>7. QED
    BY <2>5, <2>6 DEF OneReplyEach
<1>2. ASSUME NEW n \in Pieces, NEW last \in BOOLEAN, Arrive(n, last)
      PROVE  OneReplyEach'
  <2>1. /\ replies' = replies /\ pos' = pos
        /\ requests' = requests \/ requests' = Append(requests, stream + n)
    BY <1>2 DEF Arrive
  <2>2. \A j \in DOMAIN requests : j \in DOMAIN requests' /\ requests'[j] = requests[j]
    <3>1. requests \in Seq(Nat) /\ stream + n \in Nat
      BY DEF TypeOK
    <3>2. CASE requests' = Append(requests, stream + n)
      BY <3>1, <3>2, AppendFacts
    <3>3. QED
      BY <2>1, <3>2
  <2>3. QED
    BY <2>1, <2>2 DEF OneReplyEach
<1>3. CASE ReadMore \/ (ReadRequest /\ fin = "reset")
  <2>1. /\ replies' = replies /\ requests' = requests
        /\ pos' = pos + BytesRead
    BY <1>3 DEF ReadMore, ReadRequest, client
  <2>2. BytesRead \in Nat /\ pos \in Nat /\ replies \in Seq(Nat)
    BY <1>3, BytesReadOK DEF ReadMore, ReadRequest, TypeOK
  <2>3. QED
    BY <2>1, <2>2 DEF OneReplyEach
<1>4. CASE UNCHANGED <<requests, replies, pos>>
  BY <1>4 DEF OneReplyEach
<1>5. QED
  BY <1>1, <1>2, <1>3, <1>4
  DEF Next, HandleReadable, Close, Reset, Drain, Accept, Panic, TakeEvent, ReadNothing,
      client, vars

\* Every response answers another request that was read completely, whatever
\* the client sends.
THEOREM RepliesMatchRequests == Spec => []OneReplyEach
<1>1. Init => OneReplyEach
  BY DEF Init, OneReplyEach
<1>2. QED
  BY <1>1, TypeCorrect, NextOneReplyEach, PTL DEF Spec

-----------------------------------------------------------------------------
(* A polite client.                                                        *)

Size == stream - LastOf(replies)

\* InStep needs that the buffer begins where the last answered request ended,
\* that what follows fits into it, and that the client has read the answer by the
\* time it sends more.
Aligned ==
  polite => /\ ~cut
            /\ \/ requests = replies /\ Size < BufLen
               \/ requests = Append(replies, stream) /\ Term <= Size /\ Size <= BufLen
            /\ state # "removed" => pos - total = LastOf(replies)
            /\ Size > 0 => unread = 0

IInv == TypeOK /\ OneReplyEach /\ Aligned

LEMMA Numbers ==
  ASSUME TypeOK
  PROVE  /\ stream \in Nat /\ pos \in Nat /\ total \in Nat /\ unread \in Nat
         /\ pos <= stream /\ LastOf(replies) \in Nat /\ LastOf(requests) \in Nat
         /\ requests \in Seq(Nat) /\ replies \in Seq(Nat) /\ Size \in Int
  BY LastOfIn DEF TypeOK, Size

LEMMA ArriveAligned ==
  ASSUME IInv, NEW n \in Pieces, NEW last \in BOOLEAN, Arrive(n, last)
  PROVE  Aligned'
<1> SUFFICES ASSUME polite'
             PROVE  Aligned'
  BY DEF Aligned
<1>1. /\ polite /\ Patient(n, last) /\ state # "removed"
      /\ stream' = stream + n /\ n \in Nat \ {0}
      /\ requests' = IF last THEN Append(requests, stream + n) ELSE requests
      /\ last => stream + n - LastOf(requests) >= Term
      /\ UNCHANGED <<unread, state, pos, total, replies, cut>>
  BY DEF Arrive
<1>2. LastOf(Append(replies, stream)) = stream
  BY Numbers, AppendFacts DEF IInv
<1>3. requests = replies
  <2>1. SUFFICES ASSUME requests = Append(replies, stream), Term <= Size
                 PROVE  FALSE
    BY <1>1 DEF IInv, Aligned
  <2>2. LastOf(requests) = stream
    BY <1>2, <2>1
  <2>3. LastOf(requests) = LastOf(replies)
    BY <1>1, <2>2 DEF Patient, Outstanding
  <2>4. QED
    BY <2>1, <2>2, <2>3, Numbers DEF Size, IInv
<1>4. unread = 0
  <2>1. CASE stream = LastOf(requests)
    BY <1>1, <2>1 DEF Patient
  <2>2. CASE stream # LastOf(requests)
    <3>1. pos - total = LastOf(replies) /\ (Size > 0 => unread = 0)
      BY <1>1 DEF IInv, Aligned
    <3>2. QED
      BY <1>3, <2>2, <3>1, Numbers DEF IInv, Size
  <2>3. QED
    BY <2>1, <2>2
<1>5. Size' = stream + n - LastOf(requests)
  <2>1. replies' = replies /\ stream' = stream + n
    BY <1>1
  <2>2. LastOf(replies') = LastOf(requests)
    BY <1>3, <2>1, Zenon
  <2>3. QED
    BY <1>1, <2>1, <2>2, Numbers DEF Size, IInv
<1>6. /\ ~cut' /\ unread' = 0
      /\ state' # "removed" => pos' - total' = LastOf(replies')
  BY <1>1, <1>4 DEF IInv, Aligned
<1>7. CASE last
  <2>1. requests' = Append(replies', stream') /\ Term <= Size' /\ Size' <= BufLen
    BY <1>1, <1>3, <1>5, <1>7 DEF Patient
  <2>2. QED
    BY <1>6, <2>1 DEF Aligned
<1>8. CASE ~last
  <2>1. requests' = replies' /\ Size' < BufLen
    BY <1>1, <1>3, <1>5, <1>8 DEF Patient
  <2>2. QED
    BY <1>6, <2>1 DEF Aligned
<1>9. QED
  BY <1>7, <1>8

\* The end of a request that has not been answered is the end of the stream.
LEMMA EndIsStream ==
  ASSUME IInv, polite, NEW read \in Nat, read > pos,
         \E i \in DOMAIN requests : requests[i] = read
  PROVE  requests = Append(replies, stream) /\ read = stream
<1>1. PICK i \in DOMAIN requests : requests[i] = read
  OBVIOUS
<1>2. \A j \in DOMAIN replies : replies[j] # read
  <2>1. ASSUME NEW j \in DOMAIN replies
        PROVE  replies[j] <= pos /\ replies[j] \in Nat
    <3>1. replies[j] <= pos
      BY DEF IInv, OneReplyEach
    <3>2. replies[j] \in Nat
      BY Numbers DEF IInv
    <3>3. QED
      BY <3>1, <3>2
  <2>2. QED
    BY <2>1, Numbers DEF IInv
<1>3. requests = Append(replies, stream)
  BY <1>1, <1>2 DEF IInv, Aligned
<1>4. /\ DOMAIN requests = DOMAIN replies \cup {Len(replies) + 1}
      /\ \A j \in DOMAIN replies : requests[j] = replies[j]
      /\ requests[Len(replies) + 1] = stream
  BY <1>3, Numbers, AppendFacts DEF IInv
<1>5. QED
  BY <1>1, <1>2, <1>3, <1>4

LEMMA ReadRequestAligned ==
  ASSUME IInv, ReadRequest
  PROVE  Aligned'
<1> SUFFICES ASSUME polite'
             PROVE  Aligned'
  BY DEF Aligned
<1> DEFINE read == pos + BytesRead
<1>1. /\ polite /\ requests' = requests /\ stream' = stream
      /\ pos' = read /\ read \in Nat /\ read > pos
      /\ \E i \in DOMAIN requests : requests[i] = read
  <2>1. /\ polite' = polite /\ requests' = requests /\ stream' = stream /\ pos' = read
        /\ \E i \in DOMAIN requests : requests[i] = read
    BY DEF ReadRequest, client, Answerable
  <2>2. BytesRead \in Nat /\ BytesRead > 0 /\ pos \in Nat
    BY BytesReadOK, Numbers DEF ReadRequest, IInv
  <2>3. QED
    BY <2>1, <2>2
<1>2. requests = Append(replies, stream) /\ read = stream
  BY <1>1, EndIsStream
<1>3. CASE fin # "reset"
  <2>1. WriteResponse /\ replies' = Append(replies, stream) /\ total' = 0
    BY <1>2, <1>3 DEF ReadRequest
  <2>2. unread = 0 /\ ~cut
    <3>1. pos - total = LastOf(replies)
      BY <1>1 DEF ReadRequest, IInv, Aligned
    <3>2. Size > 0
      BY <1>1, <1>2, <3>1, Numbers DEF Size, IInv
    <3>3. QED
      BY <1>1, <3>2 DEF IInv, Aligned
  <2>3. ~cut'
    BY <2>1, <2>2 DEF WriteResponse
  <2>4. LastOf(replies') = stream
    BY <2>1, Numbers, AppendFacts DEF IInv
  <2>5. Size' = 0
    BY <1>1, <2>4, Numbers DEF Size, IInv
  <2>6. requests' = replies' /\ pos' - total' = stream
    BY <1>1, <1>2, <2>1, Numbers DEF IInv
  <2>7. QED
    BY <2>3, <2>4, <2>5, <2>6 DEF Aligned
<1>4. CASE fin = "reset"
  <2>1. state' = "removed" /\ UNCHANGED <<unread, replies, cut>>
    BY <1>4 DEF ReadRequest
  <2>2. QED
    BY <1>1, <2>1 DEF IInv, Aligned, Size
<1>5. QED
  BY <1>3, <1>4

LEMMA ReadMoreAligned ==
  ASSUME IInv, ReadMore
  PROVE  Aligned'
<1> SUFFICES ASSUME polite'
             PROVE  Aligned'
  BY DEF Aligned
<1> DEFINE held == total + BytesRead
<1>1. /\ polite /\ UNCHANGED <<requests, stream, unread, replies, cut>>
      /\ pos' = pos + BytesRead /\ state # "removed"
      /\ BytesRead \in Nat /\ BytesRead > 0 /\ pos + BytesRead <= stream /\ held <= BufLen
  BY BytesReadOK DEF ReadMore, IInv, client
<1>2. pos - total = LastOf(replies)
  BY <1>1 DEF IInv, Aligned
<1>3. held <= Size
  BY <1>1, <1>2, Numbers DEF Size, IInv
<1>4. held < BufLen
  <2>1. CASE requests = replies /\ Size < BufLen
    BY <1>1, <1>3, <2>1, Numbers DEF IInv
  <2>2. CASE requests = Append(replies, stream) /\ Term <= Size /\ Size <= BufLen
    <3>1. SUFFICES ASSUME held = BufLen
                   PROVE  FALSE
      <4>1. total \in Nat /\ BytesRead \in Nat /\ held <= BufLen
        BY <1>1, Numbers DEF IInv
      <4>2. QED
        BY <4>1
    <3>2. pos + BytesRead = stream /\ held >= Term
      BY <1>1, <1>2, <2>2, <3>1, Numbers DEF Size, IInv
    <3>3. \E i \in DOMAIN requests : requests[i] = stream
      BY <2>2, Numbers, AppendFacts DEF IInv
    <3>4. QED
      BY <3>2, <3>3 DEF ReadMore, Answerable
  <2>3. QED
    BY <1>1, <2>1, <2>2 DEF IInv, Aligned
<1>5. total' = held /\ state' = state
  BY <1>1, <1>4, Numbers DEF ReadMore, IInv
<1>6. pos' - total' = LastOf(replies)
  BY <1>1, <1>2, <1>5, Numbers DEF IInv
<1>7. QED
  BY <1>1, <1>6 DEF IInv, Aligned, Size

LEMMA NextAligned == IInv /\ [Next]_vars => Aligned'
<1> SUFFICES ASSUME IInv, [Next]_vars
             PROVE  Aligned'
  OBVIOUS
<1>1. ASSUME NEW n \in Pieces, NEW last \in BOOLEAN, Arrive(n, last)
      PROVE  Aligned'
  BY <1>1, ArriveAligned
<1>2. CASE ReadRequest
  BY <1>2, ReadRequestAligned
<1>3. CASE ReadMore
  BY <1>3, ReadMoreAligned
<1>4. ASSUME NEW n \in 0..SendRoom, Drain(n)
      PROVE  Aligned'
  <2>1. /\ UNCHANGED <<stream, requests, state, pos, total, replies, cut, polite>>
        /\ unread' < unread /\ unread' \in Nat
    BY <1>4 DEF Drain, client
  <2>2. ~(unread = 0)
    BY <2>1, Numbers DEF IInv
  <2>3. QED
    BY <2>1, <2>2 DEF IInv, Aligned, Size
<1>5. CASE \/ \E how \in {"half", "full"} : Close(how)
           \/ Reset \/ Accept \/ Panic \/ TakeEvent \/ ReadNothing \/ UNCHANGED vars
  <2>1. /\ UNCHANGED <<stream, requests, pos, total, replies, cut, unread>>
        /\ polite' => polite
        /\ state = "removed" => state' = "removed"
    <3>1. CASE \E how \in {"half", "full"} : Close(how)
      BY <3>1 DEF Close
    <3>2. CASE Reset \/ TakeEvent
      BY <3>2 DEF Reset, TakeEvent, client
    <3>3. CASE Accept \/ Panic \/ ReadNothing
      BY <3>3 DEF Accept, Panic, ReadNothing, client
    <3>4. CASE UNCHANGED vars
      BY <3>4 DEF vars
    <3>5. QED
      BY <1>5, <3>1, <3>2, <3>3, <3>4
  <2>2. QED
    BY <2>1 DEF IInv, Aligned, Size
<1>6. QED
  BY <1>1, <1>2, <1>3, <1>4, <1>5 DEF Next, HandleReadable

LEMMA Invariant == Spec => []IInv
<1>1. Init => IInv
  <2>1. Init => OneReplyEach
    BY DEF Init, OneReplyEach
  <2>2. Init => Aligned
    BY DEF Init, Aligned, Size, LastOf
  <2>3. QED
    BY <2>1, <2>2, InitTypeOK DEF IInv
<1>2. IInv /\ [Next]_vars => IInv'
  BY NextTypeOK, NextOneReplyEach, NextAligned DEF IInv
<1>3. QED
  BY <1>1, <1>2, PTL DEF Spec

\* A client that waits for its answers is answered one for one, in order and
\* never in part, in whichever pieces its requests arrive, for every length of
\* the buffer its requests fit into.
THEOREM PoliteInStep == Spec => []InStep
<1>1. IInv => InStep
  <2> SUFFICES ASSUME IInv, polite
               PROVE  InStep
    BY DEF InStep
  <2>1. CASE requests = replies
    BY <2>1 DEF IInv, Aligned, InStep
  <2>2. CASE requests = Append(replies, stream) /\ Term <= Size
    <3>1. stream \in 1..stream
      BY <2>2, Numbers DEF Size, IInv
    <3>2. QED
      BY <2>2, <3>1 DEF IInv, Aligned, InStep
  <2>3. QED
    BY <2>1, <2>2 DEF IInv, Aligned
<1>2. QED
  BY <1>1, Invariant, PTL

=============================================================================
