------------------------------- MODULE Timesync -------------------------------
(***************************************************************************)
(* One connection of the time server.  A worker polls its connections      *)
(* edge-triggered: an event is reported when something new arrives, not    *)
(* while something is left to read.  handle_readable collects bytes until  *)
(* the buffer ends with an empty line, answers, and returns.               *)
(*                                                                         *)
(* A byte is its position in the client's stream, so the buffer is the     *)
(* interval of `total' positions that ends at `pos', and a request is the  *)
(* position at which it ends.  The kernel's socket and the client are      *)
(* external; the client may send and close as it likes.                    *)
(***************************************************************************)
EXTENDS Integers, Sequences

CONSTANTS
  BufLen,    \* length of Connection.buf
  Term,      \* length of the terminator of a request
  RespLen,   \* length of a response
  SendRoom,  \* how much of what is sent may wait to be read by the client
  Pieces,    \* how many bytes can arrive at once
  MaxBytes   \* bound: bytes the client sends

ASSUME TimesyncAssumption ==
  /\ BufLen \in Nat /\ Term \in Nat \ {0} /\ Term < BufLen
  /\ RespLen \in Nat \ {0} /\ SendRoom \in Nat /\ RespLen <= SendRoom
  /\ Pieces \subseteq Nat \ {0}
  /\ MaxBytes \in Nat

VARIABLES
  stream,    \* how many bytes have arrived
  requests,  \* where the requests that have arrived completely end
  fin,       \* whether and how the client has closed the connection
  event,     \* the socket has something new to report to the poll
  unread,    \* bytes of responses that the client has not read
  state,     \* of the connection, and of the worker as far as it handles it
  pos,       \* how many bytes have been read
  total,     \* Connection.total
  replies,   \* history: after which bytes a response was written
  cut,       \* history: a response was written in part only
  polite     \* history: the client has behaved as the API description asks

client == <<requests, fin, polite>>
vars == <<stream, requests, fin, event, unread, state, pos, total, replies, cut, polite>>

\* "half": the client will not send but still reads; "reset": the connection is
\* gone, and reading or writing fails.
Fins == {"no", "half", "full", "reset"}

\* "reading": the worker is in handle_readable; "dropped": the process was aborted.
States == {"backlog", "waiting", "reading", "removed", "dropped"}

LastOf(ends) == IF ends = <<>> THEN 0 ELSE ends[Len(ends)]

\* A complete request has not been answered.
Outstanding == LastOf(requests) # LastOf(replies)

Init ==
  /\ stream = 0 /\ pos = 0 /\ total = 0 /\ unread = 0
  /\ requests = <<>> /\ replies = <<>>
  /\ fin = "no" /\ state = "backlog"
  /\ event = FALSE /\ cut = FALSE /\ polite = TRUE

-----------------------------------------------------------------------------
(* The client and its connection.                                          *)

\* A polite client sends a request when it has read the answer to the one
\* before, and its requests fit into the buffer.
Patient(n, last) ==
  LET size == stream + n - LastOf(requests) IN
  /\ stream = LastOf(requests) => ~Outstanding /\ unread = 0
  /\ IF last THEN size <= BufLen ELSE size < BufLen

\* The next n bytes arrive; the last of them may be the end of a request.
Arrive(n, last) ==
  /\ fin = "no" /\ state \notin {"removed", "dropped"}
  /\ stream + n <= MaxBytes
  /\ last => stream + n - LastOf(requests) >= Term
  /\ stream' = stream + n
  /\ requests' = IF last THEN Append(requests, stream + n) ELSE requests
  /\ polite' = (polite /\ Patient(n, last))
  /\ event' = TRUE
  /\ UNCHANGED <<fin, unread, state, pos, total, replies, cut>>

\* The client closes its end; politely it stays to read what it asked for.
Close(how) ==
  /\ fin = "no" /\ state \notin {"removed", "dropped"}
  /\ fin' = how
  /\ polite' = (polite /\ (how = "half" => ~Outstanding))
  /\ event' = TRUE
  /\ UNCHANGED <<stream, requests, unread, state, pos, total, replies, cut>>

\* A response that reaches a client that is gone is answered by a reset.
Reset ==
  /\ fin = "full" /\ unread > 0 /\ state \notin {"removed", "dropped"}
  /\ fin' = "reset"
  /\ event' = TRUE
  /\ UNCHANGED <<stream, requests, unread, state, pos, total, replies, cut, polite>>

\* The client reads some of what it was sent.
Drain(n) ==
  /\ fin \in {"no", "half"} /\ n < unread
  /\ unread' = n
  /\ UNCHANGED <<stream, event, state, pos, total, replies, cut, client>>

-----------------------------------------------------------------------------
(* The worker.                                                             *)

\* accept_connections registers the socket, whatever has arrived before.
Accept ==
  /\ state = "backlog"
  /\ state' = "waiting"
  /\ UNCHANGED <<stream, event, unread, pos, total, replies, cut, client>>

\* A worker panics, this one or another, over whatever it did: the process is aborted,
\* and the kernel resets the connection, be it in the queue, registered or being read.
Panic ==
  /\ state \notin {"removed", "dropped"}
  /\ state' = "dropped"
  /\ UNCHANGED <<stream, event, unread, pos, total, replies, cut, client>>

\* The poll reports the connection, and the socket has nothing new to report.
TakeEvent ==
  /\ state = "waiting" /\ event
  /\ state' = "reading"
  /\ event' = FALSE
  /\ UNCHANGED <<stream, unread, pos, total, replies, cut, client>>

Closed_Never == FALSE

\* read() returns 0 or an error.
Closed == fin # "no"

\* Nothing is left to read: the connection is closed, or it would block.
ReadNothing ==
  /\ state = "reading" /\ pos = stream
  /\ state' = IF Closed THEN "removed" ELSE "waiting"
  /\ UNCHANGED <<stream, event, unread, pos, total, replies, cut, client>>

\* read() fills the buffer as far as it can.
BytesRead == IF stream - pos <= BufLen - total THEN stream - pos ELSE BufLen - total

Answerable_Always(read, held) == TRUE

Answerable_Anywhere(read, held) ==
  \E i \in DOMAIN requests : requests[i] > read - held /\ requests[i] <= read

Answerable_UnlessFull(read, held) ==
  held < BufLen /\ \E i \in DOMAIN requests : requests[i] = read

\* With `held' bytes in the buffer after `read' bytes of the stream, the buffer
\* ends with the terminator of a request.
Answerable(read, held) ==
  held >= Term /\ \E i \in DOMAIN requests : requests[i] = read

\* The response fits into the send buffer, or it is cut off at WouldBlock, which
\* handle_readable ignores.
WriteResponse ==
  IF unread + RespLen <= SendRoom
    THEN unread' = unread + RespLen /\ UNCHANGED cut
    ELSE unread' = SendRoom /\ cut' = TRUE

\* The buffer ends with a request: answer it, empty the buffer and return.
ReadRequest ==
  LET read == pos + BytesRead IN
  /\ state = "reading" /\ pos < stream
  /\ Answerable(read, total + BytesRead)
  /\ pos' = read
  /\ \/ /\ fin # "reset"
        /\ WriteResponse
        /\ replies' = Append(replies, read)
        /\ total' = 0
        /\ state' = "waiting"
     \/ /\ fin = "reset"
        /\ total' = total + BytesRead
        /\ state' = "removed"
        /\ UNCHANGED <<unread, replies, cut>>
  /\ UNCHANGED <<stream, event, client>>

TotalIfFull_Kept(held) == held

\* A full buffer is discarded.
TotalIfFull(held) == 0

\* The buffer does not end with a request: read on, unless it is full.
ReadMore ==
  LET held == total + BytesRead IN
  /\ state = "reading" /\ pos < stream
  /\ ~Answerable(pos + BytesRead, held)
  /\ pos' = pos + BytesRead
  /\ IF held >= BufLen
       THEN total' = TotalIfFull(held) /\ state' = "waiting"
       ELSE total' = held /\ UNCHANGED state
  /\ UNCHANGED <<stream, event, unread, replies, cut, client>>

HandleReadable == ReadNothing \/ ReadRequest \/ ReadMore

Next ==
  \/ \E n \in Pieces, last \in BOOLEAN : Arrive(n, last)
  \/ \E how \in {"half", "full"} : Close(how)
  \/ Reset
  \/ \E n \in 0..SendRoom : Drain(n)
  \/ Accept \/ Panic \/ TakeEvent \/ HandleReadable

Spec == Init /\ [][Next]_vars

\* Some worker accepts, workers are scheduled while the process lives, and the
\* network delivers a reset.  Nothing is assumed of the client.
FairSpec ==
  Spec /\ WF_vars(Accept) /\ WF_vars(TakeEvent) /\ WF_vars(HandleReadable) /\ WF_vars(Reset)

-----------------------------------------------------------------------------
(* Properties.                                                             *)

\* Type invariant; the buffer always has room when handle_readable reads, for a
\* read into no room at all would look like the end of the stream.
TypeOK ==
  /\ stream \in Nat /\ pos \in 0..stream /\ unread \in 0..SendRoom
  /\ requests \in Seq(Nat) /\ replies \in Seq(Nat)
  /\ fin \in Fins /\ state \in States
  /\ total \in 0..pos /\ (state # "removed" => total < BufLen)
  /\ event \in BOOLEAN /\ cut \in BOOLEAN /\ polite \in BOOLEAN

\* Whatever the client sends, in whatever pieces, with whatever cut off at the end
\* of the buffer: every response is written at the end of a request that has been
\* read, and none is written twice for the same request.
OneReplyEach ==
  /\ \A i \in DOMAIN replies :
       /\ replies[i] <= pos
       /\ \E j \in DOMAIN requests : requests[j] = replies[i]
  /\ \A i, j \in DOMAIN replies : i < j => replies[i] < replies[j]

\* A polite client is answered in step with its requests and receives every
\* response whole: its requests are answered one by one, in whichever pieces each
\* of them arrives, and at most the last one has not been answered yet.
InStep ==
  polite => /\ ~cut
            /\ requests = replies \/ \E end \in 1..stream : requests = Append(replies, end)

\* A polite client gets its answer, unless the process is aborted.
Answered ==
  polite /\ Outstanding ~> ~Outstanding \/ ~polite \/ state = "dropped"

\* The connection of a polite client is removed when the client has closed it.
Removed ==
  polite /\ fin # "no" ~> state \in {"removed", "dropped"}

=============================================================================
