------------------------------ MODULE DbSession ------------------------------
(***************************************************************************)
(* The database connection a handler receives (auth.rs of backend-common). *)
(* Connections come from a bounded pool and are shared by the requests of  *)
(* all users one after the other; the role and the user id that the row    *)
(* level security policies look at are settings of the session, they       *)
(* outlive the request and are never reset when a connection goes back to  *)
(* the pool.  A request therefore establishes its own identity, in three   *)
(* statements, before its handler runs, and it may be dropped or fail      *)
(* between any two of them.                                                *)
(***************************************************************************)
EXTENDS FiniteSets

CONSTANTS
  Conns,     \* the pool's max_size connections
  Requests,  \* requests that can be in progress at the same time
  Users,     \* the subjects of valid access tokens
  Nil,       \* the nil uuid
  NoConn     \* no connection

ASSUME SessionAssumption ==
  /\ Nil \notin Users
  /\ NoConn \notin Conns

VARIABLES
  conn,  \* of each connection: whether it exists and who has it, and its session
  req    \* of each request: its credentials, its connection and how far it is

vars == <<conn, req>>

\* The login role is the one the service connects with.
Roles == {"login", "authenticator", "authenticated", "anon"}

Sessions == [state : {"closed", "idle", "held"}, role : Roles, uid : Users \cup {Nil}]

\* The Authorization header: absent, not a bearer token, a token that does not
\* decode or has expired, or a token of a user.
Credentials == {"none", "malformed", "invalid", "valid"}

\* "away": the client has no call outstanding.  The others name the point of
\* from_request_parts that is reached; in "handler" it has returned.
Pcs == {"away", "pool", "set_authenticator", "extract", "set_role", "set_uid", "handler"}

Statuses == {"none", "ok", "unauthorized", "error"}

\* A session on which no user id has been set has an empty one; it is only
\* ever read by a handler, after set_uid.
Closed == [state |-> "closed", role |-> "login", uid |-> Nil]

Away == [pc |-> "away", cred |-> "none", user |-> Nil, conn |-> NoConn, status |-> "none"]

Init ==
  /\ conn = [c \in Conns |-> Closed]
  /\ req = [r \in Requests |-> Away]

-----------------------------------------------------------------------------

\* A call arrives; user is the subject of its token.
Arrive(r, cred, user) ==
  /\ req[r].pc = "away"
  /\ user \in Users <=> cred = "valid"
  /\ req' = [req EXCEPT ![r] = [Away EXCEPT !.pc = "pool", !.cred = cred, !.user = user]]
  /\ UNCHANGED conn

\* bb8 opens a connection while there are fewer than max_size.
Connect(c) ==
  /\ conn[c].state = "closed"
  /\ \E r \in Requests : req[r].pc = "pool"
  /\ conn' = [conn EXCEPT ![c] = [Closed EXCEPT !.state = "idle"]]
  /\ UNCHANGED req

\* bb8 hands out a connection that nobody has.
Available(c) == conn[c].state = "idle"

\* get_owned().
GetOwned(r, c) ==
  /\ req[r].pc = "pool"
  /\ Available(c)
  /\ conn' = [conn EXCEPT ![c].state = "held"]
  /\ req' = [req EXCEPT ![r].pc = "set_authenticator", ![r].conn = c]

TimedOut_Never(r) == FALSE

\* get_owned() gives up when the pool's connection timeout elapses.
TimedOut(r) ==
  /\ req[r].pc = "pool"
  /\ req' = [req EXCEPT ![r] = [Away EXCEPT !.status = "error"]]
  /\ UNCHANGED conn

\* DatabaseConnection::new.
SetAuthenticator(r) ==
  /\ req[r].pc = "set_authenticator"
  /\ conn' = [conn EXCEPT ![req[r].conn].role = "authenticator"]
  /\ req' = [req EXCEPT ![r].pc = "extract"]

GiveBack_OnlyOnSuccess(r, status) ==
  /\ conn' = IF status = "ok" THEN [conn EXCEPT ![req[r].conn].state = "idle"] ELSE conn
  /\ req' = [req EXCEPT ![r] = [Away EXCEPT !.status = status]]

GiveBack_ConnKept(r, status) ==
  /\ conn' = [conn EXCEPT ![req[r].conn].state = "idle"]
  /\ req' = [req EXCEPT ![r] = [Away EXCEPT !.conn = req[r].conn, !.status = status]]

\* Dropping the PooledConnection: back to the pool, the session as it is.
GiveBack(r, status) ==
  /\ conn' = [conn EXCEPT ![req[r].conn].state = "idle"]
  /\ req' = [req EXCEPT ![r] = [Away EXCEPT !.status = status]]

\* The bearer header and the token are decoded without suspending.
Extract(r) ==
  /\ req[r].pc = "extract"
  /\ \/ /\ req[r].cred = "malformed"
        /\ GiveBack(r, "error")
     \/ /\ req[r].cred = "invalid"
        /\ GiveBack(r, "unauthorized")
     \/ /\ req[r].cred \in {"none", "valid"}
        /\ req' = [req EXCEPT ![r].pc = "set_role"]
        /\ UNCHANGED conn

\* set_uid(user), first statement.
SetRole(r) ==
  /\ req[r].pc = "set_role"
  /\ conn' = [conn EXCEPT ![req[r].conn].role =
                IF req[r].cred = "valid" THEN "authenticated" ELSE "anon"]
  /\ req' = [req EXCEPT ![r].pc = "set_uid"]

UidFor_KeptForAnon(r) == IF req[r].cred = "valid" THEN req[r].user ELSE conn[req[r].conn].uid

\* The nil uuid takes the place of the last user's id when nobody is logged in.
UidFor(r) == IF req[r].cred = "valid" THEN req[r].user ELSE Nil

\* set_uid(user), second statement: set_config(.., is_local => false).
SetUid(r) ==
  /\ req[r].pc = "set_uid"
  /\ conn' = [conn EXCEPT ![req[r].conn].uid = UidFor(r)]
  /\ req' = [req EXCEPT ![r].pc = "handler"]

\* The handler has answered.
Finish(r) ==
  /\ req[r].pc = "handler"
  /\ GiveBack(r, "ok")

\* A statement fails, the body is malformed, or the client goes away and the
\* future is dropped at an await: whatever was established stays on the session.
Abandon(r) ==
  /\ req[r].conn # NoConn
  /\ GiveBack(r, "error")

\* The connection of a request breaks; the pool discards it.
BreakHeld(r) ==
  /\ req[r].conn # NoConn
  /\ conn' = [conn EXCEPT ![req[r].conn] = Closed]
  /\ req' = [req EXCEPT ![r] = [Away EXCEPT !.status = "error"]]

\* An idle connection breaks or is reaped.
BreakIdle(c) ==
  /\ conn[c].state = "idle"
  /\ conn' = [conn EXCEPT ![c] = Closed]
  /\ UNCHANGED req

-----------------------------------------------------------------------------

Setup(r) == SetAuthenticator(r) \/ Extract(r) \/ SetRole(r) \/ SetUid(r)

Next ==
  \/ \E r \in Requests :
       \/ \E cred \in Credentials, user \in Users \cup {Nil} : Arrive(r, cred, user)
       \/ \E c \in Conns : GetOwned(r, c)
       \/ TimedOut(r)
       \/ Setup(r)
       \/ Finish(r)
       \/ Abandon(r)
       \/ BreakHeld(r)
  \/ \E c \in Conns : Connect(c) \/ BreakIdle(c)

Spec == Init /\ [][Next]_vars

\* The pool's timer fires and the runtime polls a request whose statement has
\* been answered.  Nothing is assumed of handlers: they wait for the body of
\* the request and for S3 while they hold their connection.
Fairness == \A r \in Requests : WF_vars(TimedOut(r)) /\ WF_vars(Setup(r))

FairSpec == Spec /\ Fairness

-----------------------------------------------------------------------------

RequestRecord ==
  [pc : Pcs, cred : Credentials, user : Users \cup {Nil}, conn : Conns \cup {NoConn},
   status : Statuses]

\* Type invariant.  A request has a connection from the moment it gets one out
\* of the pool until it ends, and a user if and only if its token is valid.
TypeOK ==
  /\ conn \in [Conns -> Sessions]
  /\ req \in [Requests -> RequestRecord]
  /\ \A r \in Requests :
       /\ req[r].conn = NoConn <=> req[r].pc \in {"away", "pool"}
       /\ req[r].user \in Users <=> req[r].cred = "valid"

\* The identity that row level security sees on r's connection is r's caller.
Established(r) ==
  LET s == conn[req[r].conn] IN
  /\ s.role = IF req[r].cred = "valid" THEN "authenticated" ELSE "anon"
  /\ s.uid = req[r].user

\* While a handler runs, its session has the role and the user id of the
\* request it serves, whatever role and user id the earlier requests of other
\* users left on the connection, finished or dropped half way.
SessionMatchesRequest ==
  \A r \in Requests : req[r].pc = "handler" =>
    /\ req[r].cred \in {"none", "valid"}
    /\ Established(r)

\* No connection is in the hands of two requests, and none is lost: on every way
\* out of from_request_parts and of a handler it goes back to the pool.
HeldByOneRequest ==
  \A c \in Conns :
    LET holders == {r \in Requests : req[r].conn = c} IN
    IF conn[c].state = "held" THEN \E r \in Requests : holders = {r} ELSE holders = {}

\* An expired, forged or malformed credential never reaches a handler, not even
\* as an anonymous caller: such a call ends with an error.
BadCredentialsRefused ==
  [][\A r \in Requests :
       req[r].cred \in {"malformed", "invalid"} /\ req'[r] # req[r] =>
         \/ req'[r].pc \in {"set_authenticator", "extract"}
         \/ req'[r].pc = "away" /\ req'[r].status \in {"unauthorized", "error"}]_vars

\* Even if no handler ever gives its connection back, every call gets to its
\* own handler or is answered: none waits for a connection for ever and none
\* gets stuck while its identity is being established.
SetupEnds ==
  \A r \in Requests : req[r].pc \notin {"away", "handler"} ~>
                        req[r].pc \in {"away", "handler"}

=============================================================================
