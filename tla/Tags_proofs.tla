----------------------------- MODULE Tags_proofs -----------------------------
(***************************************************************************)
(* Proofs about DbSession and about Tags, which extends it, for any        *)
(* connections, requests, users, names and tags.  What is proved of the    *)
(* sessions holds of them under Tags as well, and carries the rest.        *)
(***************************************************************************)
EXTENDS Tags, TLAPS

-----------------------------------------------------------------------------
(* The sessions: DbSession.                                                *)

\* A connection that a request has is marked as held, no other request has it,
\* and a connection marked as held is one that some request has.
Holding ==
  /\ \A r \in Requests : req[r].conn # NoConn => conn[req[r].conn].state = "held"
  /\ \A q, r \in Requests : q # r /\ req[q].conn # NoConn => req[q].conn # req[r].conn
  /\ \A c \in Conns : conn[c].state = "held" => \E r \in Requests : req[r].conn = c

\* What is established of the caller's identity at each point.
IdentityAt(r) ==
  /\ req[r].pc = "away" => req[r].cred = "none"
  /\ req[r].pc \in {"set_role", "set_uid", "handler"} => req[r].cred \in {"none", "valid"}
  /\ req[r].pc \in {"set_uid", "handler"} =>
       conn[req[r].conn].role = IF req[r].cred = "valid" THEN "authenticated" ELSE "anon"
  /\ req[r].pc = "handler" => conn[req[r].conn].uid = req[r].user

\* The inductive invariant.  SessionMatchesRequest is not inductive alone: that
\* set_uid completes the identity depends on the role set two steps earlier,
\* and that nothing disturbs it on the connection belonging to one request.
IInv == TypeOK /\ Holding /\ \A r \in Requests : IdentityAt(r)

USE DEF Sessions, RequestRecord, Roles, Credentials, Pcs, Statuses

LEMMA InitIInv == Init => IInv
<1> SUFFICES ASSUME Init
             PROVE  IInv
  OBVIOUS
<1>1. /\ \A c \in Conns : conn[c] = Closed
      /\ \A r \in Requests : req[r] = Away
  BY DEF Init
<1>2. TypeOK
  BY SessionAssumption DEF Init, TypeOK, Away, Closed
<1>3. Holding
  BY <1>1 DEF Holding, Away, Closed
<1>4. \A r \in Requests : IdentityAt(r)
  BY <1>1 DEF IdentityAt, Away
<1>5. QED
  BY <1>2, <1>3, <1>4 DEF IInv

LEMMA ArriveIInv ==
  ASSUME IInv, NEW r \in Requests, NEW cred \in Credentials, NEW user \in Users \cup {Nil},
         Arrive(r, cred, user)
  PROVE  IInv'
<1>1. TypeOK'
  BY SessionAssumption DEF Arrive, IInv, TypeOK, Away
<1>2. Holding'
  BY SessionAssumption DEF Arrive, IInv, TypeOK, Holding, Away
<1>3. \A q \in Requests : IdentityAt(q)'
  BY SessionAssumption DEF Arrive, IInv, TypeOK, IdentityAt, Away
<1>4. QED
  BY <1>1, <1>2, <1>3 DEF IInv

LEMMA ConnectIInv ==
  ASSUME IInv, NEW c \in Conns, Connect(c) \/ BreakIdle(c)
  PROVE  IInv'
<1>1. /\ conn' = [conn EXCEPT ![c] = conn'[c]]
      /\ conn'[c] \in Sessions /\ conn'[c].state # "held"
      /\ conn[c].state # "held"
      /\ req' = req
  BY DEF Connect, BreakIdle, IInv, TypeOK, Closed
<1>2. TypeOK'
  BY <1>1 DEF IInv, TypeOK
<1>3. \A r \in Requests : req[r].conn # c
  BY <1>1, SessionAssumption DEF IInv, Holding
<1>4. \A d \in Conns \ {c} : conn'[d] = conn[d]
  BY <1>1 DEF IInv, TypeOK
<1>5. Holding'
  <2>1. \A r \in Requests : req[r].conn \in (Conns \ {c}) \cup {NoConn}
    BY <1>3 DEF IInv, TypeOK
  <2>2. QED
    BY <1>1, <1>4, <2>1 DEF IInv, Holding
<1>6. \A r \in Requests : IdentityAt(r)'
  BY <1>1 DEF IInv, TypeOK, Holding, IdentityAt
<1>7. QED
  BY <1>2, <1>5, <1>6 DEF IInv

LEMMA GetOwnedIInv ==
  ASSUME IInv, NEW r \in Requests, NEW c \in Conns, GetOwned(r, c)
  PROVE  IInv'
  BY SessionAssumption DEF GetOwned, Available, IInv, TypeOK, Holding, IdentityAt

LEMMA TimedOutIInv ==
  ASSUME IInv, NEW r \in Requests, TimedOut(r)
  PROVE  IInv'
  BY SessionAssumption DEF TimedOut, IInv, TypeOK, Holding, IdentityAt, Away

LEMMA GiveBackIInv ==
  ASSUME IInv, NEW r \in Requests, req[r].conn # NoConn, NEW status \in Statuses,
         GiveBack(r, status)
  PROVE  IInv'
  BY SessionAssumption DEF GiveBack, IInv, TypeOK, Holding, IdentityAt, Away

LEMMA BreakHeldIInv ==
  ASSUME IInv, NEW r \in Requests, BreakHeld(r)
  PROVE  IInv'
  BY SessionAssumption DEF BreakHeld, IInv, TypeOK, Holding, IdentityAt, Away, Closed

LEMMA SetupIInv ==
  ASSUME IInv, NEW r \in Requests, Setup(r)
  PROVE  IInv'
<1>1. CASE SetAuthenticator(r)
  <2>1. TypeOK'
    BY <1>1, SessionAssumption DEF SetAuthenticator, IInv, TypeOK
  <2>2. Holding'
    BY <1>1, SessionAssumption DEF SetAuthenticator, IInv, TypeOK, Holding
  <2>3. \A q \in Requests : IdentityAt(q)'
    BY <1>1, SessionAssumption DEF SetAuthenticator, IInv, TypeOK, Holding, IdentityAt
  <2>4. QED
    BY <2>1, <2>2, <2>3 DEF IInv
<1>2. CASE Extract(r)
  <2>1. CASE \E status \in Statuses : GiveBack(r, status)
    BY <1>2, <2>1, GiveBackIInv DEF Extract, IInv, TypeOK
  <2>2. CASE /\ req[r].cred \in {"none", "valid"}
             /\ req' = [req EXCEPT ![r].pc = "set_role"]
             /\ UNCHANGED conn
    BY <1>2, <2>2, SessionAssumption DEF Extract, IInv, TypeOK, Holding, IdentityAt
  <2>3. QED
    BY <1>2, <2>1, <2>2 DEF Extract
<1>3. CASE SetRole(r)
  BY <1>3, SessionAssumption DEF SetRole, IInv, TypeOK, Holding, IdentityAt
<1>4. CASE SetUid(r)
  BY <1>4, SessionAssumption DEF SetUid, UidFor, IInv, TypeOK, Holding, IdentityAt
<1>5. QED
  BY <1>1, <1>2, <1>3, <1>4 DEF Setup

LEMMA NextIInv == IInv /\ [Next]_vars => IInv'
<1> SUFFICES ASSUME IInv, [Next]_vars
             PROVE  IInv'
  OBVIOUS
<1>1. CASE \E r \in Requests, cred \in Credentials, user \in Users \cup {Nil} :
             Arrive(r, cred, user)
  BY <1>1, ArriveIInv
<1>2. CASE \E r \in Requests, c \in Conns : GetOwned(r, c)
  BY <1>2, GetOwnedIInv
<1>3. CASE \E r \in Requests : TimedOut(r)
  BY <1>3, TimedOutIInv
<1>4. CASE \E r \in Requests : Setup(r)
  BY <1>4, SetupIInv
<1>5. CASE \E r \in Requests : Finish(r) \/ Abandon(r)
  <2>1. PICK r \in Requests : Finish(r) \/ Abandon(r)
    BY <1>5
  <2>2. req[r].conn # NoConn /\ \E status \in Statuses : GiveBack(r, status)
    BY <2>1 DEF Finish, Abandon, IInv, TypeOK
  <2>3. QED
    BY <2>2, GiveBackIInv
<1>6. CASE \E r \in Requests : BreakHeld(r)
  BY <1>6, BreakHeldIInv
<1>7. CASE \E c \in Conns : Connect(c) \/ BreakIdle(c)
  BY <1>7, ConnectIInv
<1>8. CASE UNCHANGED vars
  BY <1>8 DEF vars, IInv, TypeOK, Holding, IdentityAt
<1>9. QED
  BY <1>1, <1>2, <1>3, <1>4, <1>5, <1>6, <1>7, <1>8 DEF Next

LEMMA IInvHolds == Spec => []IInv
  BY InitIInv, NextIInv, PTL DEF Spec

\* The service never confuses connections, credentials and stages of a request.
THEOREM TypeCorrect == Spec => []TypeOK
<1>1. IInv => TypeOK
  BY DEF IInv
<1>2. QED
  BY <1>1, IInvHolds, PTL

\* Whatever the interleaving of requests, failures and reused connections, the
\* row level security policies evaluate a handler's statements for its caller.
THEOREM SessionIsolation == Spec => []SessionMatchesRequest
<1>1. IInv => SessionMatchesRequest
  BY DEF IInv, IdentityAt, SessionMatchesRequest, Established
<1>2. QED
  BY <1>1, IInvHolds, PTL

\* Each connection is in the hands of one request or of the pool.
THEOREM NoConnectionShared == Spec => []HeldByOneRequest
<1>1. IInv => HeldByOneRequest
  <2> SUFFICES ASSUME IInv, NEW c \in Conns
               PROVE  LET holders == {r \in Requests : req[r].conn = c} IN
                      IF conn[c].state = "held" THEN \E r \in Requests : holders = {r}
                      ELSE holders = {}
    BY DEF HeldByOneRequest
  <2>1. CASE conn[c].state = "held"
    BY <2>1, SessionAssumption DEF IInv, Holding
  <2>2. CASE conn[c].state # "held"
    BY <2>2, SessionAssumption DEF IInv, Holding
  <2>3. QED
    BY <2>1, <2>2
<1>2. QED
  BY <1>1, IInvHolds, PTL

\* An expired, forged or malformed credential never reaches a handler.
THEOREM CredentialsChecked == Spec => BadCredentialsRefused
<1> DEFINE Unheard ==
      \A r \in Requests :
        req[r].cred \in {"malformed", "invalid"} /\ req'[r] # req[r] =>
          \/ req'[r].pc \in {"set_authenticator", "extract"}
          \/ req'[r].pc = "away" /\ req'[r].status \in {"unauthorized", "error"}
<1>1. ASSUME IInv, Next, NEW r \in Requests,
             req[r].cred \in {"malformed", "invalid"}, req'[r] # req[r]
      PROVE  \/ req'[r].pc \in {"set_authenticator", "extract"}
             \/ req'[r].pc = "away" /\ req'[r].status \in {"unauthorized", "error"}
  <2>1. req \in [Requests -> RequestRecord]
    BY <1>1 DEF IInv, TypeOK
  <2>2. req[r].pc \notin {"set_role", "set_uid", "handler"}
    BY <1>1 DEF IInv, IdentityAt
  <2>3. CASE \/ \E cred \in Credentials, user \in Users \cup {Nil} : Arrive(r, cred, user)
             \/ \E c \in Conns : GetOwned(r, c)
             \/ TimedOut(r) \/ SetAuthenticator(r)
    <3>1. req[r].pc # "away"
      BY <1>1 DEF IInv, IdentityAt
    <3>2. CASE \E c \in Conns : GetOwned(r, c)
      BY <2>1, <3>2 DEF GetOwned
    <3>3. CASE TimedOut(r) \/ SetAuthenticator(r)
      BY <2>1, <3>3 DEF TimedOut, SetAuthenticator, Away
    <3>4. QED
      BY <2>3, <3>1, <3>2, <3>3 DEF Arrive
  <2>4. CASE Extract(r) \/ Abandon(r) \/ BreakHeld(r)
    BY <1>1, <2>1, <2>4 DEF Extract, Abandon, BreakHeld, GiveBack, Away
  <2>5. CASE SetRole(r) \/ SetUid(r) \/ Finish(r)
    BY <2>2, <2>5 DEF SetRole, SetUid, Finish
  <2>6. CASE \E c \in Conns : Connect(c) \/ BreakIdle(c)
    BY <1>1, <2>6 DEF Connect, BreakIdle
  <2>7. ASSUME NEW q \in Requests, q # r,
               \/ \E cred \in Credentials, user \in Users \cup {Nil} : Arrive(q, cred, user)
               \/ \E c \in Conns : GetOwned(q, c)
               \/ TimedOut(q) \/ Setup(q) \/ Finish(q) \/ Abandon(q) \/ BreakHeld(q)
        PROVE  FALSE
    <3>1. req'[r] = req[r]
      BY <2>1, <2>7 DEF Arrive, GetOwned, TimedOut, Setup, SetAuthenticator, Extract, SetRole,
                        SetUid, Finish, Abandon, BreakHeld, GiveBack
    <3>2. QED
      BY <1>1, <3>1
  <2>8. QED
    BY <1>1, <2>3, <2>4, <2>5, <2>6, <2>7 DEF Next, Setup
<1>2. IInv /\ [Next]_vars => [Unheard]_vars
  BY <1>1
<1>3. QED
  BY <1>2, IInvHolds, PTL DEF Spec, BadCredentialsRefused

HIDE DEF Sessions, RequestRecord, Roles, Credentials, Pcs, Statuses

-----------------------------------------------------------------------------
(* The sessions under Tags.                                                *)

\* A session step of Tags is a step of DbSession, a handler's leaves it alone.
LEMMA SessionsRefined == TagsSpec => Spec
<1>1. TagsInit => Init
  BY DEF TagsInit
<1>2. [TagsNext]_tagVars => [Next]_vars
  BY DEF TagsNext, tagVars, vars, SessionStep, Handle, CreateTag, GetTags, ModifyTag, DeleteTag,
         Update, Has
<1>3. QED
  BY <1>1, <1>2, PTL DEF TagsSpec, Spec

\* With the fairness of the sessions, Tags gives them all that SetupEnds rests on.
LEMMA FairSessionsRefined == TagsFairSpec => FairSpec
  BY SessionsRefined DEF TagsFairSpec, FairSpec

LEMMA SessionsHold == TagsSpec => []IInv
  BY SessionsRefined, IInvHolds, PTL

\* What the database makes of a handler's session is what the token says.
LEMMA Identity ==
  ASSUME IInv, NEW r \in Requests, req[r].pc = "handler"
  PROVE  /\ MayWrite(Session(r)) <=> LoggedIn(r)
         /\ MayRead(Session(r))
         /\ \A owner : Policy(Session(r), owner) <=> req[r].user = owner
         /\ req[r].user \in Users \cup {Nil}
         /\ LoggedIn(r) <=> req[r].cred = "valid"
         /\ LoggedIn(r) <=> req[r].user \in Users
<1>1. /\ req[r].cred \in {"none", "valid"}
      /\ Session(r).role = IF req[r].cred = "valid" THEN "authenticated" ELSE "anon"
      /\ Session(r).uid = req[r].user
  BY DEF IInv, IdentityAt, Session
<1>2. /\ req[r].user \in Users \cup {Nil}
      /\ req[r].user \in Users <=> req[r].cred = "valid"
  BY DEF IInv, TypeOK, RequestRecord
<1>3. QED
  BY <1>1, <1>2, SessionAssumption DEF MayWrite, MayRead, Policy, LoggedIn

-----------------------------------------------------------------------------
(* The type invariant and NamesUnique.                                     *)

TableOK ==
  /\ tags \in Seq(Tag) /\ Len(tags) <= MaxTags
  /\ \A i \in Ids : tags[i].owner \in Users

RepliesOK ==
  /\ reply \in [Requests -> Reply]
  /\ \A r \in Requests :
       /\ reply[r].list \subseteq Ids
       /\ reply[r] # NoReply =>
            \/ req[r].pc = "handler"
            \/ req[r].pc = "away" /\ req[r].status = "ok"

\* The inductive invariant: with that of the sessions, each part is inductive.
TagsInv == IInv /\ TableOK /\ RepliesOK /\ NamesUnique

\* A handler leaves the table as it is, adds one tag of its caller with a name that
\* is free, or changes one tag of its caller, whose name stays free of the others'.
Inserted(r) ==
  \E name \in Names :
    /\ LoggedIn(r) /\ Free(r, name, 0) /\ Len(tags) < MaxTags
    /\ tags' = Append(tags, [name |-> name, owner |-> req[r].user, deleted |-> FALSE])

Changed(r) ==
  \E id \in Ids, tag \in Tag :
    /\ LoggedIn(r) /\ tags[id].owner = req[r].user
    /\ tag.owner = tags[id].owner
    /\ Free(r, tag.name, id)
    /\ tags[id].deleted => tag.deleted
    /\ tags' = [tags EXCEPT ![id] = tag]

LEMMA UpdateEffect ==
  ASSUME TagsInv, NEW r \in Requests, req[r].pc = "handler", LoggedIn(r),
         NEW id, NEW tag, Update(r, id, tag),
         Affected(r, id) =>
           /\ tag \in Tag /\ tag.owner = tags[id].owner
           /\ Free(r, tag.name, id)
           /\ tags[id].deleted => tag.deleted
  PROVE  tags' = tags \/ Changed(r)
<1>1. CASE Affected(r, id)
  <2>1. tags[id].owner = req[r].user
    BY <1>1, Identity DEF Affected, TagsInv
  <2>2. QED
    BY <1>1, <2>1 DEF Update, Affected, Changed
<1>2. CASE ~Affected(r, id)
  BY <1>2 DEF Update
<1>3. QED
  BY <1>1, <1>2

LEMMA HandleEffect ==
  ASSUME TagsInv, NEW r \in Requests, Handle(r)
  PROVE  /\ tags' = tags \/ Inserted(r) \/ Changed(r)
         /\ req[r].pc = "handler"
         /\ UNCHANGED <<conn, req>>
         /\ \E answer \in Reply : /\ answer.list \subseteq Ids
                                  /\ reply' = [reply EXCEPT ![r] = answer]
<1> USE DEF Handling, Has, Reply, Ok, Refused
<1>1. CASE \E name \in Names : CreateTag(r, name)
  BY <1>1 DEF CreateTag, Inserts, Inserted
<1>2. CASE GetTags(r)
  <2>1. Listed(r) \in SUBSET Nat /\ Listed(r) \subseteq Ids
    BY DEF Listed, Ids, TagsInv, TableOK
  <2>2. PICK answer \in {[code |-> "ok", list |-> Listed(r)], Refused} :
          reply' = [reply EXCEPT ![r] = answer]
    BY <1>2 DEF GetTags
  <2>3. answer \in Reply /\ answer.list \subseteq Ids
    BY <2>1, <2>2
  <2>4. QED
    BY <1>2, <2>2, <2>3 DEF GetTags
<1>3. ASSUME NEW id \in 1..MaxTags, NEW name \in Names, ModifyTag(r, id, name)
      PROVE  tags' = tags \/ Changed(r)
  <2>1. CASE Updates(r, id, name)
    <3> DEFINE tag == [tags[id] EXCEPT !.name = name]
    <3>1. Update(r, id, tag) /\ req[r].pc = "handler"
      BY <1>3, <2>1 DEF ModifyTag
    <3>2. LoggedIn(r)
      BY <2>1, <3>1, Identity DEF Updates, TagsInv
    <3>3. ASSUME Affected(r, id)
          PROVE  /\ tag \in Tag /\ tag.owner = tags[id].owner
                 /\ Free(r, tag.name, id)
                 /\ tags[id].deleted => tag.deleted
      <4>1. tags[id] \in Tag
        BY <3>3 DEF Affected, Ids, TagsInv, TableOK
      <4>2. QED
        BY <2>1, <3>3, <4>1 DEF Updates, Tag
    <3> HIDE DEF tag
    <3>4. QED
      BY <3>1, <3>2, <3>3, UpdateEffect
  <2>2. CASE ~Updates(r, id, name)
    BY <1>3, <2>2 DEF ModifyTag
  <2>3. QED
    BY <2>1, <2>2
<1>4. ASSUME NEW id \in 1..MaxTags, DeleteTag(r, id)
      PROVE  tags' = tags \/ Changed(r)
  <2>1. CASE MayWrite(Session(r))
    <3> DEFINE tag == [tags[id] EXCEPT !.deleted = TRUE]
    <3>1. Update(r, id, tag) /\ req[r].pc = "handler"
      BY <1>4, <2>1 DEF DeleteTag
    <3>2. LoggedIn(r)
      BY <2>1, <3>1, Identity DEF TagsInv
    <3>3. ASSUME Affected(r, id)
          PROVE  /\ tag \in Tag /\ tag.owner = tags[id].owner
                 /\ Free(r, tag.name, id)
                 /\ tags[id].deleted => tag.deleted
      <4>1. tags[id] \in Tag /\ id \in Ids
        BY <3>3 DEF Affected, Ids, TagsInv, TableOK
      <4>2. tag \in Tag /\ tag.owner = tags[id].owner /\ tag.name = tags[id].name /\ tag.deleted
        BY <4>1 DEF Tag
      <4>3. Free(r, tags[id].name, id)
        BY <4>1 DEF Free, TagsInv, NamesUnique
      <4>4. QED
        BY <4>2, <4>3
    <3> HIDE DEF tag
    <3>4. QED
      BY <3>1, <3>2, <3>3, UpdateEffect
  <2>2. CASE ~MayWrite(Session(r))
    BY <1>4, <2>2 DEF DeleteTag
  <2>3. QED
    BY <2>1, <2>2
<1>5. CASE \E id \in 1..MaxTags, name \in Names : ModifyTag(r, id, name)
  BY <1>3, <1>5 DEF ModifyTag, Update
<1>6. CASE \E id \in 1..MaxTags : DeleteTag(r, id)
  BY <1>4, <1>6 DEF DeleteTag, Update
<1>7. QED
  BY <1>1, <1>2, <1>5, <1>6 DEF Handle

\* Only a handler that has its reply answers; whatever else a request does, the
\* reply is kept if the request is where it was and dropped if it is not.
Arrives(r) ==
  /\ req[r].pc = "away"
  /\ req'[r].pc = "pool" /\ req'[r].status = "none"
  /\ req'[r].user \in Users \cup {Nil}
  /\ req'[r].user \in Users <=> req'[r].cred = "valid"

Advances(r) ==
  /\ req[r].pc \notin {"away", "handler"} /\ req'[r].pc # "away"
  /\ req'[r].user = req[r].user /\ req'[r].cred = req[r].cred
  /\ req'[r].status = req[r].status

Ends(r) ==
  /\ req[r].pc # "away"
  /\ req'[r].pc = "away" /\ req'[r].user = Nil
  /\ req'[r].status = "ok" => req[r].pc = "handler"

LEMMA StepKinds ==
  ASSUME IInv, Next
  PROVE  \/ req' = req
         \/ \E r \in Requests :
              /\ Arrives(r) \/ Advances(r) \/ Ends(r)
              /\ req' = [req EXCEPT ![r] = req'[r]]
<1> USE SessionAssumption DEF IInv, TypeOK
<1>1. ASSUME NEW r \in Requests, NEW cred \in Credentials, NEW user \in Users \cup {Nil},
             Arrive(r, cred, user)
      PROVE  Arrives(r) /\ req' = [req EXCEPT ![r] = req'[r]]
  BY <1>1 DEF Arrive, Arrives, Away
<1>2. ASSUME NEW r \in Requests,
             (\E c \in Conns : GetOwned(r, c)) \/ SetAuthenticator(r) \/ SetRole(r) \/ SetUid(r)
      PROVE  Advances(r) /\ req' = [req EXCEPT ![r] = req'[r]]
  <2>1. req[r] \in RequestRecord
    OBVIOUS
  <2>2. CASE \E c \in Conns : GetOwned(r, c)
    BY <2>1, <2>2 DEF GetOwned, Advances, RequestRecord
  <2>3. CASE SetAuthenticator(r)
    BY <2>1, <2>3 DEF SetAuthenticator, Advances, RequestRecord
  <2>4. CASE SetRole(r)
    BY <2>1, <2>4 DEF SetRole, Advances, RequestRecord
  <2>5. CASE SetUid(r)
    BY <2>1, <2>5 DEF SetUid, Advances, RequestRecord
  <2>6. QED
    BY <1>2, <2>2, <2>3, <2>4, <2>5
<1>3. ASSUME NEW r \in Requests, NEW status \in Statuses, req[r].conn # NoConn,
             GiveBack(r, status), status = "ok" => req[r].pc = "handler"
      PROVE  Ends(r) /\ req' = [req EXCEPT ![r] = req'[r]]
  BY <1>3 DEF GiveBack, Ends, Away
<1>4. ASSUME NEW r \in Requests, TimedOut(r) \/ BreakHeld(r)
      PROVE  Ends(r) /\ req' = [req EXCEPT ![r] = req'[r]]
  BY <1>4 DEF TimedOut, BreakHeld, Ends, Away
<1>5. ASSUME NEW r \in Requests, Extract(r)
      PROVE  /\ Advances(r) \/ Ends(r)
             /\ req' = [req EXCEPT ![r] = req'[r]]
  <2>1. req[r].conn # NoConn
    BY <1>5 DEF Extract
  <2>2. CASE GiveBack(r, "error") \/ GiveBack(r, "unauthorized")
    BY <1>3, <2>1, <2>2 DEF Statuses
  <2>3. CASE req' = [req EXCEPT ![r].pc = "set_role"]
    BY <1>5, <2>3 DEF Extract, Advances
  <2>4. QED
    BY <1>5, <2>2, <2>3 DEF Extract
<1>6. ASSUME NEW r \in Requests, Finish(r) \/ Abandon(r)
      PROVE  Ends(r) /\ req' = [req EXCEPT ![r] = req'[r]]
  <2>1. req[r].conn # NoConn
    BY <1>6 DEF Finish, Abandon
  <2>2. QED
    BY <1>3, <1>6, <2>1 DEF Finish, Abandon, Statuses
<1>7. ASSUME NEW c \in Conns, Connect(c) \/ BreakIdle(c)
      PROVE  req' = req
  BY <1>7 DEF Connect, BreakIdle
<1>8. QED
  BY <1>1, <1>2, <1>4, <1>5, <1>6, <1>7 DEF Next, Setup

LEMMA TableKept ==
  ASSUME TagsInv, NEW r \in Requests, tags' = tags \/ Inserted(r) \/ Changed(r),
         req[r].pc = "handler"
  PROVE  TableOK' /\ NamesUnique' /\ Ids \subseteq Ids'
<1> USE DEF TagsInv, TableOK, Ids
<1>1. CASE tags' = tags
  BY <1>1 DEF NamesUnique
<1>2. CASE Inserted(r)
  <2>1. PICK name \in Names :
          /\ LoggedIn(r) /\ Free(r, name, 0) /\ Len(tags) < MaxTags
          /\ tags' = Append(tags, [name |-> name, owner |-> req[r].user, deleted |-> FALSE])
    BY <1>2 DEF Inserted
  <2> DEFINE tag == [name |-> name, owner |-> req[r].user, deleted |-> FALSE]
  <2>2. req[r].user \in Users
    BY <2>1, Identity
  <2>3. tag \in Tag /\ tag.owner \in Users /\ tag.name = name
    BY <2>2 DEF Tag
  <2>4. \A i \in 1..Len(tags) : tags[i].name # name
    BY <2>1 DEF Free
  <2>5. tags' = Append(tags, tag)
    BY <2>1
  <2> HIDE DEF tag
  <2>6. /\ tags' \in Seq(Tag) /\ Len(tags') = Len(tags) + 1
        /\ \A i \in 1..Len(tags) : tags'[i] = tags[i]
        /\ tags'[Len(tags) + 1] = tag
    BY <2>3, <2>5
  <2>7. TableOK' /\ Ids \subseteq Ids'
    BY <2>1, <2>3, <2>6, TagsAssumption
  <2>8. NamesUnique'
    BY <2>3, <2>4, <2>6 DEF NamesUnique
  <2>9. QED
    BY <2>7, <2>8
<1>3. CASE Changed(r)
  <2>1. PICK id \in Ids, tag \in Tag :
          /\ tag.owner = tags[id].owner
          /\ Free(r, tag.name, id)
          /\ tags' = [tags EXCEPT ![id] = tag]
    BY <1>3 DEF Changed
  <2>2. /\ tags' \in Seq(Tag) /\ Len(tags') = Len(tags)
        /\ tags'[id] = tag
        /\ \A i \in 1..Len(tags) : i # id => tags'[i] = tags[i]
    BY <2>1
  <2>3. TableOK' /\ Ids' = Ids
    BY <2>1, <2>2
  <2>4. NamesUnique'
    BY <2>1, <2>2 DEF NamesUnique, Free
  <2>5. QED
    BY <2>3, <2>4
<1>4. QED
  BY <1>1, <1>2, <1>3

LEMMA HandleInv ==
  ASSUME TagsInv, NEW r \in Requests, Handle(r)
  PROVE  TableOK' /\ RepliesOK' /\ NamesUnique'
<1>1. TableOK' /\ NamesUnique' /\ Ids \subseteq Ids'
  BY HandleEffect, TableKept
<1>2. RepliesOK'
  BY <1>1, HandleEffect DEF RepliesOK, TagsInv
<1>3. QED
  BY <1>1, <1>2

LEMMA SessionInv ==
  ASSUME TagsInv, SessionStep
  PROVE  TableOK' /\ RepliesOK' /\ NamesUnique'
<1>1. TableOK' /\ NamesUnique' /\ Ids' = Ids
  BY DEF SessionStep, TagsInv, TableOK, NamesUnique, Ids
<1>2. \A r \in Requests : reply'[r] = IF Keeps(r) THEN reply[r] ELSE NoReply
  BY DEF SessionStep
<1>3. NoReply \in Reply /\ NoReply.list = {}
  BY DEF NoReply, Reply
<1>4. reply' \in [Requests -> Reply] /\ \A r \in Requests : reply'[r].list \subseteq Ids'
  <2>1. reply' = [r \in Requests |-> IF Keeps(r) THEN reply[r] ELSE NoReply]
    BY DEF SessionStep
  <2>2. QED
    BY <1>1, <1>3, <2>1 DEF TagsInv, RepliesOK
<1>5. ASSUME NEW r \in Requests, reply'[r] # NoReply
      PROVE  req'[r].pc = "handler" \/ (req'[r].pc = "away" /\ req'[r].status = "ok")
  <2>1. Keeps(r) /\ reply[r] # NoReply
    BY <1>2, <1>5
  <2>2. CASE req'[r] = req[r]
    BY <2>1, <2>2 DEF TagsInv, RepliesOK
  <2>3. CASE req'[r].status = "ok" /\ req'[r] # req[r]
    <3>1. PICK q \in Requests : /\ Arrives(q) \/ Advances(q) \/ Ends(q)
                                /\ req' = [req EXCEPT ![q] = req'[q]]
      BY <2>3, StepKinds DEF SessionStep, TagsInv
    <3>2. q = r
      BY <2>3, <3>1 DEF TagsInv, IInv, TypeOK
    <3>3. ~Advances(r)
      BY <2>1 DEF Advances, TagsInv, RepliesOK
    <3>4. QED
      BY <2>3, <3>1, <3>2, <3>3 DEF Arrives, Ends
  <2>4. QED
    BY <2>1, <2>2, <2>3 DEF Keeps
<1>6. QED
  BY <1>1, <1>4, <1>5 DEF RepliesOK

LEMMA TagsInvHolds == TagsSpec => []TagsInv
<1>1. TagsInit => TableOK /\ RepliesOK /\ NamesUnique
  BY TagsAssumption
  DEF TagsInit, TableOK, RepliesOK, NamesUnique, Ids, Reply, NoReply
<1>2. TagsInv /\ [TagsNext]_tagVars => (TableOK /\ RepliesOK /\ NamesUnique)'
  <2> SUFFICES ASSUME TagsInv, [TagsNext]_tagVars
               PROVE  (TableOK /\ RepliesOK /\ NamesUnique)'
    OBVIOUS
  <2>1. CASE SessionStep
    BY <2>1, SessionInv
  <2>2. CASE \E r \in Requests : Handle(r)
    BY <2>2, HandleInv
  <2>3. CASE UNCHANGED tagVars
    BY <2>3 DEF tagVars, TagsInv, TableOK, RepliesOK, NamesUnique, Ids
  <2>4. QED
    BY <2>1, <2>2, <2>3 DEF TagsNext
<1>3. QED
  BY <1>1, <1>2, SessionsHold, PTL DEF TagsSpec, TagsInv

-----------------------------------------------------------------------------

\* Replies and tags keep their types and only users own tags.
THEOREM TagsTypeCorrect == TagsSpec => []TagsTypeOK
<1>1. TagsInv => TagsTypeOK
  BY DEF TagsInv, TableOK, RepliesOK, IInv, TagsTypeOK
<1>2. QED
  BY <1>1, TagsInvHolds, PTL

\* However many requests create and rename at once, no two tags share a name.
THEOREM NamesStayUnique == TagsSpec => []NamesUnique
<1>1. TagsInv => NamesUnique
  BY DEF TagsInv
<1>2. QED
  BY <1>1, TagsInvHolds, PTL

\* In a step of a handler its request performs its call, and no other does.
LEMMA OnePerforms ==
  ASSUME TagsInv, NEW r \in Requests, Handle(r)
  PROVE  Performs(r) /\ \A q \in Requests : Performs(q) => q = r
<1>1. Handling(r)
  BY DEF Handle, CreateTag, GetTags, ModifyTag, DeleteTag
<1>2. \E answer : answer # NoReply /\ reply' = [reply EXCEPT ![r] = answer]
  <2>1. Ok # NoReply /\ Refused # NoReply /\ \A l : [code |-> "ok", list |-> l] # NoReply
    BY DEF Ok, Refused, NoReply
  <2>2. QED
    BY <2>1 DEF Handle, CreateTag, GetTags, ModifyTag, DeleteTag, Update, Has
<1>3. PICK answer : answer # NoReply /\ reply' = [reply EXCEPT ![r] = answer]
  BY <1>2
<1>4. reply'[r] = answer /\ \A q \in Requests \ {r} : reply'[q] = reply[q]
  BY <1>3 DEF TagsInv, RepliesOK
<1>5. QED
  BY <1>1, <1>3, <1>4 DEF Performs, Handling

\* A tag is written only by a call with a token of its owner: whatever the other
\* calls do on their connections, it is this call whose statement writes.
THEOREM OwnersWrite == TagsSpec => OnlyOwnersWrite
<1> DEFINE Write(i) ==
      i \notin Ids \/ tags'[i] # tags[i] =>
        /\ \E r \in Requests : Performs(r)
        /\ \A r \in Requests : Performs(r) => /\ req[r].cred = "valid"
                                              /\ req[r].user = tags'[i].owner
        /\ i \in Ids => /\ tags'[i].owner = tags[i].owner
                        /\ tags[i].deleted => tags'[i].deleted
<1>1. ASSUME TagsInv, [TagsNext]_tagVars, NEW i \in DOMAIN tags'
      PROVE  Write(i)
  <2>1. CASE tags' = tags
    BY <1>1, <2>1 DEF Ids
  <2>2. ASSUME NEW r \in Requests, Handle(r), tags' # tags
        PROVE  Write(i)
    <3>1. req[r].pc = "handler" /\ (LoggedIn(r) <=> req[r].cred = "valid")
      BY <1>1, <2>2, HandleEffect, Identity DEF TagsInv
    <3>2. Performs(r) /\ \A q \in Requests : Performs(q) => q = r
      BY <1>1, <2>2, OnePerforms
    <3> HIDE DEF Write
    <3>3. CASE Inserted(r)
      BY <1>1, <3>1, <3>2, <3>3 DEF Write, Inserted, TagsInv, TableOK, Ids
    <3>4. CASE Changed(r)
      BY <1>1, <3>1, <3>2, <3>4 DEF Write, Changed, TagsInv, TableOK, Ids
    <3>5. QED
      BY <1>1, <2>2, <3>3, <3>4, HandleEffect
  <2>3. QED
    BY <1>1, <2>1, <2>2 DEF TagsNext, SessionStep, tagVars
<1>2. TagsInv /\ [TagsNext]_tagVars => [\A i \in DOMAIN tags' : Write(i)]_tagVars
  BY <1>1
<1>3. QED
  BY <1>2, TagsInvHolds, PTL DEF TagsSpec, OnlyOwnersWrite

-----------------------------------------------------------------------------
(* The tags behave as TagStore says: each handler performs a call of the   *)
(* store, each step of a session is a step of the call or hidden from it.  *)

LEMMA StoreConstants ==
  /\ Store!NoReply = NoReply /\ Store!Ok = Ok /\ Store!Refused = Refused
  /\ Store!Idle = [phase |-> "idle", user |-> Nil, reply |-> NoReply]
BY DEF Store!NoReply, Store!Ok, Store!Refused, Store!Idle, NoReply, Ok, Refused

Phase(r) ==
  IF req[r].pc = "away"
  THEN IF req[r].status = "ok" THEN "answered" ELSE "idle"
  ELSE IF req[r].cred \in {"malformed", "invalid"} THEN "idle"
  ELSE IF reply[r] = NoReply THEN "called" ELSE "performed"

CallOf(r) == [phase |-> Phase(r), user |-> req[r].user, reply |-> reply[r]]

LEMMA CallsByRequest ==
  /\ Calls = [r \in Requests |-> CallOf(r)]
  /\ Calls' = [r \in Requests |-> CallOf(r)']
BY DEF Calls, CallOf, Phase

\* Steps of a single request.
LEMMA OneCall ==
  ASSUME NEW r \in Requests,
         \A q \in Requests \ {r} : CallOf(q)' = CallOf(q)
  PROVE  Calls' = [Calls EXCEPT ![r] = CallOf(r)']
BY CallsByRequest

LEMMA InitRefines == TagsInit => Store!StoreInit
<1> SUFFICES ASSUME TagsInit
             PROVE  Store!StoreInit
  OBVIOUS
<1>1. \A r \in Requests : CallOf(r) = [phase |-> "idle", user |-> Nil, reply |-> NoReply]
  BY DEF TagsInit, Init, Away, CallOf, Phase
<1>2. QED
  BY <1>1, CallsByRequest, StoreConstants DEF TagsInit, Store!StoreInit

LEMMA HandleRefines ==
  ASSUME TagsInv, NEW r \in Requests, Handle(r)
  PROVE  Store!Perform(r)
<1>1. /\ req[r].pc = "handler" /\ reply[r] = NoReply
      /\ req[r].cred \in {"none", "valid"}
      /\ UNCHANGED req
  BY DEF Handle, CreateTag, GetTags, ModifyTag, DeleteTag, Handling, Update, Has,
         TagsInv, IInv, IdentityAt
<1>2. Calls[r] = [phase |-> "called", user |-> req[r].user, reply |-> NoReply]
  BY <1>1, CallsByRequest DEF CallOf, Phase
<1>3. /\ Store!Called(r)
      /\ Store!LoggedIn(r) <=> LoggedIn(r)
      /\ Calls[r].user = req[r].user
  BY <1>2 DEF Store!Called, Store!LoggedIn, LoggedIn
<1>4. ASSUME NEW answer \in Reply, answer # NoReply, Has(r, answer)
      PROVE  Store!Performed(r, answer)
  <2>1. reply' = [reply EXCEPT ![r] = answer] /\ reply'[r] = answer
    BY <1>4 DEF Has, TagsInv, RepliesOK
  <2>2. \A q \in Requests \ {r} : CallOf(q)' = CallOf(q)
    BY <1>1, <2>1 DEF CallOf, Phase
  <2>3. CallOf(r)' = [phase |-> "performed", user |-> req[r].user, reply |-> answer]
    BY <1>1, <1>4, <2>1 DEF CallOf, Phase
  <2>4. Calls' = [Calls EXCEPT ![r] = CallOf(r)']
    BY <2>2, OneCall
  <2>5. QED
    BY <1>3, <2>3, <2>4 DEF Store!Performed
<1>5. Ok \in Reply /\ Refused \in Reply /\ Ok # NoReply /\ Refused # NoReply
  BY DEF Ok, Refused, NoReply, Reply
<1>6. \A name, but : Free(r, name, but) <=> ~Store!Taken(name, but)
  BY DEF Free, Store!Taken, Ids
<1>7. \A id : Affected(r, id) <=> Store!Owns(r, id)
  BY <1>1, <1>3, Identity DEF Affected, Store!Owns, Ids, TagsInv
<1>8. /\ MayWrite(Session(r)) <=> LoggedIn(r)
      /\ MayRead(Session(r))
      /\ Policy(Session(r), req[r].user)
  BY <1>1, Identity DEF TagsInv
<1>9. ASSUME NEW name \in Names, CreateTag(r, name)
      PROVE  Store!Create(r, name)
  <2>1. Inserts(r, name) <=> Store!LoggedIn(r) /\ ~Store!Taken(name, 0)
    BY <1>3, <1>6, <1>8 DEF Inserts
  <2>2. CASE Inserts(r, name)
    BY <1>3, <1>4, <1>5, <1>9, <2>1, <2>2, StoreConstants DEF CreateTag, Store!Create
  <2>3. CASE ~Inserts(r, name)
    BY <1>3, <1>4, <1>5, <1>9, <2>1, <2>3, StoreConstants
    DEF CreateTag, Store!Create, Store!Refuse
  <2>4. QED
    BY <2>2, <2>3
<1>10. ASSUME GetTags(r)
       PROVE  Store!List(r)
  <2> DEFINE answer == [code |-> "ok", list |-> Listed(r)]
  <2>1. Listed(r) = {i \in DOMAIN tags :
                       ~tags[i].deleted /\ tags[i].owner \in {Calls[r].user, Nil}}
    BY <1>3 DEF Listed, Ids
  <2>2. Has(r, answer) /\ UNCHANGED tags
    BY <1>8, <1>10 DEF GetTags
  <2>3. answer \in Reply /\ answer # NoReply
    <3>1. Listed(r) \subseteq Nat
      BY DEF Listed, Ids, TagsInv, TableOK
    <3>2. QED
      BY <3>1 DEF Reply, NoReply
  <2>4. Store!Performed(r, answer)
    BY <1>4, <2>2, <2>3
  <2>5. QED
    BY <1>3, <2>1, <2>2, <2>4 DEF Store!List
<1>11. ASSUME NEW id, NEW tag, Update(r, id, tag)
       PROVE  Store!Change(r, id, tag)
  BY <1>4, <1>5, <1>7, <1>11, StoreConstants DEF Update, Store!Change
<1>12. ASSUME Has(r, Refused), UNCHANGED tags
       PROVE  Store!Refuse(r)
  BY <1>4, <1>5, <1>12, StoreConstants DEF Store!Refuse
<1>13. ASSUME NEW id \in 1..MaxTags, NEW name \in Names, ModifyTag(r, id, name)
       PROVE  Store!Rename(r, id, name)
  <2>1. Updates(r, id, name) <=>
          Store!LoggedIn(r) /\ ~(Store!Owns(r, id) /\ Store!Taken(name, id))
    BY <1>3, <1>6, <1>7, <1>8 DEF Updates
  <2>2. QED
    BY <1>3, <1>11, <1>12, <1>13, <2>1 DEF ModifyTag, Store!Rename
<1>14. ASSUME NEW id \in 1..MaxTags, DeleteTag(r, id)
       PROVE  Store!Delete(r, id)
  BY <1>3, <1>8, <1>11, <1>12, <1>14 DEF DeleteTag, Store!Delete
<1>15. QED
  BY <1>9, <1>10, <1>13, <1>14 DEF Handle, Store!Perform

LEMMA SessionRefines ==
  ASSUME TagsInv, SessionStep
  PROVE  Store!StoreNext \/ UNCHANGED Store!storeVars
<1>1. UNCHANGED tags
  BY DEF SessionStep
<1>2. \A q \in Requests : reply'[q] = IF Keeps(q) THEN reply[q] ELSE NoReply
  BY DEF SessionStep
<1>3. ASSUME NEW q \in Requests, req'[q] = req[q]
      PROVE  CallOf(q)' = CallOf(q)
  BY <1>2, <1>3 DEF CallOf, Phase, Keeps
<1>4. CASE req' = req
  <2>1. Calls' = Calls
    BY <1>3, <1>4, CallsByRequest
  <2>2. QED
    BY <1>1, <2>1 DEF Store!storeVars
<1>5. ASSUME NEW r \in Requests, req'[r] # req[r],
             Arrives(r) \/ Advances(r) \/ Ends(r),
             req' = [req EXCEPT ![r] = req'[r]]
      PROVE  Store!StoreNext \/ UNCHANGED Store!storeVars
  <2>1. Calls' = [Calls EXCEPT ![r] = CallOf(r)'] /\ Calls[r] = CallOf(r)
    BY <1>3, <1>5, OneCall, CallsByRequest DEF TagsInv, IInv, TypeOK
  <2> DEFINE Nothing == [phase |-> "idle", user |-> Nil, reply |-> NoReply]
  <2>2. ASSUME CallOf(r)' = Nothing
        PROVE  Store!Lose(r) \/ UNCHANGED Store!storeVars
    <3>1. CASE Calls[r].phase # "idle"
      BY <1>1, <2>1, <2>2, <3>1, StoreConstants DEF Store!Lose
    <3>2. CASE Calls[r].phase = "idle"
      <4>1. Calls[r] = Nothing
        <5>1. req[r].pc = "away" => req[r].user = Nil
          BY DEF TagsInv, IInv, TypeOK, IdentityAt, RequestRecord
        <5>2. req[r].cred \in {"malformed", "invalid"} => req[r].user = Nil
          BY DEF TagsInv, IInv, TypeOK, RequestRecord
        <5>3. Phase(r) = "idle" => reply[r] = NoReply
          BY DEF Phase, TagsInv, RepliesOK, IInv, IdentityAt
        <5>4. QED
          BY <2>1, <3>2, <5>1, <5>2, <5>3 DEF CallOf, Phase
      <4>2. QED
        BY <1>1, <2>1, <2>2, <4>1, CallsByRequest DEF Store!storeVars
    <3>3. QED
      BY <3>1, <3>2
  <2>3. CASE Arrives(r)
    <3>1. reply'[r] = NoReply
      BY <1>2, <1>5, <2>3 DEF Arrives, Keeps
    <3>2. CASE req'[r].cred \in {"malformed", "invalid"}
      <4>1. CallOf(r)' = Nothing
        BY <2>3, <3>1, <3>2 DEF Arrives, CallOf, Phase
      <4>2. QED
        BY <2>2, <4>1 DEF Store!StoreNext
    <3>3. CASE req'[r].cred \notin {"malformed", "invalid"}
      <4>1. CallOf(r)' = [phase |-> "called", user |-> req'[r].user, reply |-> NoReply]
        BY <2>3, <3>1, <3>3 DEF Arrives, CallOf, Phase
      <4>2. Calls[r].phase \in {"idle", "answered"}
        BY <2>1, <2>3 DEF Arrives, CallOf, Phase
      <4>3. Store!Call(r, req'[r].user)
        BY <1>1, <2>1, <4>1, <4>2, StoreConstants DEF Store!Call
      <4>4. QED
        BY <2>3, <4>3 DEF Arrives, Store!StoreNext
    <3>4. QED
      BY <3>2, <3>3
  <2>4. CASE Advances(r)
    <3>1. reply[r] = NoReply /\ reply'[r] = NoReply
      BY <1>2, <2>4 DEF Advances, TagsInv, RepliesOK
    <3>2. CallOf(r)' = CallOf(r)
      BY <2>4, <3>1 DEF Advances, CallOf, Phase
    <3>3. QED
      BY <1>1, <2>1, <3>2, CallsByRequest DEF Store!storeVars
  <2>5. CASE Ends(r)
    <3>1. CASE req'[r].status = "ok"
      <4>1. req[r].pc = "handler" /\ reply[r] # NoReply
        BY <1>5, <2>5, <3>1 DEF Ends, SessionStep, Handling
      <4>2. req[r].cred \in {"none", "valid"}
        BY <4>1 DEF TagsInv, IInv, IdentityAt
      <4>3. Calls[r] = [phase |-> "performed", user |-> req[r].user, reply |-> reply[r]]
        BY <2>1, <4>1, <4>2 DEF CallOf, Phase
      <4>4. CallOf(r)' = [phase |-> "answered", user |-> Nil, reply |-> reply[r]]
        BY <1>2, <2>5, <3>1 DEF Ends, Keeps, CallOf, Phase
      <4>5. Store!Answer(r)
        BY <1>1, <2>1, <4>3, <4>4, StoreConstants DEF Store!Answer
      <4>6. QED
        BY <4>5 DEF Store!StoreNext
    <3>2. CASE req'[r].status # "ok"
      <4>1. CallOf(r)' = Nothing
        BY <1>2, <1>5, <2>5, <3>2 DEF Ends, Keeps, CallOf, Phase
      <4>2. QED
        BY <2>2, <4>1 DEF Store!StoreNext
    <3>3. QED
      BY <3>1, <3>2
  <2>6. QED
    BY <1>5, <2>3, <2>4, <2>5
<1>6. CASE \E r \in Requests : /\ Arrives(r) \/ Advances(r) \/ Ends(r)
                              /\ req' = [req EXCEPT ![r] = req'[r]]
  <2>1. PICK r \in Requests : /\ Arrives(r) \/ Advances(r) \/ Ends(r)
                             /\ req' = [req EXCEPT ![r] = req'[r]]
    BY <1>6
  <2>2. req'[r] = req[r] => req' = req
    BY <2>1 DEF TagsInv, IInv, TypeOK
  <2>3. QED
    BY <1>4, <1>5, <2>1, <2>2
<1>7. QED
  BY <1>4, <1>6, StepKinds DEF SessionStep, TagsInv

\* On pooled connections whose sessions outlive their requests, the tag routes
\* implement the table that TagStore describes.
THEOREM Refinement == TagsSpec => ImplementsTagStore
<1>1. TagsInv /\ [TagsNext]_tagVars => [Store!StoreNext]_(Store!storeVars)
  <2> SUFFICES ASSUME TagsInv, [TagsNext]_tagVars
               PROVE  Store!StoreNext \/ UNCHANGED Store!storeVars
    OBVIOUS
  <2>1. CASE SessionStep
    BY <2>1, SessionRefines
  <2>2. CASE \E r \in Requests : Handle(r)
    BY <2>2, HandleRefines DEF Store!StoreNext
  <2>3. CASE UNCHANGED tagVars
    BY <2>3 DEF tagVars, Store!storeVars, Calls
  <2>4. QED
    BY <2>1, <2>2, <2>3 DEF TagsNext
<1>2. QED
  BY <1>1, InitRefines, TagsInvHolds, PTL DEF TagsSpec, ImplementsTagStore, Store!StoreSpec

=============================================================================
