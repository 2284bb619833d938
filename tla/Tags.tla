--------------------------------- MODULE Tags ---------------------------------
(***************************************************************************)
(* The tag routes of the timekeeper (tag.rs) on the connections of         *)
(* DbSession.  A handler knows its caller from the token; the database     *)
(* knows the role and the user id of the session that the handler was      *)
(* given.  Rows are written under both, so what a caller can do to whose   *)
(* tags rests on the two being the same.  TagStore says what is promised.  *)
(***************************************************************************)
EXTENDS DbSession, Naturals, Sequences

CONSTANTS
  Names,   \* names of tags
  MaxTags  \* bound: how many tags are ever created

ASSUME TagsAssumption == MaxTags \in Nat

VARIABLES
  tags,  \* timekeeper.tag: its rows by id, of which none is ever deleted
  reply  \* of each request: what its handler has from the database

tagVars == <<conn, req, tags, reply>>

NoReply == [code |-> "none", list |-> {}]
Ok == [code |-> "ok", list |-> {}]
Refused == [code |-> "refused", list |-> {}]

Ids == DOMAIN tags

TagsInit ==
  /\ Init
  /\ tags = <<>>
  /\ reply = [r \in Requests |-> NoReply]

-----------------------------------------------------------------------------
(* Privileges and row level security, as the session has them.  The login  *)
(* role created the table and owns it: policies do not bind it.            *)

Session(r) == conn[req[r].conn]

MayWrite(s) == s.role \in {"login", "authenticated"}

\* authenticated is a member of anon.
MayRead(s) == s.role \in {"login", "authenticated", "anon"}

Policy_Anyone(s, owner) == TRUE

\* uid() = user_id, the USING and the WITH CHECK of all policies but SELECT's.
Policy(s, owner) == s.role = "login" \/ s.uid = owner

\* An UPDATE of this id touches a row.
Affected(r, id) == id \in Ids /\ Policy(Session(r), tags[id].owner)

\* name is UNIQUE in the whole table.
Free(r, name, but) == \A i \in Ids \ {but} : tags[i].name # name

-----------------------------------------------------------------------------
(* The handlers: one statement each.                                       *)

Handling(r) == req[r].pc = "handler" /\ reply[r] = NoReply

Has(r, answer) ==
  /\ reply' = [reply EXCEPT ![r] = answer]
  /\ UNCHANGED <<conn, req>>

\* db.user is Some.
LoggedIn(r) == req[r].user # Nil

Inserts(r, name) ==
  /\ LoggedIn(r)
  /\ MayWrite(Session(r)) /\ Policy(Session(r), req[r].user)
  /\ Free(r, name, 0)

CreateTag(r, name) ==
  /\ Handling(r)
  /\ \/ /\ Inserts(r, name) /\ Len(tags) < MaxTags
        /\ tags' = Append(tags, [name |-> name, owner |-> req[r].user, deleted |-> FALSE])
        /\ Has(r, Ok)
     \/ /\ ~Inserts(r, name)
        /\ Has(r, Refused)
        /\ UNCHANGED tags

Listed_All(r) == {i \in Ids : ~tags[i].deleted}

\* The policy lets everybody select everything: the filters are the query's own.
Listed(r) == {i \in Ids : ~tags[i].deleted /\ tags[i].owner \in {req[r].user, Nil}}

GetTags(r) ==
  /\ Handling(r)
  /\ Has(r, IF MayRead(Session(r)) THEN [code |-> "ok", list |-> Listed(r)] ELSE Refused)
  /\ UNCHANGED tags

\* A row that the policy hides is not updated, which is no error.
Update(r, id, tag) ==
  /\ tags' = IF Affected(r, id) THEN [tags EXCEPT ![id] = tag] ELSE tags
  /\ Has(r, Ok)

Updates(r, id, name) == MayWrite(Session(r)) /\ (Affected(r, id) => Free(r, name, id))

ModifyTag(r, id, name) ==
  /\ Handling(r)
  /\ \/ /\ Updates(r, id, name)
        /\ Update(r, id, [tags[id] EXCEPT !.name = name])
     \/ /\ ~Updates(r, id, name)
        /\ Has(r, Refused)
        /\ UNCHANGED tags

DeleteTag(r, id) ==
  /\ Handling(r)
  /\ \/ /\ MayWrite(Session(r))
        /\ Update(r, id, [tags[id] EXCEPT !.deleted = TRUE])
     \/ /\ ~MayWrite(Session(r))
        /\ Has(r, Refused)
        /\ UNCHANGED tags

Handle(r) ==
  \/ \E name \in Names : CreateTag(r, name)
  \/ GetTags(r)
  \/ \E id \in 1..MaxTags, name \in Names : ModifyTag(r, id, name)
  \/ \E id \in 1..MaxTags : DeleteTag(r, id)

Keeps(r) == req'[r].pc = "handler" \/ req'[r] = req[r] \/ req'[r].status = "ok"

\* A connection or a request takes a step of its own.  A handler answers when it
\* has the reply; one that ends before, or on its way to the client, is not heard of.
SessionStep ==
  /\ Next
  /\ \A r \in Requests : Handling(r) /\ req'[r] # req[r] => req'[r].status # "ok"
  /\ reply' = [r \in Requests |-> IF Keeps(r) THEN reply[r] ELSE NoReply]
  /\ UNCHANGED tags

TagsNext == SessionStep \/ \E r \in Requests : Handle(r)

TagsSpec == TagsInit /\ [][TagsNext]_tagVars

\* The fairness of the sessions is all: nothing is assumed of a handler.
TagsFairSpec == TagsSpec /\ Fairness

-----------------------------------------------------------------------------
(* Properties.                                                             *)

Tag == [name : Names, owner : Users \cup {Nil}, deleted : BOOLEAN]

Reply == [code : {"none", "ok", "refused"}, list : SUBSET Nat]

\* Type invariant: only users own tags, a reply lists rows that there are, and
\* only a handler or a request that was answered has one.
TagsTypeOK ==
  /\ TypeOK
  /\ tags \in Seq(Tag) /\ Len(tags) <= MaxTags
  /\ \A i \in Ids : tags[i].owner \in Users
  /\ reply \in [Requests -> Reply]
  /\ \A r \in Requests :
       /\ reply[r].list \subseteq Ids
       /\ reply[r] # NoReply =>
            \/ req[r].pc = "handler"
            \/ req[r].pc = "away" /\ req[r].status = "ok"

\* No two tags have the same name, not even two of different users or of which one
\* is deleted: whatever is created and renamed at once, a name leads to one tag.
NamesUnique == \A i, j \in Ids : tags[i].name = tags[j].name => i = j

\* The handler of r gets its reply in this step: it is the one whose statement the
\* database executes.
Performs(r) == Handling(r) /\ reply'[r] # NoReply

\* A tag changes only by the statement of a call whose token names its owner, keeps
\* that owner, and once deleted stays so; nobody creates a tag for another.
OnlyOwnersWrite ==
  [][\A i \in DOMAIN tags' :
       i \notin Ids \/ tags'[i] # tags[i] =>
         /\ \E r \in Requests : Performs(r)
         /\ \A r \in Requests : Performs(r) => /\ req[r].cred = "valid"
                                               /\ req[r].user = tags'[i].owner
         /\ i \in Ids => /\ tags'[i].owner = tags[i].owner
                         /\ tags[i].deleted => tags'[i].deleted]_tagVars

\* How a request looks to one who sees no connections: a call whose credentials
\* are not accepted is none.
Calls ==
  [r \in Requests |->
     [phase |-> IF req[r].pc = "away"
                THEN IF req[r].status = "ok" THEN "answered" ELSE "idle"
                ELSE IF req[r].cred \in {"malformed", "invalid"} THEN "idle"
                ELSE IF reply[r] = NoReply THEN "called" ELSE "performed",
      user |-> req[r].user,
      reply |-> reply[r]]]

Store == INSTANCE TagStore WITH Clients <- Requests, Nobody <- Nil, call <- Calls

\* Whatever sessions the calls of other users left on the connections, and wherever
\* calls are dropped, the tags behave as one table on which each caller acts under
\* its own name, at most once per call, and an answer says what was done.
ImplementsTagStore == Store!StoreSpec

=============================================================================
