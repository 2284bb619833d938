------------------------------- MODULE TagStore -------------------------------
(***************************************************************************)
(* What the tag routes promise: a table of tags on which each call takes   *)
(* effect at once and at most once, as the caller that its token names.    *)
(* There are no connections, no sessions and no policies here: a caller    *)
(* changes its own tags and reads its own and the default ones.            *)
(***************************************************************************)
EXTENDS Naturals, Sequences

CONSTANTS
  Clients,  \* callers, one call each at a time
  Users,    \* who may be logged in
  Nobody,   \* in the place of a user: not logged in; the owner of default tags
  Names,    \* names of tags
  MaxTags   \* bound: how many tags are ever created

VARIABLES
  tags,  \* the tags by their ids; none is ever removed
  call   \* of each client: who it is, how far its call has come, its reply

storeVars == <<tags, call>>

NoReply == [code |-> "none", list |-> {}]
Ok == [code |-> "ok", list |-> {}]
Refused == [code |-> "refused", list |-> {}]

Idle == [phase |-> "idle", user |-> Nobody, reply |-> NoReply]

StoreInit ==
  /\ tags = <<>>
  /\ call = [c \in Clients |-> Idle]

Called(c) == call[c].phase = "called"

Performed(c, reply) ==
  call' = [call EXCEPT ![c] = [phase |-> "performed", user |-> call[c].user, reply |-> reply]]

Call(c, user) ==
  /\ call[c].phase \in {"idle", "answered"}
  /\ call' = [call EXCEPT ![c] = [phase |-> "called", user |-> user, reply |-> NoReply]]
  /\ UNCHANGED tags

LoggedIn(c) == call[c].user # Nobody

Owns(c, id) == id \in DOMAIN tags /\ tags[id].owner = call[c].user

\* Another tag has the name, whoever owns it and deleted or not.
Taken(name, but) == \E i \in DOMAIN tags \ {but} : tags[i].name = name

Refuse(c) == Performed(c, Refused) /\ UNCHANGED tags

Create(c, name) ==
  /\ Called(c)
  /\ IF LoggedIn(c) /\ ~Taken(name, 0)
     THEN /\ Len(tags) < MaxTags
          /\ tags' = Append(tags, [name |-> name, owner |-> call[c].user, deleted |-> FALSE])
          /\ Performed(c, Ok)
     ELSE Refuse(c)

List(c) ==
  /\ Called(c)
  /\ Performed(c, [code |-> "ok",
                   list |-> {i \in DOMAIN tags :
                               ~tags[i].deleted /\ tags[i].owner \in {call[c].user, Nobody}}])
  /\ UNCHANGED tags

\* A tag of somebody else is left alone, and that is not said.
Change(c, id, tag) ==
  /\ tags' = IF Owns(c, id) THEN [tags EXCEPT ![id] = tag] ELSE tags
  /\ Performed(c, Ok)

Rename(c, id, name) ==
  /\ Called(c)
  /\ IF LoggedIn(c) /\ ~(Owns(c, id) /\ Taken(name, id))
     THEN Change(c, id, [tags[id] EXCEPT !.name = name])
     ELSE Refuse(c)

Delete(c, id) ==
  /\ Called(c)
  /\ IF LoggedIn(c) THEN Change(c, id, [tags[id] EXCEPT !.deleted = TRUE]) ELSE Refuse(c)

Perform(c) ==
  \/ \E name \in Names : Create(c, name)
  \/ List(c)
  \/ \E id \in 1..MaxTags, name \in Names : Rename(c, id, name)
  \/ \E id \in 1..MaxTags : Delete(c, id)

\* The client learns of the outcome only if the call was performed.
Answer(c) ==
  /\ call[c].phase = "performed"
  /\ call' = [call EXCEPT ![c] =
                [phase |-> "answered", user |-> Nobody, reply |-> call[c].reply]]
  /\ UNCHANGED tags

\* The call ends without an answer, performed or not, or its answer is past.
Lose(c) ==
  /\ call[c].phase # "idle"
  /\ call' = [call EXCEPT ![c] = Idle]
  /\ UNCHANGED tags

StoreNext ==
  \E c \in Clients :
    \/ \E user \in Users \cup {Nobody} : Call(c, user)
    \/ Perform(c)
    \/ Answer(c)
    \/ Lose(c)

StoreSpec == StoreInit /\ [][StoreNext]_storeVars

=============================================================================
