-------------------------------- MODULE Avatar --------------------------------
(***************************************************************************)
(* The user service: one profile row per user, whose avatar_location names *)
(* an object in an S3 bucket.  put_avatar and delete_avatar read the row,  *)
(* delete the object it names and write the new location, in three awaits; *)
(* the image itself is stored by the client, through a presigned URL that  *)
(* stays valid for ten minutes whatever happens to the profile meanwhile.  *)
(* The bucket and the clients' uploads are external.                       *)
(***************************************************************************)
EXTENDS Naturals

CONSTANTS
  Users,     \* the subjects of valid access tokens
  Nil,       \* the id that stands for nobody
  Requests,  \* requests that can be in progress at the same time
  Exts,      \* file extensions: with the user id they are the path of an object
  Texts,     \* display names and biographies
  NoAvatar   \* avatar_location IS NULL

ASSUME AvatarAssumption ==
  /\ Nil \notin Users
  /\ NoAvatar \notin Exts

VARIABLES
  profiles,  \* table profiles: user id |-> row
  objects,   \* the paths under which the bucket stores an image
  urls,      \* the paths for which a client has a valid upload URL
  stray,     \* deletions sent to the bucket by requests that are gone
  req,       \* the state of each request, and after its response the response
  patient    \* history: the users who have been patient so far

vars == <<profiles, objects, urls, stray, req, patient>>

\* format!("avatars/{}.{}", user_id, file_extension)
Paths == Users \X Exts

Rows == [text : Texts, avatar : Exts \cup {NoAvatar}]

Ops == {"none", "create_profile", "get_profile", "update_profile", "put_avatar",
        "delete_avatar"}

\* "ready": nothing is outstanding; "late": the handler is gone, but its UPDATE may
\* still reach the database; otherwise the await the handler has reached.
Pcs == {"ready", "delete_url", "update_location", "late"}

Statuses == {"none", "ok", "refused", "not_found", "unprocessable", "failed"}

NoRow == [avatar |-> NoAvatar]

\* ext: the extension of the new path, none for delete_avatar; row: the profile
\* as the handler read it.
Blank(u) == [op |-> "none", pc |-> "ready", user |-> u, ext |-> NoAvatar, row |-> NoRow,
             status |-> "none"]

Init ==
  /\ profiles = [u \in {} |-> NoRow]
  /\ objects = {}
  /\ urls = {}
  /\ stray = {}
  /\ req = [r \in Requests |-> Blank(Nil)]
  /\ patient = Users

-----------------------------------------------------------------------------

Ready(r) == req[r].pc = "ready"

HasProfile(u) == u \in DOMAIN profiles

Answer(r, op, u, status) ==
  req' = [req EXCEPT ![r] = [Blank(u) EXCEPT !.op = op, !.status = status]]

\* user_id is the primary key.
CanInsert(u) == ~HasProfile(u)

CreateProfile(r, u, text) ==
  /\ Ready(r)
  /\ \/ /\ CanInsert(u)
        /\ profiles' = [v \in DOMAIN profiles \cup {u} |->
                          IF v = u THEN [text |-> text, avatar |-> NoAvatar] ELSE profiles[v]]
        /\ Answer(r, "create_profile", u, "ok")
     \/ /\ ~CanInsert(u)
        /\ Answer(r, "create_profile", u, "unprocessable")
        /\ UNCHANGED profiles
  /\ UNCHANGED <<objects, urls, stray>>

\* The download URL is computed from the location without asking the bucket.
GetProfile(r, u) ==
  /\ Ready(r)
  /\ Answer(r, "get_profile", u, IF HasProfile(u) THEN "ok" ELSE "not_found")
  /\ UNCHANGED <<profiles, objects, urls, stray>>

\* An UPDATE that matches no row is no error.
UpdateProfile(r, u, text) ==
  /\ Ready(r)
  /\ profiles' = IF HasProfile(u) THEN [profiles EXCEPT ![u].text = text] ELSE profiles
  /\ Answer(r, "update_profile", u, "ok")
  /\ UNCHANGED <<objects, urls, stray>>

AfterRead_Never(location) == "update_location"

\* There is something to delete only if the row has a location.
AfterRead(location) == IF location = NoAvatar THEN "update_location" ELSE "delete_url"

\* The call of get_user_profile with which put_avatar and delete_avatar begin.
ReadProfile(r, op, u, ext) ==
  /\ Ready(r)
  /\ IF HasProfile(u)
       THEN req' = [req EXCEPT ![r] =
                      [Blank(u) EXCEPT !.op = op, !.pc = AfterRead(profiles[u].avatar),
                                       !.ext = ext, !.row = profiles[u]]]
       ELSE Answer(r, op, u, "not_found")
  /\ UNCHANGED <<profiles, objects, urls, stray>>

PutAvatar(r, u, ext) == ReadProfile(r, "put_avatar", u, ext)
DeleteAvatar(r, u) == ReadProfile(r, "delete_avatar", u, NoAvatar)

PathToDelete_New(r) == <<req[r].user, req[r].ext>>

\* The object to delete is that of the row as it was read.
PathToDelete(r) == <<req[r].user, req[r].row.avatar>>

\* delete_url: S3's delete_object, which succeeds for a path without an object.
DeleteUrl(r) ==
  /\ req[r].pc = "delete_url"
  /\ objects' = objects \ {PathToDelete(r)}
  /\ req' = [req EXCEPT ![r].pc = "update_location"]
  /\ UNCHANGED <<profiles, urls, stray>>

WithLocation_WholeRow(r) ==
  [profiles EXCEPT ![req[r].user] = [req[r].row EXCEPT !.avatar = req[r].ext]]

\* UPDATE profiles SET avatar_location, to the new path or to NULL.
WithLocation(r) == [profiles EXCEPT ![req[r].user].avatar = req[r].ext]

\* put_avatar answers with an upload URL for the new path.
UpdateLocation(r) ==
  LET q == req[r] IN
  /\ q.pc = "update_location"
  /\ profiles' = WithLocation(r)
  /\ urls' = IF q.op = "put_avatar" THEN urls \cup {<<q.user, q.ext>>} ELSE urls
  /\ Answer(r, q.op, q.user, "ok")
  /\ UNCHANGED <<objects, stray>>

\* An anonymous caller is answered 401 before any statement.
RefuseAnonymous(r) ==
  /\ Ready(r)
  /\ Answer(r, "none", Nil, "refused")
  /\ UNCHANGED <<profiles, objects, urls, stray>>

\* The UPDATE is committed, but its confirmation or the response is lost.
LoseAnswer(r) ==
  /\ req[r].pc = "update_location"
  /\ profiles' = WithLocation(r)
  /\ Answer(r, "none", req[r].user, "failed")
  /\ UNCHANGED <<objects, urls, stray>>

\* An await fails, or the client goes away and the handler's future is dropped; a
\* deletion that was sent to the bucket may still be on its way, and so may an UPDATE
\* that was sent on the handler's connection.  A late UPDATE can be lost, too.
Abandon(r) ==
  /\ ~Ready(r)
  /\ \/ /\ \/ UNCHANGED stray
           \/ req[r].pc = "delete_url" /\ stray' = stray \cup {PathToDelete(r)}
        /\ Answer(r, "none", req[r].user, "failed")
     \/ /\ req[r].pc = "update_location"
        /\ req' = [req EXCEPT ![r].pc = "late"]
        /\ UNCHANGED stray
  /\ UNCHANGED <<profiles, objects, urls>>

\* The database executes the UPDATE of a request that is gone.
LateUpdate(r) ==
  /\ req[r].pc = "late"
  /\ profiles' = WithLocation(r)
  /\ Answer(r, "none", req[r].user, "failed")
  /\ UNCHANGED <<objects, urls, stray>>

StrayDelete(k) ==
  /\ k \in stray
  /\ objects' = objects \ {k}
  /\ stray' = stray \ {k}
  /\ UNCHANGED <<profiles, urls, req>>

\* A client sends an image to the URL it was given, possibly more than once.
Upload(k) ==
  /\ k \in urls
  /\ objects' = objects \cup {k}
  /\ UNCHANGED <<profiles, urls, stray, req>>

\* PresigningConfig::expires_in(600 s).
Expire(k) ==
  /\ k \in urls
  /\ urls' = urls \ {k}
  /\ UNCHANGED <<profiles, objects, stray, req>>

Step(r) ==
  \/ \E u \in Users, text \in Texts : CreateProfile(r, u, text)
  \/ \E u \in Users : GetProfile(r, u)
  \/ \E u \in Users, text \in Texts : UpdateProfile(r, u, text)
  \/ \E u \in Users, ext \in Exts : PutAvatar(r, u, ext)
  \/ \E u \in Users : DeleteAvatar(r, u)
  \/ DeleteUrl(r)
  \/ UpdateLocation(r)
  \/ RefuseAnonymous(r)
  \/ LoseAnswer(r)
  \/ Abandon(r)
  \/ LateUpdate(r)

Act ==
  \/ \E r \in Requests : Step(r)
  \/ \E k \in Paths : StrayDelete(k) \/ Upload(k) \/ Expire(k)

Idle(u) == \A r \in Requests : ~Ready(r) => req[r].user # u

\* A patient user, like the one of user.test.ts, has at most one request in
\* progress and uploads only between requests and only to the location the
\* profile shows.  Requests of a patient user may be dropped, but a dropped one
\* counts as in progress as long as its UPDATE is late: the user waits longer than a
\* client can know to be necessary.
Impatient(u) ==
  \/ \E r \in Requests : Ready(r) /\ ~Ready(r)' /\ req'[r].user = u /\ ~Idle(u)
  \/ \E k \in objects' \ objects : k[1] = u /\ ~(Idle(u) /\ profiles[u].avatar = k[2])

Next == Act /\ patient' = {u \in patient : ~Impatient(u)}

Spec == Init /\ [][Next]_vars

-----------------------------------------------------------------------------
(* Properties.                                                             *)

\* What the fields of a request hold at its next await.
RequestOK(q) ==
  /\ q.op \in Ops /\ q.pc \in Pcs /\ q.user \in Users \cup {Nil} /\ q.status \in Statuses
  /\ q.pc # "ready" => /\ HasProfile(q.user)
                       /\ \/ q.op = "put_avatar" /\ q.ext \in Exts
                          \/ q.op = "delete_avatar" /\ q.ext = NoAvatar
                       /\ q.row \in Rows
  /\ q.pc = "delete_url" => q.row.avatar \in Exts

\* Type invariant: what handlers delete, hand out and store are paths of users
\* that have a profile.
TypeOK ==
  /\ DOMAIN profiles \subseteq Users
  /\ \A u \in DOMAIN profiles : profiles[u] \in Rows
  /\ \A keys \in {objects, urls, stray} :
       keys \subseteq Paths /\ \A k \in keys : HasProfile(k[1])
  /\ DOMAIN req = Requests
  /\ \A r \in Requests : RequestOK(req[r])
  /\ patient \subseteq Users

\* Request r answers op to u with success in this step.
Answers(r, op, u) ==
  /\ req'[r] # req[r] /\ req'[r].pc = "ready"
  /\ req'[r].op = op /\ req'[r].user = u /\ req'[r].status = "ok"

\* put_avatar and delete_avatar read a whole row and write to it two awaits
\* later.  They never write back what they read: a name or biography changes
\* only in the statement of an update_profile of its user, and once created a
\* profile stays.
NoLostUpdate ==
  [][\A u \in DOMAIN profiles :
       /\ u \in DOMAIN profiles'
       /\ profiles'[u].text # profiles[u].text =>
            \E r \in Requests, text \in Texts : UpdateProfile(r, u, text)]_vars

\* The bucket stores nothing of a patient user but the object that the user's
\* profile names, at every moment, whatever other users do and wherever the user's
\* requests are dropped, if the user sends and uploads nothing before the UPDATE of
\* a dropped one has taken effect or is lost: the location is overwritten only after
\* its object was deleted.
NoOrphan ==
  \A k \in objects : k[1] \in patient => profiles[k[1]].avatar = k[2]

\* A delete_avatar of a patient user that succeeds leaves no object of the user
\* in the bucket and no location in the profile.
DeleteLeavesNothing ==
  [][\A r \in Requests, u \in patient : Answers(r, "delete_avatar", u) =>
       /\ profiles'[u].avatar = NoAvatar
       /\ \A k \in objects' : k[1] # u]_vars

-----------------------------------------------------------------------------
(* What the documentation of the service says and the code does not do.    *)

\* lib.rs:231 of the schema: delete_avatar deletes the avatar of the profile from
\* wherever it is stored; so the object the profile names until its location is
\* reset is no longer stored.
DeleteRemovesAvatar ==
  [][\A r \in Requests, u \in Users : Answers(r, "delete_avatar", u) =>
       <<u, profiles[u].avatar>> \notin objects']_vars

=============================================================================
