---------------------------- MODULE Avatar_proofs ----------------------------
(***************************************************************************)
(* Proofs about Avatar, for any users, requests, extensions and texts.     *)
(***************************************************************************)
EXTENDS Avatar, TLAPS

USE DEF Ops, Pcs, Statuses, Paths

-----------------------------------------------------------------------------
(* Type correctness.                                                       *)

\* The rest of TypeOK, without the requests.
TablesOK ==
  /\ DOMAIN profiles \subseteq Users
  /\ \A u \in DOMAIN profiles : profiles[u] \in Rows
  /\ \A keys \in {objects, urls, stray} :
       keys \subseteq Paths /\ \A k \in keys : HasProfile(k[1])

\* A step that keeps every profile and touches the state of one request is
\* type correct if the tables and that request are.
LEMMA OneRequest ==
  ASSUME TypeOK, DOMAIN profiles \subseteq DOMAIN profiles', TablesOK', patient' \subseteq Users,
         NEW r \in Requests, NEW q,
         req' = [req EXCEPT ![r] = q], RequestOK(q)'
  PROVE  TypeOK'
<1>1. DOMAIN req' = Requests
  BY DEF TypeOK
<1>2. ASSUME NEW p \in Requests
      PROVE  RequestOK(req[p])'
  <2>1. CASE p = r
    BY <2>1 DEF TypeOK
  <2>2. CASE p # r
    <3>1. req'[p] = req[p] /\ RequestOK(req[p])
      BY <2>2 DEF TypeOK
    <3>2. QED
      BY <3>1 DEF RequestOK, HasProfile
  <2>3. QED
    BY <2>1, <2>2
<1>3. QED
  BY <1>1, <1>2 DEF TypeOK, TablesOK

\* A response is well typed in every state.
LEMMA AnswerOK ==
  ASSUME NEW op \in Ops, NEW u \in Users \cup {Nil}, NEW status \in Statuses
  PROVE  RequestOK([Blank(u) EXCEPT !.op = op, !.status = status])'
  BY DEF RequestOK, Blank, NoRow

\* The response of a request, which is all that its state then holds.
LEMMA AnswerIs ==
  ASSUME TypeOK, NEW r \in Requests, NEW op, NEW u, NEW status, Answer(r, op, u, status)
  PROVE  /\ req'[r].op = op /\ req'[r].user = u /\ req'[r].status = status
         /\ req'[r].pc = "ready"
         /\ \A q \in Requests \ {r} : req'[q] = req[q]
<1>1. req'[r] = [Blank(u) EXCEPT !.op = op, !.status = status]
  BY DEF Answer, TypeOK
<1>2. QED
  BY <1>1 DEF Answer, TypeOK, Blank

LEMMA InitTypeOK == Init => TypeOK
<1> SUFFICES ASSUME Init PROVE TypeOK
  OBVIOUS
<1>1. RequestOK(Blank(Nil))
  BY DEF RequestOK, Blank
<1>2. QED
  BY <1>1 DEF Init, TypeOK

\* A new location changes one field of one row.
LEMMA WithLocationOK ==
  ASSUME TypeOK, NEW r \in Requests, req[r].pc # "ready"
  PROVE  /\ req[r].user \in DOMAIN profiles
         /\ DOMAIN WithLocation(r) = DOMAIN profiles
         /\ \A u \in DOMAIN profiles :
              /\ WithLocation(r)[u] \in Rows
              /\ WithLocation(r)[u].text = profiles[u].text
              /\ u # req[r].user => WithLocation(r)[u] = profiles[u]
         /\ WithLocation(r)[req[r].user].avatar = req[r].ext
<1>1. RequestOK(req[r])
  BY DEF TypeOK
<1>2. req[r].user \in DOMAIN profiles /\ req[r].ext \in Exts \cup {NoAvatar}
  BY <1>1 DEF RequestOK, HasProfile
<1>3. \A u \in DOMAIN profiles : profiles[u] \in Rows
  BY DEF TypeOK
<1>4. QED
  BY <1>2, <1>3 DEF WithLocation, Rows

LEMMA NextTypeOK == TypeOK /\ [Next]_vars => TypeOK'
<1> SUFFICES ASSUME TypeOK, [Next]_vars
             PROVE  TypeOK'
  OBVIOUS
<1>0. TablesOK /\ patient' \subseteq Users
  BY DEF TypeOK, TablesOK, Next, vars
<1>1. ASSUME NEW r \in Requests, NEW u \in Users, NEW text \in Texts, CreateProfile(r, u, text)
      PROVE  TypeOK'
  <2>1. DOMAIN profiles \subseteq DOMAIN profiles' /\ TablesOK'
    BY <1>0, <1>1 DEF CreateProfile, TablesOK, Rows, HasProfile
  <2>2. \/ Answer(r, "create_profile", u, "ok")
        \/ Answer(r, "create_profile", u, "unprocessable")
    BY <1>1 DEF CreateProfile
  <2>3. QED
    BY <1>0, <2>1, <2>2, OneRequest, AnswerOK DEF Answer
<1>2. ASSUME NEW r \in Requests, NEW u \in Users, GetProfile(r, u)
      PROVE  TypeOK'
  <2>1. DOMAIN profiles \subseteq DOMAIN profiles' /\ TablesOK'
    BY <1>0, <1>2 DEF GetProfile, TablesOK, HasProfile
  <2>2. \/ Answer(r, "get_profile", u, "ok")
        \/ Answer(r, "get_profile", u, "not_found")
    BY <1>2 DEF GetProfile
  <2>3. QED
    BY <1>0, <2>1, <2>2, OneRequest, AnswerOK DEF Answer
<1>3. ASSUME NEW r \in Requests, NEW u \in Users, NEW text \in Texts, UpdateProfile(r, u, text)
      PROVE  TypeOK'
  <2>1. DOMAIN profiles \subseteq DOMAIN profiles' /\ TablesOK'
    BY <1>0, <1>3 DEF UpdateProfile, TablesOK, Rows, HasProfile
  <2>2. Answer(r, "update_profile", u, "ok")
    BY <1>3 DEF UpdateProfile
  <2>3. QED
    BY <1>0, <2>1, <2>2, OneRequest, AnswerOK DEF Answer
<1>4. ASSUME NEW r \in Requests, NEW u \in Users, NEW op, NEW ext,
             \/ op = "put_avatar" /\ ext \in Exts
             \/ op = "delete_avatar" /\ ext = NoAvatar,
             ReadProfile(r, op, u, ext)
      PROVE  TypeOK'
  <2>1. DOMAIN profiles \subseteq DOMAIN profiles' /\ TablesOK'
    BY <1>0, <1>4 DEF ReadProfile, TablesOK, HasProfile
  <2>2. CASE HasProfile(u)
    <3> DEFINE q == [Blank(u) EXCEPT !.op = op, !.pc = AfterRead(profiles[u].avatar),
                                     !.ext = ext, !.row = profiles[u]]
    <3>1. req' = [req EXCEPT ![r] = q] /\ profiles' = profiles
      BY <1>4, <2>2 DEF ReadProfile
    <3>2. profiles[u] \in Rows
      BY <2>2 DEF TypeOK, HasProfile
    <3>3. RequestOK(q)'
      BY <1>4, <2>2, <3>1, <3>2 DEF RequestOK, Blank, AfterRead, Rows, HasProfile
    <3>4. QED
      BY <1>0, <2>1, <3>1, <3>3, OneRequest
  <2>3. CASE ~HasProfile(u)
    BY <1>0, <1>4, <2>1, <2>3, OneRequest, AnswerOK DEF ReadProfile, Answer
  <2>4. QED
    BY <2>2, <2>3
<1>5. ASSUME NEW r \in Requests, DeleteUrl(r)
      PROVE  TypeOK'
  <2>1. DOMAIN profiles \subseteq DOMAIN profiles' /\ TablesOK'
    BY <1>0, <1>5 DEF DeleteUrl, TablesOK, HasProfile
  <2>2. RequestOK(req[r])
    BY DEF TypeOK
  <2>3. req' = [req EXCEPT ![r] = [req[r] EXCEPT !.pc = "update_location"]]
    BY <1>5 DEF DeleteUrl
  <2> DEFINE q == [req[r] EXCEPT !.pc = "update_location"]
  <2>4. RequestOK(q)'
    BY <1>5, <2>2 DEF DeleteUrl, RequestOK, HasProfile
  <2>5. QED
    BY <1>0, <2>1, <2>3, <2>4, OneRequest
<1>6. ASSUME NEW r \in Requests, UpdateLocation(r)
      PROVE  TypeOK'
  <2>1. req[r].pc # "ready" /\ RequestOK(req[r])
    BY <1>6 DEF UpdateLocation, TypeOK
  <2>2. DOMAIN profiles \subseteq DOMAIN profiles' /\ TablesOK'
    BY <1>0, <1>6, <2>1, WithLocationOK DEF UpdateLocation, TablesOK, HasProfile, RequestOK
  <2>3. Answer(r, req[r].op, req[r].user, "ok")
    BY <1>6 DEF UpdateLocation
  <2>4. req[r].op \in Ops /\ req[r].user \in Users \cup {Nil}
    BY <2>1 DEF RequestOK
  <2>5. QED
    BY <1>0, <2>2, <2>3, <2>4, OneRequest, AnswerOK DEF Answer
<1>7. ASSUME NEW r \in Requests, RefuseAnonymous(r)
      PROVE  TypeOK'
  <2>1. DOMAIN profiles \subseteq DOMAIN profiles' /\ TablesOK'
    BY <1>0, <1>7 DEF RefuseAnonymous, TablesOK, HasProfile
  <2>2. QED
    BY <1>0, <1>7, <2>1, OneRequest, AnswerOK DEF RefuseAnonymous, Answer
<1>8. ASSUME NEW r \in Requests, LoseAnswer(r)
      PROVE  TypeOK'
  <2>1. req[r].pc # "ready" /\ RequestOK(req[r])
    BY <1>8 DEF LoseAnswer, TypeOK
  <2>2. DOMAIN profiles \subseteq DOMAIN profiles' /\ TablesOK'
    BY <1>0, <1>8, <2>1, WithLocationOK DEF LoseAnswer, TablesOK, HasProfile
  <2>3. req[r].user \in Users \cup {Nil}
    BY <2>1 DEF RequestOK
  <2>4. QED
    BY <1>0, <1>8, <2>2, <2>3, OneRequest, AnswerOK DEF LoseAnswer, Answer
<1>9. ASSUME NEW r \in Requests, Abandon(r)
      PROVE  TypeOK'
  <2>1. RequestOK(req[r])
    BY DEF TypeOK
  <2>2. DOMAIN profiles \subseteq DOMAIN profiles' /\ TablesOK'
    <3>1. req[r].pc = "delete_url" => PathToDelete(r) \in Paths /\ HasProfile(PathToDelete(r)[1])
      BY <1>0, <2>1 DEF RequestOK, PathToDelete, HasProfile, TablesOK
    <3>2. QED
      BY <1>0, <1>9, <3>1 DEF Abandon, TablesOK, HasProfile
  <2>3. req[r].user \in Users \cup {Nil}
    BY <2>1 DEF RequestOK
  <2>4. CASE Answer(r, "none", req[r].user, "failed")
    BY <1>0, <2>2, <2>3, <2>4, OneRequest, AnswerOK DEF Answer
  <2>5. CASE req[r].pc = "update_location" /\ req' = [req EXCEPT ![r].pc = "late"]
    <3> DEFINE q == [req[r] EXCEPT !.pc = "late"]
    <3>1. RequestOK(q)'
      BY <1>9, <2>1, <2>5 DEF Abandon, RequestOK, HasProfile
    <3>2. req' = [req EXCEPT ![r] = q]
      BY <2>5
    <3>3. QED
      BY <1>0, <2>2, <3>1, <3>2, OneRequest
  <2>6. QED
    BY <1>9, <2>4, <2>5 DEF Abandon
<1>14. ASSUME NEW r \in Requests, LateUpdate(r)
       PROVE  TypeOK'
  <2>1. req[r].pc # "ready" /\ RequestOK(req[r])
    BY <1>14 DEF LateUpdate, TypeOK
  <2>2. DOMAIN profiles \subseteq DOMAIN profiles' /\ TablesOK'
    BY <1>0, <1>14, <2>1, WithLocationOK DEF LateUpdate, TablesOK, HasProfile
  <2>3. req[r].user \in Users \cup {Nil}
    BY <2>1 DEF RequestOK
  <2>4. QED
    BY <1>0, <1>14, <2>2, <2>3, OneRequest, AnswerOK DEF LateUpdate, Answer
<1>10. ASSUME NEW k \in Paths, StrayDelete(k) \/ Upload(k) \/ Expire(k)
       PROVE  TypeOK'
  <2>1. TablesOK' /\ UNCHANGED <<profiles, req>>
    BY <1>0, <1>10 DEF StrayDelete, Upload, Expire, TablesOK, HasProfile
  <2>2. QED
    BY <1>0, <2>1 DEF TypeOK, TablesOK, RequestOK, HasProfile
<1>11. CASE UNCHANGED vars
  BY <1>11 DEF vars, TypeOK, RequestOK, HasProfile
<1>12. ASSUME NEW r \in Requests, Step(r)
       PROVE  TypeOK'
  <2>1. ASSUME NEW u \in Users, NEW ext \in Exts, PutAvatar(r, u, ext)
        PROVE  TypeOK'
    <3>1. ReadProfile(r, "put_avatar", u, ext)
      BY <2>1 DEF PutAvatar
    <3>2. QED
      BY <1>4, <3>1
  <2>2. ASSUME NEW u \in Users, DeleteAvatar(r, u)
        PROVE  TypeOK'
    <3>1. ReadProfile(r, "delete_avatar", u, NoAvatar)
      BY <2>2 DEF DeleteAvatar
    <3>2. QED
      BY <1>4, <3>1
  <2>3. QED
    BY <1>1, <1>2, <1>3, <1>5, <1>6, <1>7, <1>8, <1>9, <1>14, <1>12, <2>1, <2>2 DEF Step
<1>13. QED
  BY <1>10, <1>11, <1>12 DEF Next, Act

\* Type correctness: a request between two awaits has a profile to write to,
\* and whatever is deleted, handed out or stored is a path of a user with a
\* profile.
THEOREM TypeCorrect == Spec => []TypeOK
<1>1. QED
  BY InitTypeOK, NextTypeOK, PTL DEF Spec

-----------------------------------------------------------------------------
(* What handlers write, whatever interleaves.                              *)

\* No handler writes back the row it read: profiles stay, and a name or a
\* biography changes only in an update_profile of its user.
THEOREM ProfileTextIsSafe == Spec => NoLostUpdate
<1> DEFINE Kept(u) == u \in DOMAIN profiles' /\ profiles'[u].text = profiles[u].text
           Updated(u) == \E r \in Requests, text \in Texts : UpdateProfile(r, u, text)
<1>1. ASSUME TypeOK, [Next]_vars, NEW u \in DOMAIN profiles
      PROVE  u \in DOMAIN profiles' /\ (profiles'[u].text # profiles[u].text => Updated(u))
  <2>1. ASSUME NEW r \in Requests, NEW v \in Users, NEW text \in Texts,
               CreateProfile(r, v, text)
        PROVE  Kept(u)
    BY <1>1, <2>1 DEF CreateProfile, CanInsert, HasProfile
  <2>2. ASSUME NEW r \in Requests, NEW v \in Users, NEW text \in Texts,
               UpdateProfile(r, v, text)
        PROVE  Kept(u) \/ (u \in DOMAIN profiles' /\ Updated(u))
    <3>1. CASE v = u
      <4>1. Updated(u)
        BY <2>2, <3>1
      <4>2. u \in DOMAIN profiles'
        BY <1>1, <2>2, <3>1 DEF UpdateProfile, HasProfile
      <4>3. QED
        BY <4>1, <4>2
    <3>2. CASE v # u
      BY <2>2, <3>2 DEF UpdateProfile, HasProfile
    <3>3. QED
      BY <3>1, <3>2
  <2>3. ASSUME NEW r \in Requests, UpdateLocation(r) \/ LoseAnswer(r) \/ LateUpdate(r)
        PROVE  Kept(u)
    <3>1. req[r].pc # "ready" /\ profiles' = WithLocation(r)
      BY <2>3 DEF UpdateLocation, LoseAnswer, LateUpdate
    <3>2. QED
      BY <1>1, <3>1, WithLocationOK
  <2>4. CASE UNCHANGED profiles
    BY <2>4
  <2>5. QED
    BY <1>1, <2>1, <2>2, <2>3, <2>4
    DEF Next, Act, Step, vars, GetProfile, PutAvatar, DeleteAvatar, ReadProfile, DeleteUrl,
        RefuseAnonymous, Abandon, StrayDelete, Upload, Expire
<1>2. TypeOK /\ [Next]_vars =>
        [\A u \in DOMAIN profiles :
           /\ u \in DOMAIN profiles'
           /\ profiles'[u].text # profiles[u].text =>
                \E r \in Requests, text \in Texts : UpdateProfile(r, u, text)]_vars
  BY <1>1
<1>3. QED
  BY <1>2, TypeCorrect, PTL DEF Spec, NoLostUpdate

-----------------------------------------------------------------------------
(* Patient users.                                                          *)

\* Request r is in progress for a patient user, or gone with its UPDATE still to come.
Waiting(r) == ~Ready(r) /\ req[r].user \in patient

\* A patient user has one request in progress at most.
OneAtATime ==
  \A p, q \in Requests : Waiting(p) /\ Waiting(q) /\ req[p].user = req[q].user => p = q

\* The location such a request has read is still that of the profile.
ReadIsFresh ==
  \A r \in Requests : Waiting(r) => req[r].row.avatar = profiles[req[r].user].avatar

\* A request that is about to write a location has left nothing to delete.
Emptied ==
  \A r \in Requests : Waiting(r) /\ req[r].pc \in {"update_location", "late"} =>
    \A k \in objects : k[1] # req[r].user

\* NoOrphan is not inductive alone: that the location may be overwritten rests on
\* what the request that overwrites it read and deleted before.
IInv == TypeOK /\ OneAtATime /\ ReadIsFresh /\ Emptied /\ NoOrphan

LEMMA InitIInv == Init => IInv
<1> SUFFICES ASSUME Init PROVE IInv
  OBVIOUS
<1>1. objects = {} /\ \A r \in Requests : ~Waiting(r)
  BY DEF Init, Blank, Waiting, Ready
<1>2. QED
  BY <1>1, InitTypeOK DEF IInv, OneAtATime, ReadIsFresh, Emptied, NoOrphan

\* A request that ends, or was not begun, and a step that only removes objects
\* disturb nothing.
LEMMA EndsOrNothing ==
  ASSUME IInv, TypeOK', objects' \subseteq objects, patient' \subseteq patient,
         \A u \in DOMAIN profiles :
           u \in DOMAIN profiles' /\ profiles'[u].avatar = profiles[u].avatar,
         \A r \in Requests : req'[r] = req[r] \/ req'[r].pc = "ready"
  PROVE  IInv'
<1>1. \A r \in Requests : Waiting(r)' =>
         req'[r] = req[r] /\ Waiting(r) /\ req[r].user \in DOMAIN profiles
  BY DEF IInv, TypeOK, Waiting, Ready, RequestOK, HasProfile
<1>2. OneAtATime' /\ ReadIsFresh'
  BY <1>1 DEF IInv, OneAtATime, ReadIsFresh
<1>3. Emptied'
  BY <1>1 DEF IInv, Emptied
<1>4. NoOrphan'
  BY DEF IInv, NoOrphan, TypeOK, HasProfile
<1>5. QED
  BY <1>2, <1>3, <1>4 DEF IInv

\* The new location is written when nothing of the user is stored.
LEMMA LocationWritten ==
  ASSUME IInv, TypeOK', NEW r \in Requests, req[r].pc \in {"update_location", "late"},
         profiles' = WithLocation(r), objects' = objects, patient' \subseteq patient,
         req'[r].pc = "ready", \A q \in Requests \ {r} : req'[q] = req[q]
  PROVE  IInv'
<1>1. ~Ready(r) /\ req[r].pc # "ready"
  BY DEF Ready
<1>2. \A u \in DOMAIN profiles : u # req[r].user =>
         u \in DOMAIN profiles' /\ profiles'[u].avatar = profiles[u].avatar
  BY <1>1, WithLocationOK DEF IInv
<1>3. \A q \in Requests : Waiting(q)' =>
         /\ req'[q] = req[q] /\ Waiting(q) /\ req[q].user # req[r].user
         /\ req[q].user \in DOMAIN profiles
  BY <1>1 DEF IInv, OneAtATime, TypeOK, Waiting, Ready, RequestOK, HasProfile
<1>4. OneAtATime' /\ ReadIsFresh'
  BY <1>2, <1>3 DEF IInv, OneAtATime, ReadIsFresh
<1>5. Emptied'
  BY <1>3 DEF IInv, Emptied
<1>6. NoOrphan'
  <2>1. \A k \in objects : k[1] \in patient => k[1] # req[r].user /\ k[1] \in DOMAIN profiles
    BY <1>1 DEF IInv, Emptied, Waiting, TypeOK, HasProfile
  <2>2. QED
    BY <1>2, <2>1 DEF IInv, NoOrphan
<1>7. QED
  BY <1>4, <1>5, <1>6 DEF IInv

LEMMA NextIInv == IInv /\ [Next]_vars => IInv'
<1> SUFFICES ASSUME IInv, [Next]_vars
             PROVE  IInv'
  OBVIOUS
<1>0. TypeOK /\ TypeOK' /\ patient' \subseteq patient
  BY NextTypeOK DEF IInv, Next, vars
<1>1. ASSUME NEW r \in Requests, NEW u \in Users, NEW op, NEW status,
             Answer(r, op, u, status) \/ Answer(r, op, Nil, status)
      PROVE  \A q \in Requests : req'[q] = req[q] \/ req'[q].pc = "ready"
  BY <1>0, <1>1 DEF Answer, Blank, TypeOK
<1>2. ASSUME NEW r \in Requests, NEW u \in Users, NEW text,
             CreateProfile(r, u, text) \/ UpdateProfile(r, u, text) \/ GetProfile(r, u)
      PROVE  IInv'
  <2>1. \A v \in DOMAIN profiles :
          v \in DOMAIN profiles' /\ profiles'[v].avatar = profiles[v].avatar
    BY <1>0, <1>2 DEF CreateProfile, UpdateProfile, GetProfile, CanInsert, HasProfile, TypeOK, Rows
  <2>2. objects' = objects
    BY <1>2 DEF CreateProfile, UpdateProfile, GetProfile
  <2>3. \E op, status : Answer(r, op, u, status)
    BY <1>2 DEF CreateProfile, UpdateProfile, GetProfile
  <2>4. QED
    BY <1>0, <1>1, <2>1, <2>2, <2>3, EndsOrNothing
<1>3. ASSUME NEW r \in Requests, NEW u \in Users, NEW op, NEW ext,
             Next, ReadProfile(r, op, u, ext)
      PROVE  IInv'
  <2>1. CASE ~HasProfile(u)
    BY <1>0, <1>1, <1>3, <2>1, EndsOrNothing DEF ReadProfile
  <2>2. CASE HasProfile(u)
    <3> DEFINE q == [Blank(u) EXCEPT !.op = op, !.pc = AfterRead(profiles[u].avatar),
                                     !.ext = ext, !.row = profiles[u]]
    <3>1. req' = [req EXCEPT ![r] = q] /\ UNCHANGED <<profiles, objects>> /\ Ready(r)
      BY <1>3, <2>2 DEF ReadProfile
    <3>2. req'[r] = q /\ \A p \in Requests \ {r} : req'[p] = req[p]
      BY <1>0, <3>1 DEF TypeOK
    <3>3. /\ q.user = u /\ q.row = profiles[u]
          /\ q.pc = AfterRead(profiles[u].avatar) /\ q.pc # "ready"
      BY DEF Blank, AfterRead
    <3> HIDE DEF q
    <3>4. u \in patient' => Idle(u)
      BY <1>3, <3>1, <3>2, <3>3 DEF Next, Impatient, Ready
    <3>5. OneAtATime'
      <4>1. \A p \in Requests \ {r} : Waiting(p)' => Waiting(p) /\ req'[p].user # u
        BY <1>0, <3>2, <3>4 DEF Waiting, Ready, Idle
      <4>2. QED
        BY <3>2, <3>3, <4>1 DEF IInv, OneAtATime
    <3>6. ReadIsFresh'
      BY <1>0, <3>1, <3>2, <3>3 DEF IInv, ReadIsFresh, Waiting, Ready
    <3>7. Emptied'
      <4>1. q.pc \in {"update_location", "late"} /\ u \in patient =>
              \A k \in objects : k[1] # u
        BY <1>0, <3>3, AvatarAssumption DEF AfterRead, IInv, NoOrphan, TypeOK
      <4>2. QED
        BY <1>0, <3>1, <3>2, <3>3, <4>1 DEF IInv, Emptied, Waiting, Ready
    <3>8. NoOrphan'
      BY <1>0, <3>1 DEF IInv, NoOrphan
    <3>9. QED
      BY <1>0, <3>5, <3>6, <3>7, <3>8 DEF IInv
  <2>3. QED
    BY <2>1, <2>2
<1>4. ASSUME NEW r \in Requests, DeleteUrl(r)
      PROVE  IInv'
  <2>1. req'[r] = [req[r] EXCEPT !.pc = "update_location"]
        /\ \A p \in Requests \ {r} : req'[p] = req[p]
    BY <1>0, <1>4 DEF DeleteUrl, TypeOK
  <2>2. \A p \in Requests : Waiting(p)' =>
          /\ Waiting(p) /\ req'[p].user = req[p].user /\ req'[p].row = req[p].row
    BY <1>0, <1>4, <2>1 DEF DeleteUrl, Waiting, Ready, TypeOK, RequestOK
  <2>3. UNCHANGED profiles /\ objects' = objects \ {PathToDelete(r)}
    BY <1>4 DEF DeleteUrl
  <2>4. OneAtATime' /\ ReadIsFresh' /\ NoOrphan'
    BY <1>0, <2>2, <2>3 DEF IInv, OneAtATime, ReadIsFresh, NoOrphan
  <2>5. Emptied'
    <3>0. req[r].pc = "delete_url"
      BY <1>4 DEF DeleteUrl
    <3>1. req[r].user \in patient => PathToDelete(r) = <<req[r].user, profiles[req[r].user].avatar>>
      BY <1>4 DEF DeleteUrl, PathToDelete, IInv, ReadIsFresh, Waiting, Ready
    <3>2. req[r].user \in patient => \A k \in objects' : k[1] # req[r].user
      BY <1>0, <2>3, <3>1 DEF IInv, NoOrphan, TypeOK
    <3>3. QED
      BY <1>0, <2>1, <2>2, <2>3, <3>2 DEF IInv, Emptied, Waiting
  <2>6. QED
    BY <1>0, <2>4, <2>5 DEF IInv
<1>5. ASSUME NEW r \in Requests, UpdateLocation(r) \/ LoseAnswer(r) \/ LateUpdate(r)
      PROVE  IInv'
  <2>1. /\ req[r].pc \in {"update_location", "late"} /\ profiles' = WithLocation(r)
        /\ objects' = objects /\ \E op, u, status : Answer(r, op, u, status)
    BY <1>5 DEF UpdateLocation, LoseAnswer, LateUpdate
  <2>2. req'[r].pc = "ready" /\ \A q \in Requests \ {r} : req'[q] = req[q]
    BY <1>0, <2>1 DEF Answer, Blank, TypeOK
  <2>3. QED
    BY <1>0, <2>1, <2>2, LocationWritten
<1>6. ASSUME NEW r \in Requests, RefuseAnonymous(r) \/ Abandon(r)
      PROVE  IInv'
  <2>1. UNCHANGED <<profiles, objects>>
    BY <1>6 DEF RefuseAnonymous, Abandon
  <2>2. CASE \E op, u, status : Answer(r, op, u, status)
    <3>1. \A q \in Requests : req'[q] = req[q] \/ req'[q].pc = "ready"
      BY <1>0, <2>2 DEF Answer, Blank, TypeOK
    <3>2. QED
      BY <1>0, <2>1, <3>1, EndsOrNothing
  <2>3. CASE req[r].pc = "update_location" /\ req' = [req EXCEPT ![r].pc = "late"]
    <3>1. \A p \in Requests : Waiting(p)' =>
            /\ Waiting(p) /\ req'[p].user = req[p].user /\ req'[p].row = req[p].row
            /\ req'[p].pc = "late" => req[p].pc \in {"update_location", "late"}
            /\ req'[p].pc = "update_location" => req[p].pc = "update_location"
      BY <1>0, <2>3 DEF Waiting, Ready, TypeOK, RequestOK
    <3>2. OneAtATime' /\ ReadIsFresh' /\ NoOrphan'
      BY <1>0, <2>1, <3>1 DEF IInv, OneAtATime, ReadIsFresh, NoOrphan
    <3>3. Emptied'
      BY <1>0, <2>1, <3>1 DEF IInv, Emptied
    <3>4. QED
      BY <1>0, <3>2, <3>3 DEF IInv
  <2>4. QED
    BY <1>6, <2>2, <2>3 DEF RefuseAnonymous, Abandon
<1>7. ASSUME NEW k \in Paths, Next, Upload(k)
      PROVE  IInv'
  <2>1. CASE k \in objects
    <3>1. objects' = objects /\ UNCHANGED <<profiles, req>>
      BY <1>7, <2>1 DEF Upload
    <3>2. QED
      BY <1>0, <3>1, EndsOrNothing
  <2>2. CASE k \notin objects
    <3>1. objects' = objects \cup {k} /\ UNCHANGED <<profiles, req>>
      BY <1>7 DEF Upload
    <3>2. k[1] \in patient' => Idle(k[1]) /\ profiles[k[1]].avatar = k[2]
      BY <1>7, <2>2, <3>1 DEF Next, Impatient
    <3>3. OneAtATime' /\ ReadIsFresh' /\ NoOrphan'
      BY <1>0, <3>1, <3>2 DEF IInv, OneAtATime, ReadIsFresh, NoOrphan, Waiting, Ready
    <3>4. Emptied'
      BY <1>0, <3>1, <3>2 DEF IInv, Emptied, Idle, Waiting, Ready
    <3>5. QED
      BY <1>0, <3>3, <3>4 DEF IInv
  <2>3. QED
    BY <2>1, <2>2
<1>8. ASSUME NEW k \in Paths, StrayDelete(k) \/ Expire(k)
      PROVE  IInv'
  <2>1. objects' \subseteq objects /\ UNCHANGED <<profiles, req>>
    BY <1>8 DEF StrayDelete, Expire
  <2>2. QED
    BY <1>0, <2>1, EndsOrNothing
<1>9. CASE UNCHANGED vars
  BY <1>0, <1>9, EndsOrNothing DEF vars
<1>10. ASSUME NEW r \in Requests, Next, Step(r)
       PROVE  IInv'
  <2>1. ASSUME NEW u \in Users, NEW op, NEW ext, ReadProfile(r, op, u, ext)
        PROVE  IInv'
    BY <1>3, <1>10, <2>1
  <2>2. ASSUME NEW u \in Users, \/ DeleteAvatar(r, u)
                               \/ \E ext \in Exts : PutAvatar(r, u, ext)
        PROVE  IInv'
    BY <2>1, <2>2 DEF PutAvatar, DeleteAvatar
  <2>3. QED
    BY <1>2, <1>4, <1>5, <1>6, <1>10, <2>2 DEF Step
<1>11. QED
  BY <1>7, <1>8, <1>9, <1>10 DEF Next, Act

LEMMA PatientInvariant == Spec => []IInv
<1>1. QED
  BY InitIInv, NextIInv, PTL DEF Spec

\* Users who have one request in progress at a time, counting a dropped one until its
\* UPDATE has reached the database or is lost, and who upload an image only between
\* requests never leave one behind that their profile does not name, at whichever
\* await a request is dropped and whatever other users do.
THEOREM PatientLeavesNoOrphan == Spec => []NoOrphan
<1>1. IInv => NoOrphan
  BY DEF IInv
<1>2. QED
  BY <1>1, PatientInvariant, PTL

\* And when such a user's delete_avatar succeeds, nothing of the user is stored.
THEOREM PatientDeletes == Spec => DeleteLeavesNothing
<1>1. ASSUME IInv, [Next]_vars, NEW r \in Requests, NEW u \in patient,
             Answers(r, "delete_avatar", u)
      PROVE  profiles'[u].avatar = NoAvatar /\ \A k \in objects' : k[1] # u
  <2>1. TypeOK /\ req'[r] # req[r] /\ req'[r].pc = "ready" /\ req'[r].status = "ok"
        /\ req'[r].op = "delete_avatar" /\ req'[r].user = u
    BY <1>1 DEF IInv, Answers
  <2>2. ASSUME NEW q \in Requests, NEW op, NEW v, NEW status, Answer(q, op, v, status)
        PROVE  q = r /\ op = "delete_avatar" /\ v = u /\ status = "ok"
    BY <2>1, <2>2, AnswerIs
  <2>3. ASSUME NEW q \in Requests, UpdateLocation(q)
        PROVE  profiles'[u].avatar = NoAvatar /\ \A k \in objects' : k[1] # u
    <3>1. /\ req[q].pc = "update_location" /\ profiles' = WithLocation(q) /\ objects' = objects
          /\ Answer(q, req[q].op, req[q].user, "ok")
      BY <2>3 DEF UpdateLocation
    <3>2. req[q].op = "delete_avatar" /\ req[q].user = u
      BY <2>2, <3>1
    <3>3. RequestOK(req[q]) /\ req[q].pc # "ready"
      BY <2>1, <3>1 DEF TypeOK
    <3>4. req[q].ext = NoAvatar
      BY <3>2, <3>3 DEF RequestOK
    <3>5. WithLocation(q)[u].avatar = NoAvatar
      BY <2>1, <3>2, <3>3, <3>4, WithLocationOK
    <3>6. \A k \in objects : k[1] # u
      BY <1>1, <3>1, <3>2 DEF IInv, Emptied, Waiting, Ready
    <3>7. QED
      BY <3>1, <3>5, <3>6
  <2>4. ASSUME NEW q \in Requests, NEW v, NEW op, NEW ext, ReadProfile(q, op, v, ext)
        PROVE  FALSE
    <3>1. CASE HasProfile(v)
      <4>1. req' = [req EXCEPT ![q] = [Blank(v) EXCEPT !.op = op,
                      !.pc = AfterRead(profiles[v].avatar), !.ext = ext, !.row = profiles[v]]]
        BY <2>4, <3>1 DEF ReadProfile
      <4>2. q = r /\ req'[r].pc = AfterRead(profiles[v].avatar)
        BY <2>1, <4>1 DEF TypeOK, Blank
      <4>3. QED
        BY <2>1, <4>2 DEF AfterRead
    <3>2. CASE ~HasProfile(v)
      BY <2>2, <2>4, <3>2 DEF ReadProfile
    <3>3. QED
      BY <3>1, <3>2
  <2>5. ASSUME NEW q \in Requests, DeleteUrl(q)
        PROVE  FALSE
    <3>1. RequestOK(req[q]) /\ req' = [req EXCEPT ![q].pc = "update_location"]
      BY <2>1, <2>5 DEF TypeOK, DeleteUrl
    <3>2. q = r /\ req'[q].pc = "update_location"
      BY <2>1, <2>5, <3>1 DEF TypeOK, RequestOK, DeleteUrl
    <3>3. QED
      BY <2>1, <3>2
  <2>6. ASSUME NEW q \in Requests, NEW v \in Users, NEW text \in Texts,
               CreateProfile(q, v, text) \/ UpdateProfile(q, v, text)
        PROVE  FALSE
    BY <2>2, <2>6 DEF CreateProfile, UpdateProfile
  <2>7. ASSUME NEW q \in Requests,
               RefuseAnonymous(q) \/ LoseAnswer(q) \/ Abandon(q) \/ LateUpdate(q)
        PROVE  FALSE
    <3>1. CASE \E op, v, status : Answer(q, op, v, status) /\ op # "delete_avatar"
      BY <2>2, <3>1
    <3>2. CASE req[q].pc = "update_location" /\ req' = [req EXCEPT ![q].pc = "late"]
      <4>1. RequestOK(req[q]) /\ req'[q].pc = "late" /\ \A p \in Requests \ {q} : req'[p] = req[p]
        BY <2>1, <3>2 DEF TypeOK, RequestOK
      <4>2. QED
        BY <2>1, <4>1
    <3>3. QED
      BY <2>7, <3>1, <3>2 DEF RefuseAnonymous, LoseAnswer, Abandon, LateUpdate
  <2>8. ASSUME NEW q \in Requests, NEW v \in Users, GetProfile(q, v)
        PROVE  FALSE
    BY <2>2, <2>8 DEF GetProfile
  <2>9. CASE \E q \in Requests : Step(q)
    BY <2>3, <2>4, <2>5, <2>6, <2>7, <2>8, <2>9 DEF Step, PutAvatar, DeleteAvatar
  <2>10. CASE UNCHANGED req
    BY <2>1, <2>10
  <2>11. QED
    BY <1>1, <2>9, <2>10 DEF Next, Act, vars, StrayDelete, Upload, Expire
<1>2. IInv /\ [Next]_vars =>
        [\A r \in Requests, u \in patient : Answers(r, "delete_avatar", u) =>
           /\ profiles'[u].avatar = NoAvatar
           /\ \A k \in objects' : k[1] # u]_vars
  BY <1>1
<1>3. QED
  BY <1>2, PatientInvariant, PTL DEF Spec, DeleteLeavesNothing

=============================================================================
