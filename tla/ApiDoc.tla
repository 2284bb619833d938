-------------------------------- MODULE ApiDoc --------------------------------
(***************************************************************************)
(* The API description of the two services beside what they do: the routes *)
(* as the schema crates declare them, as IntoPath describes them, and as   *)
(* Api answers them.                                                       *)
(***************************************************************************)
EXTENDS Api, IntoPath

Route(fn, method, path, tag, responses, security, fields) ==
  [fn |-> fn, fields |-> fields,
   attrs |-> << << <<method>>, <<"path", path>>, <<"tag", tag>>, <<"responses", responses>>,
                   <<"security", security>> >> >>]

Field(name, type, mark, items) ==
  [name |-> name, type |-> type, attrs |-> << [mark |-> mark, items |-> items] >>]

Body(type) == Field("body", type, "body", <<>>)
Id == Field("id", "i32", "param", << <<"Path">> >>)

Bearer == << <<"bearer_jwt", <<>> >> >>
BearerOnly == << Bearer >>
BearerOrNothing == << Bearer, <<>> >>

TimeSplitPath == "/timekeeper/time-split"
TimeSplitIdPath == "/timekeeper/time-split/{id}"
TimeSplitTag == "Time split"
TimerPath == "/timekeeper/timer"
TagPath == "/timekeeper/tag"
TagIdPath == "/timekeeper/tag/{id}"
ProfilePath == "/user/profile"
AvatarPath == "/user/profile/avatar"

TimeSplitRoutes ==
  {Route("create_time_split", "post", TimeSplitPath, TimeSplitTag, "TimeSplitResponses", BearerOnly,
         << Body("InsertablePackagedTimeSplit") >>),
   Route("get_time_splits", "get", TimeSplitPath, TimeSplitTag, "TimeSplitArrayResponses", BearerOrNothing, <<>>),
   Route("modify_time_split", "put", TimeSplitIdPath, TimeSplitTag, "TimeSplitVoidResponses", BearerOnly,
         << Body("InsertableTimeSplit"), Id >>),
   Route("delete_time_split", "delete", TimeSplitIdPath, TimeSplitTag, "TimeSplitVoidResponses", BearerOnly,
         << Id >>)}

TimerRoutes ==
  {Route("post_timer", "post", TimerPath, "Timer", "TimerResponses", BearerOnly, << Body("InsertableTimer") >>),
   Route("get_timers", "get", TimerPath, "Timer", "TimerArrayResponses", BearerOrNothing, <<>>),
   Route("modify_timer", "put", TimerPath, "Timer", "TimerResponses", BearerOnly, << Body("InsertableTimer") >>)}

TagRoutes ==
  {Route("create_tag", "post", TagPath, "Tag", "TagIDResponses", BearerOnly, << Body("InsertableTag") >>),
   Route("get_tags", "get", TagPath, "Tag", "TagArrayResponses", BearerOrNothing, <<>>),
   Route("modify_tag", "put", TagIdPath, "Tag", "TimekeeperVoidResponses", BearerOnly,
         << Body("InsertableTag"), Id >>),
   Route("delete_tag", "delete", TagIdPath, "Tag", "TimekeeperVoidResponses", BearerOnly, << Id >>)}

ProfileRoutes ==
  {Route("create_profile", "post", ProfilePath, "Profile", "UserSchemaResponsesVoid", BearerOnly,
         << Body("InsertableUserProfile") >>),
   Route("get_profile", "get", ProfilePath, "Profile", "UserSchemaUserProfileResponse", BearerOnly, <<>>),
   Route("update_profile", "put", ProfilePath, "Profile", "UserSchemaResponsesVoid", BearerOnly,
         << Body("UserProfileChangeset") >>),
   Route("put_avatar", "put", AvatarPath, "Profile", "UserSchemaResponsesUrl", BearerOnly,
         << Body("PutAvatarQuery") >>),
   Route("delete_avatar", "delete", AvatarPath, "Profile", "UserSchemaResponsesVoid", BearerOnly, <<>>)}

Routes == TimeSplitRoutes \cup TimerRoutes \cup TagRoutes \cup ProfileRoutes

-----------------------------------------------------------------------------
(* The responses: what is answered with status 200.  All of them describe  *)
(* 4XX and 5XX alike, by EyreErrorWrapper.                                 *)

Success(responses, body, content) == [responses |-> responses, body |-> body, content |-> content]

Json == "application/json"

TimeSplitResponses ==
  {Success("TimeSplitVoidResponses", "unit", Json),
   Success("TimeSplitArrayResponses", "PackagedTimeSplits", Json),
   Success("TimeSplitResponses", "PackagedTimeSplit", Json)}

TimerResponses ==
  {Success("TimerArrayResponses", "Timers", Json), Success("TimerResponses", "Timer", Json)}

TagResponses ==
  {Success("TagArrayResponses", "Tags", Json), Success("TagIDResponses", "TagID", Json)}

TimekeeperResponses == {Success("TimekeeperVoidResponses", "unit", Json)}

UserResponses ==
  {Success("UserSchemaResponsesVoid", "unit", Json),
   Success("UserSchemaResponsesUrl", "UserAvatarPutUrl", "text/plain"),
   Success("UserSchemaUserProfileResponse", "UserProfile", Json)}

Responses ==
  TimeSplitResponses \cup TimerResponses \cup TagResponses \cup TimekeeperResponses \cup UserResponses

-----------------------------------------------------------------------------
(* The description that a service builds when it starts, and again for     *)
(* every request for it.                                                   *)

\* routes!, of the timekeeper and of the user service.
TimekeeperPaths == {implementor_of(r.fn, r) : r \in TimeSplitRoutes \cup TimerRoutes \cup TagRoutes}
UserPaths == {implementor_of(r.fn, r) : r \in ProfileRoutes}

\* fill_in_openapi.
SecuritySchemes == {"bearer_jwt"}

Described(fn) == (CHOOSE p \in TimekeeperPaths \cup UserPaths : p.id = fn).operation

SuccessOf(p) == CHOOSE s \in Responses : s.responses = p.responses

-----------------------------------------------------------------------------
(* Properties.                                                             *)

\* Whoever is answered 200 has identified himself in a way that the description of
\* the route offers, and no caller that the description lets in without a token is
\* asked to log in: the handlers, of which only some check for a login, the
\* privileges in the database and the descriptions, in three crates, agree.
SecurityAsDescribed ==
  answer.route # "none" =>
    LET offered == Described(answer.route).securities
        used == IF answer.user = Nil THEN {} ELSE {"bearer_jwt"}
    IN
    /\ answer.cause = "done" => used \in offered
    /\ answer.cause = "login" => {} \notin offered

\* What a handler that answers has extracted from the request and what it returns
\* are of the types that are described for its route, and what it returns is the
\* JSON that is described; but for put_avatar, which is described as text/plain
\* (lib.rs:130 of the user schema) and answers JSON.
TypesAsDescribed ==
  answer.cause = "done" /\ answer.route # "none" =>
    LET h == CHOOSE x \in Handlers : x.route = answer.route
        p == Described(answer.route)
        bodies == [i \in DOMAIN p.body |-> p.body[i].type]
    IN
    /\ h.takes = (IF p.parameters = {} THEN <<>> ELSE <<"i32">>) \o bodies
    /\ \A x \in p.parameters : x.type = "i32" /\ x.in = "Path"
    /\ h.returns = SuccessOf(p).body
    /\ h.returns # "unit" => SuccessOf(p).content = Json \/ answer.route = "put_avatar"
    /\ \A i \in DOMAIN bodies : bodies[i] \in p.schemas.named
    /\ p.responses \in p.schemas.entered

=============================================================================
