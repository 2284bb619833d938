---------------------------------- MODULE Api ----------------------------------
(***************************************************************************)
(* The routes of the timekeeper and the user service as a client sees      *)
(* them: who is let in, which status an answer has, and what becomes of    *)
(* the lengths and times that are sent when they are stored and read back. *)
(* A call is one step here; how the statements of calls interleave is the  *)
(* subject of Timekeeper, Tags and Avatar.  Every build profile has        *)
(* panic = "abort": a handler that panics ends its service, with the calls *)
(* that others have in flight, until the container starts it again.        *)
(*                                                                         *)
(* A split has at most one timer.  A start time is on the wire a number of *)
(* microseconds since the Unix epoch.                                      *)
(***************************************************************************)
EXTENDS PgTypes, Sequences, FiniteSets

CONSTANTS
  Users,     \* the subjects of valid access tokens
  Nil,       \* the id of an anonymous caller, who owns the seeded rows
  Lengths,   \* the lengths that clients send
  Starts,    \* the start times that clients send
  PgEpoch,   \* microseconds from the Unix epoch to PostgreSQL's
  Seeded,    \* the length of the timer of the seeded split
  MaxSplits, \* bound: rows of time_split
  MaxRows    \* bound: rows of timesheet

ASSUME ApiAssumption ==
  /\ Nil \notin Users
  /\ \A x \in Lengths \cup {Seeded} : IsSpan(x)
  /\ LengthReadable(LengthToSql(Seeded))
  /\ PgEpoch \in Nat /\ Starts \subseteq Int
  /\ \A w \in Starts : (w - PgEpoch) * NanoPerUsec \in MinTime..MaxTime

VARIABLES
  splits,  \* time_split and time_split_timer; `sent' is history: the length as sent
  sheet,   \* timesheet: primary key |-> NoRow or the timer; `sent' is history
  answer,  \* the answer to the last call
  service  \* whether the timekeeper runs

vars == <<splits, sheet, answer, service>>

Callers == Users \cup {Nil}

-----------------------------------------------------------------------------
(* The handlers.  login: an anonymous caller is answered 401; writes: the  *)
(* statements need a privilege that the role anon does not have; faults:   *)
(* the statuses with which failing statements are answered.                *)

Handler(route, login, writes, faults, takes, returns) ==
  [route |-> route, login |-> login, writes |-> writes, faults |-> faults,
   takes |-> takes, returns |-> returns]

TimeSplitHandlers_ListNeedsLogin ==
  {Handler("create_time_split", TRUE, TRUE, {422}, <<"InsertablePackagedTimeSplit">>, "PackagedTimeSplit"),
   Handler("get_time_splits", TRUE, FALSE, {500}, <<>>, "PackagedTimeSplits"),
   Handler("modify_time_split", FALSE, TRUE, {422}, <<"i32", "InsertableTimeSplit">>, "unit"),
   Handler("delete_time_split", FALSE, TRUE, {500}, <<"i32">>, "unit")}

TimeSplitHandlers ==
  {Handler("create_time_split", TRUE, TRUE, {422}, <<"InsertablePackagedTimeSplit">>, "PackagedTimeSplit"),
   Handler("get_time_splits", FALSE, FALSE, {500}, <<>>, "PackagedTimeSplits"),
   Handler("modify_time_split", FALSE, TRUE, {422}, <<"i32", "InsertableTimeSplit">>, "unit"),
   Handler("delete_time_split", FALSE, TRUE, {500}, <<"i32">>, "unit")}

TimerHandlers ==
  {Handler("post_timer", TRUE, TRUE, {500, 404, 422}, <<"InsertableTimer">>, "Timer"),
   Handler("get_timers", FALSE, FALSE, {500}, <<>>, "Timers"),
   Handler("modify_timer", TRUE, TRUE, {500, 404, 422}, <<"InsertableTimer">>, "Timer")}

TagHandlers ==
  {Handler("create_tag", TRUE, TRUE, {422}, <<"InsertableTag">>, "TagID"),
   Handler("get_tags", FALSE, FALSE, {500}, <<>>, "Tags"),
   Handler("modify_tag", FALSE, TRUE, {422}, <<"i32", "InsertableTag">>, "unit"),
   Handler("delete_tag", FALSE, TRUE, {422}, <<"i32">>, "unit")}

\* delete_url: that of the S3 service, if it has answered.
UrlFaults == {400, 403, 500, 503}

ProfileHandlers ==
  {Handler("create_profile", TRUE, TRUE, {422}, <<"InsertableUserProfile">>, "unit"),
   Handler("get_profile", TRUE, FALSE, {422, 404}, <<>>, "UserProfile"),
   Handler("put_avatar", TRUE, TRUE, {422, 404} \cup UrlFaults, <<"PutAvatarQuery">>, "UserAvatarPutUrl"),
   Handler("delete_avatar", TRUE, TRUE, {422, 404} \cup UrlFaults, <<>>, "unit"),
   Handler("update_profile", TRUE, TRUE, {422}, <<"UserProfileChangeset">>, "unit")}

TimekeeperHandlers == TimeSplitHandlers \cup TimerHandlers \cup TagHandlers

Handlers == TimekeeperHandlers \cup ProfileHandlers

-----------------------------------------------------------------------------
(* Answers.  What ends a call: "done", the session that cannot be          *)
(* established, a request that cannot be extracted, the missing login, a   *)
(* statement that fails or finds nothing, its own panic, another's panic   *)
(* that cuts it off, or a service that is down.                            *)

Causes == {"done", "session", "request", "login", "statement", "panic", "cut", "down"}

NoAnswer == [route |-> "none", user |-> Nil, status |-> 0, cause |-> "done", value |-> <<>>]

AtTimekeeper(route) == \E h \in TimekeeperHandlers : h.route = route

Ends(route, u, status, cause, value) ==
  answer' = [route |-> route, user |-> u, status |-> status, cause |-> cause, value |-> value]

Answer(route, u, status, cause, value) ==
  /\ AtTimekeeper(route) => service = "up"
  /\ Ends(route, u, status, cause, value)
  /\ UNCHANGED service

\* The connection closes and the service has answered nothing; what the gateway
\* makes of that is its own affair.
Unanswered(route, u, cause) == Ends(route, u, 0, cause, <<>>)

Done(route, u, value) == Answer(route, u, 200, "done", value)

\* The process is aborted: CatchPanicLayer has nothing to catch, and PanicHandler
\* does not run.
Panicked(route, u) ==
  /\ service = "up"
  /\ Unanswered(route, u, "panic")
  /\ service' = "down"

\* with_status_code.
Failed(route, u, status) == Answer(route, u, status, "statement", <<>>)

\* The status of ErrorKind: a token that does not decode, or all else.
SessionStatuses == {401, 500}

\* A request that axum's Path and Json extractors reject: 400, 413, 415 or 422.
RequestStatus == 400

-----------------------------------------------------------------------------
(* Lengths and times on their way to the client.                           *)

\* serde_jiff_timestamp, and a Timestamp relative to pg_epoch_timestamp.
FromWire(w) == (w - PgEpoch) * NanoPerUsec
ToWire(t) == Quot(t + PgEpoch * NanoPerUsec, NanoPerUsec)

NoRow == [split |-> 0, sent |-> 0]

Row(owner, sent, timer) ==
  [owner |-> owner, sent |-> sent, stored |-> LengthToSql(sent), timer |-> timer, deleted |-> FALSE]

\* The splits that get_time_splits selects, and the timer of one of them.
ListableBy_Everybody(u) == {s \in DOMAIN splits : ~splits[s].deleted}

ListableBy(u) == {s \in DOMAIN splits : ~splits[s].deleted /\ splits[s].owner = u}

Live(s) == splits[s].timer = "live"

ListingOf(u) ==
  [s \in ListableBy(u) |-> IF Live(s) THEN <<LengthFromSql(splits[s].stored)>> ELSE <<>>]

\* The keys of the rows that get_timers may return.
Stored == {TimeToSql(FromWire(w)) : w \in Starts}
Keys == Users \X Stored

VisibleRows(u) ==
  {k \in Keys : sheet[k] # NoRow /\ Live(sheet[k].split) /\ (u \in Users => k[1] = u)}

Newest(rows) == {k \in rows : \A l \in rows : l[2] <= k[2]}

Init ==
  /\ splits = <<Row(Nil, Seeded, "live")>>
  /\ sheet = [k \in Keys |-> NoRow]
  /\ answer = NoAnswer
  /\ service = "up"

-----------------------------------------------------------------------------
(* Calls that do not get to their statements.                              *)

\* The first extractor of every handler: DatabaseConnection.
RefuseSession(h) ==
  /\ \E status \in SessionStatuses : Answer(h.route, Nil, status, "session", <<>>)
  /\ UNCHANGED <<splits, sheet>>

\* The other extractors.
RefuseRequest(h, u) ==
  /\ h.takes # <<>>
  /\ Answer(h.route, u, RequestStatus, "request", <<>>)
  /\ UNCHANGED <<splits, sheet>>

AskForLogin(h) ==
  /\ h.login
  /\ Answer(h.route, Nil, 401, "login", <<>>)
  /\ UNCHANGED <<splits, sheet>>

\* The first statement fails: for an anonymous caller it does where it writes.
Fail(h, u) ==
  /\ h.login => u \in Users
  /\ \E status \in h.faults : Failed(h.route, u, status)
  /\ UNCHANGED <<splits, sheet>>

-----------------------------------------------------------------------------
(* Time splits.                                                            *)

\* All the rows are committed when the handler reads the lengths it returns.
CreateTimeSplit(u, sent) ==
  /\ Len(splits) < MaxSplits
  /\ splits' = Append(splits, Row(u, sent, "live"))
  /\ IF LengthReadable(LengthToSql(sent))
       THEN Done("create_time_split", u, <<LengthFromSql(LengthToSql(sent))>>)
       ELSE Panicked("create_time_split", u)
  /\ UNCHANGED sheet

\* The second statement of create_time_split fails, or there are no timers.
CreateWithoutTimers(u) ==
  /\ Len(splits) < MaxSplits
  /\ splits' = Append(splits, Row(u, NoLength, "none"))
  /\ \/ Done("create_time_split", u, <<>>)
     \/ Failed("create_time_split", u, 422)
  /\ UNCHANGED sheet

\* A single length that cannot be read fails the listing.
ReadsAll(u) == \A s \in ListableBy(u) : Live(s) => LengthReadable(splits[s].stored)

GetTimeSplits(u) ==
  /\ IF ReadsAll(u)
       THEN Done("get_time_splits", u, ListingOf(u))
       ELSE Panicked("get_time_splits", u)
  /\ UNCHANGED <<splits, sheet>>

\* The id of a split of another owner, or of none, deletes nothing.
DeleteTimeSplit(u, s) ==
  /\ splits' = IF splits[s].owner = u
                 THEN [splits EXCEPT ![s].deleted = TRUE,
                                     ![s].timer = IF @ = "live" THEN "deleted" ELSE @]
                 ELSE splits
  /\ Done("delete_time_split", u, <<>>)
  /\ UNCHANGED sheet

\* The second statement of delete_time_split fails.
DeleteTimersOnly(u, s) ==
  /\ splits[s].owner = u
  /\ splits' = [splits EXCEPT ![s].timer = IF @ = "live" THEN "deleted" ELSE @]
  /\ Failed("delete_time_split", u, 500)
  /\ UNCHANGED sheet

-----------------------------------------------------------------------------
(* The timesheet.                                                          *)

\* A timer that is deleted is answered 404, a second row for a start time 422,
\* and the answer of a call that succeeds is its own request.
PostTimer(u, s, w) ==
  LET k == <<u, TimeToSql(FromWire(w))>> IN
  /\ Live(s) /\ sheet[k] = NoRow
  /\ Cardinality({l \in Keys : sheet[l] # NoRow}) < MaxRows
  /\ sheet' = [sheet EXCEPT ![k] = [split |-> s, sent |-> w]]
  /\ Done("post_timer", u, <<w>>)
  /\ UNCHANGED splits

ModifyTimer_AllRows(u, s, w) ==
  /\ Live(s)
  /\ sheet' = [k \in Keys |-> IF k[1] # u \/ sheet[k] = NoRow THEN sheet[k]
                             ELSE [split |-> s, sent |-> w]]
  /\ Done("modify_timer", u, <<w>>)
  /\ UNCHANGED splits

ModifyTimer(u, s, w) ==
  LET k == <<u, TimeToSql(FromWire(w))>> IN
  /\ Live(s)
  /\ sheet' = IF sheet[k] = NoRow THEN sheet ELSE [sheet EXCEPT ![k] = [split |-> s, sent |-> w]]
  /\ Done("modify_timer", u, <<w>>)
  /\ UNCHANGED splits

GetTimers(u) ==
  /\ \/ /\ VisibleRows(u) = {}
        /\ Done("get_timers", u, <<>>)
     \/ \E k \in Newest(VisibleRows(u)) :
          IF TimeReadable(k[2]) THEN Done("get_timers", u, <<ToWire(TimeFromSql(k[2]))>>)
                                ELSE Panicked("get_timers", u)
  /\ UNCHANGED <<splits, sheet>>

-----------------------------------------------------------------------------

\* The routes whose rows are not modelled here.
OtherRoutes == {"modify_time_split"} \cup {h.route : h \in TagHandlers \cup ProfileHandlers}

Other(h, u) ==
  /\ h.route \in OtherRoutes
  /\ h.login \/ h.writes => u \in Users
  /\ Done(h.route, u, <<>>)
  /\ UNCHANGED <<splits, sheet>>

\* The service is down, or goes down before it answers because another's call panics,
\* whatever this one has done by then.  The other one adds a split, or lists those that
\* he had when the listing read them.
Unreachable(h, u) ==
  /\ h \in TimekeeperHandlers /\ service = "down"
  /\ Unanswered(h.route, u, "down")
  /\ UNCHANGED <<splits, sheet, service>>

CutOff ==
  /\ AtTimekeeper(answer.route) /\ service = "up" /\ answer.cause \notin {"panic", "cut", "down"}
  /\ Unanswered(answer.route, answer.user, "cut")
  /\ service' = "down"
  /\ \/ (\E s \in DOMAIN splits : ~LengthReadable(splits[s].stored)) /\ UNCHANGED splits
     \/ \E u \in Users, sent \in Lengths :
          /\ Len(splits) < MaxSplits /\ ~LengthReadable(LengthToSql(sent))
          /\ splits' = Append(splits, Row(u, sent, "live"))
  /\ UNCHANGED sheet

\* restart: unless-stopped.
Restart ==
  /\ service = "down"
  /\ service' = "up"
  /\ UNCHANGED <<splits, sheet, answer>>

Serve ==
  \/ \E h \in Handlers : RefuseSession(h) \/ AskForLogin(h)
  \/ \E h \in Handlers, u \in Callers : RefuseRequest(h, u) \/ Fail(h, u) \/ Other(h, u) \/ Unreachable(h, u)
  \/ \E u \in Users :
       \/ \E sent \in Lengths : CreateTimeSplit(u, sent)
       \/ CreateWithoutTimers(u)
       \/ \E s \in DOMAIN splits : DeleteTimeSplit(u, s) \/ DeleteTimersOnly(u, s)
       \/ \E s \in DOMAIN splits, w \in Starts : PostTimer(u, s, w) \/ ModifyTimer(u, s, w)
  \/ \E u \in Callers : GetTimeSplits(u) \/ GetTimers(u)

\* The client has read the answer.
Read ==
  /\ answer # NoAnswer
  /\ answer' = NoAnswer
  /\ UNCHANGED <<splits, sheet, service>>

Next == (answer = NoAnswer /\ Serve) \/ CutOff \/ Restart \/ Read

Spec == Init /\ [][Next]_vars

-----------------------------------------------------------------------------
(* Properties.                                                             *)

SplitRow ==
  [owner : Callers, sent : Lengths \cup {Seeded, NoLength}, stored : [StoredUnits -> Int],
   timer : {"live", "deleted", "none"}, deleted : BOOLEAN]

\* Type invariant: a stored length is the image of the one that was sent, and a
\* timesheet row is found under the image of its start time.
TypeOK ==
  /\ splits \in Seq(SplitRow)
  /\ \A s \in DOMAIN splits : splits[s].stored = LengthToSql(splits[s].sent)
  /\ DOMAIN sheet = Keys
  /\ \A k \in Keys : sheet[k] # NoRow =>
       /\ sheet[k].split \in DOMAIN splits /\ sheet[k].sent \in Starts
       /\ k[2] = TimeToSql(FromWire(sheet[k].sent))
  /\ answer.user \in Callers /\ answer.cause \in Causes
  /\ service \in {"up", "down"}

\* What a length amounts to, apart from its nanoseconds.
Months(x) == 12 * x.years + x.months
Days(x) == 7 * x.weeks + x.days
Micros(x) ==
  x.hours * UsecPer.hours + x.minutes * UsecPer.minutes + x.seconds * UsecPer.seconds
    + x.millis * UsecPer.millis + x.micros

Amount(x) == <<Months(x), Days(x), Micros(x)>>

Answered(route) == answer.route = route /\ answer.cause = "done"

\* A listing has all the splits of its caller that are not deleted, and the length
\* under each is as long as the one that was sent, in whatever units it was
\* sent and up to its nanoseconds; so is the length that create answers with.
ListedAsSent ==
  /\ Answered("get_time_splits") =>
       /\ DOMAIN answer.value = ListableBy(answer.user)
       /\ \A s \in DOMAIN answer.value :
            IF Live(s) THEN /\ Len(answer.value[s]) = 1
                            /\ Amount(answer.value[s][1]) = Amount(splits[s].sent)
                       ELSE answer.value[s] = <<>>
  /\ Answered("create_time_split") /\ answer.value # <<>> =>
       Amount(answer.value[1]) = Amount(splits[Len(splits)].sent)

\* One of the sums that a length is stored as is too much for a single unit.
TooLong(x) ==
  \/ Months(x) \notin -LimitOf.months..LimitOf.months
  \/ Days(x) \notin -LimitOf.days..LimitOf.days
  \/ Micros(x) \notin -LimitOf.micros..LimitOf.micros

\* Whose fault an abort can be: of those who have stored a length that is too long,
\* deleted since or not.
Culprits == {splits[s].owner : s \in {t \in DOMAIN splits : TooLong(splits[t].sent)}}

\* The service goes down, and calls go unanswered, only once some user has stored an
\* overlong length, and a call that panics is such a user's own.  Nobody brings it
\* down with a start time, without a login, or by listing what another has stored.
AbortsOverLongLengths ==
  /\ service = "down" \/ answer.cause \in {"panic", "cut", "down"} => Culprits # {}
  /\ answer.cause = "panic" => answer.user \in Culprits \cap Users

\* A panic is answered: status 500, and the service goes on for everybody else, as
\* CatchPanicLayer and PanicHandler would have it.  It is not: panic = "abort".
PanicIsAnswered == answer.cause = "panic" => answer.status = 500 /\ service = "up"

\* get_timers compares stored times and answers with one of them: it is the latest
\* of the start times that were posted for timers that are still there, as posted.
LatestAsPosted ==
  Answered("get_timers") =>
    LET posted == {sheet[k].sent : k \in VisibleRows(answer.user)} IN
    IF posted = {} THEN answer.value = <<>>
    ELSE answer.value[1] \in posted /\ \A w \in posted : w <= answer.value[1]

=============================================================================
