----------------------------- MODULE Timekeeper -----------------------------
(***************************************************************************)
(* The timekeeper service: time splits, the timers of a split, and the     *)
(* timesheet of posted timers.  A request is a process; every database     *)
(* statement of its handler is one step, because no handler opens a        *)
(* transaction and each statement autocommits.  Between two statements a   *)
(* request may be dropped (the client disconnects, the connection fails).  *)
(*                                                                         *)
(* Rows are never removed, so a table whose primary key is SERIAL is a     *)
(* sequence and a row's position is its id.  Names, lengths, tags and end  *)
(* times are abstracted away.                                              *)
(***************************************************************************)
EXTENDS Naturals, Sequences, FiniteSets

CONSTANTS
  Users,      \* the subjects of valid access tokens
  Nil,        \* the nil uuid: the owner of the seeded rows and the id of an anonymous caller
  Requests,   \* requests that can be in progress at the same time
  Starts,     \* the start times a client posts
  MaxSplits,  \* bound: rows of time_split
  MaxLen      \* bound: timers submitted with one split

ASSUME TimekeeperAssumption ==
  /\ Nil \notin Users
  /\ Starts \subseteq Nat
  /\ MaxSplits \in Nat
  /\ MaxLen \in Nat

VARIABLES
  splits,  \* table time_split
  timers,  \* table time_split_timer
  sheet,   \* table timesheet: primary key |-> timer id, NoRow where there is no row
  req      \* the state of each request, and after its response the response

vars == <<splits, timers, sheet, req>>

NoRow == 0

Callers == Users \cup {Nil}
Keys == Users \X Starts

SplitRow == [owner : Callers, described : BOOLEAN, deleted : BOOLEAN]
TimerRow == [split : Nat, order : Nat, deleted : BOOLEAN]

Ops == {"none", "create_time_split", "get_time_splits", "modify_time_split",
        "delete_time_split", "post_timer", "get_timers", "modify_timer"}

\* "ready": no statement is outstanding; otherwise the statement to run next.
Pcs == {"ready", "insert_timers", "select_timers", "delete_split",
        "insert_sheet", "update_sheet"}

Statuses == {"none", "ok", "refused", "not_found", "conflict", "failed"}

-----------------------------------------------------------------------------
(* Statements and the row level security policies that filter them.        *)

Owns_AnyRow(u, s) == u \in Users

\* The USING clause of the UPDATE policies and the WITH CHECK of the INSERT
\* policies; only the role of a logged-in caller has the privilege at all.
Owns(u, s) == u \in Users /\ splits[s].owner = u

\* The timers of split s, and those among them that are not deleted.
TimersOf(s) == {t \in DOMAIN timers : timers[t].split = s}
LiveTimersOf(s) == {t \in TimersOf(s) : ~timers[t].deleted}

BatchRows_NextSplit(s, n) ==
  [i \in 1..n |-> [split |-> s + 1, order |-> i - 1, deleted |-> FALSE]]

\* One multi-row INSERT: the index in the request body becomes order_idx.
BatchRows(s, n) ==
  [i \in 1..n |-> [split |-> s, order |-> i - 1, deleted |-> FALSE]]

\* The filter of get_time_splits.  user_id is NOT NULL, so its second
\* alternative, "user_id IS NULL", selects nothing.
ListableBy(u) == {s \in DOMAIN splits : ~splits[s].deleted /\ splits[s].owner = u}

InOrder_Descending(ids) ==
  [i \in 1..Cardinality(ids) |->
     CHOOSE t \in ids : Cardinality({x \in ids : timers[x].order > timers[t].order}) = i - 1]

\* SELECT .. FROM time_split_timer ORDER BY order_idx, grouped by split: the i-th
\* timer is the one that i - 1 others of its split come before.
InOrder(ids) ==
  [i \in 1..Cardinality(ids) |->
     CHOOSE t \in ids : Cardinality({x \in ids : timers[x].order < timers[t].order}) = i - 1]

\* The rows get_timers can return first: its inner join drops the rows whose
\* timer is deleted, an anonymous caller sees everyone's.
VisibleRows(u) ==
  {k \in Keys : /\ sheet[k] # NoRow
                /\ ~timers[sheet[k]].deleted
                /\ u \in Users => k[1] = u}

Newest(rows) == {k \in rows : \A l \in rows : l[2] <= k[2]}

-----------------------------------------------------------------------------
(* Requests.                                                               *)

Blank == [op |-> "none", pc |-> "ready", user |-> Nil, split |-> 0, len |-> 0,
          timer |-> 0, start |-> 0, found |-> {}, listed |-> <<>>,
          latest |-> {}, status |-> "none"]

\* Request r is free for the next call.
Ready(r) == req[r].pc = "ready"

\* r runs a new call of route op by u whose first statement has been executed.
Opened(op, u) == [Blank EXCEPT !.op = op, !.user = u]

\* The response of a call, of which only route, caller and status are kept; the
\* route only where it matters (not for refused and failed calls).
Answer(r, op, u, status) ==
  req' = [req EXCEPT ![r] = [Opened(op, u) EXCEPT !.status = status]]

Init ==
  /\ splits = << [owner |-> Nil, described |-> TRUE, deleted |-> FALSE] >>
  /\ timers = BatchRows(1, MaxLen)
  /\ sheet = [k \in Keys |-> NoRow]
  /\ req = [r \in Requests |-> Blank]

-----------------------------------------------------------------------------
(* Time splits.                                                            *)

\* create_time_split, first statement: INSERT INTO time_split RETURNING id.
CreateSplit(r, u, n, described) ==
  /\ Ready(r)
  /\ Len(splits) < MaxSplits
  /\ splits' = Append(splits, [owner |-> u, described |-> described, deleted |-> FALSE])
  /\ req' = [req EXCEPT ![r] = [Opened("create_time_split", u) EXCEPT
                                  !.pc = "insert_timers",
                                  !.split = Len(splits) + 1, !.len = n]]
  /\ UNCHANGED <<timers, sheet>>

\* create_time_split, second statement: all the timers in one INSERT.
InsertTimers(r) ==
  LET q == req[r] IN
  /\ q.pc = "insert_timers"
  /\ Owns(q.user, q.split)
  /\ timers' = timers \o BatchRows(q.split, q.len)
  /\ Answer(r, "create_time_split", q.user, "ok")
  /\ UNCHANGED <<splits, sheet>>

\* get_time_splits, first statement.
ListSplits(r, u) ==
  /\ Ready(r)
  /\ req' = [req EXCEPT ![r] = [Opened("get_time_splits", u) EXCEPT
                                  !.pc = "select_timers", !.found = ListableBy(u)]]
  /\ UNCHANGED <<splits, timers, sheet>>

\* get_time_splits, second statement and the grouping of its rows.
ListTimers(r) ==
  LET q == req[r] IN
  /\ q.pc = "select_timers"
  /\ req' = [req EXCEPT ![r] = [Opened("get_time_splits", q.user) EXCEPT
                                  !.status = "ok",
                                  !.listed = [s \in q.found |-> InOrder(LiveTimersOf(s))]]]
  /\ UNCHANGED <<splits, timers, sheet>>

SetDescription_ToGiven(s, given) == [splits EXCEPT ![s].described = given]

\* The changeset of InsertableTimeSplit skips a description that is None.
SetDescription(s, given) == [splits EXCEPT ![s].described = @ \/ given]

\* modify_time_split: one UPDATE by id, also on a deleted row; a row of
\* another owner is invisible to it, and no matching row still answers 200.
ModifySplit(r, u, s, given) ==
  /\ Ready(r)
  /\ splits' = IF Owns(u, s) THEN SetDescription(s, given) ELSE splits
  /\ Answer(r, "modify_time_split", u, "ok")
  /\ UNCHANGED <<timers, sheet>>

MarkTimers_First(s) ==
  [t \in DOMAIN timers |->
     [timers[t] EXCEPT !.deleted = @ \/ (timers[t].split = s /\ timers[t].order = 0)]]

MarkTimers(s) ==
  [t \in DOMAIN timers |-> [timers[t] EXCEPT !.deleted = @ \/ timers[t].split = s]]

\* delete_time_split, first statement.
DeleteTimers(r, u, s) ==
  /\ Ready(r)
  /\ timers' = IF Owns(u, s) THEN MarkTimers(s) ELSE timers
  /\ req' = [req EXCEPT ![r] = [Opened("delete_time_split", u) EXCEPT
                                  !.pc = "delete_split", !.split = s]]
  /\ UNCHANGED <<splits, sheet>>

MarkSplit(s) == [splits EXCEPT ![s].deleted = TRUE]

\* delete_time_split, second statement.
DeleteSplit(r) ==
  LET q == req[r] IN
  /\ q.pc = "delete_split"
  /\ splits' = IF Owns(q.user, q.split) THEN MarkSplit(q.split) ELSE splits
  /\ Answer(r, "delete_time_split", q.user, "ok")
  /\ UNCHANGED <<timers, sheet>>

-----------------------------------------------------------------------------
(* The timesheet.                                                          *)

\* post_timer, first statement: look up the timer of the split.
PostCheck(r, u, t, start) ==
  /\ Ready(r)
  /\ IF timers[t].deleted
       THEN Answer(r, "post_timer", u, "not_found")
       ELSE req' = [req EXCEPT ![r] = [Opened("post_timer", u) EXCEPT
                                         !.pc = "insert_sheet", !.timer = t, !.start = start]]
  /\ UNCHANGED <<splits, timers, sheet>>

PrimaryKeyFree_Always(k) == TRUE

\* PRIMARY KEY (user_id, start_time).
PrimaryKeyFree(k) == sheet[k] = NoRow

\* post_timer, second statement.  A successful answer echoes the start time.
PostInsert(r) ==
  LET q == req[r]
      k == <<q.user, q.start>>
  IN
  /\ q.pc = "insert_sheet"
  /\ \/ /\ PrimaryKeyFree(k)
        /\ sheet' = [sheet EXCEPT ![k] = q.timer]
        /\ req' = [req EXCEPT ![r] = [Opened("post_timer", q.user) EXCEPT
                                        !.start = q.start, !.status = "ok"]]
     \/ /\ ~PrimaryKeyFree(k)
        /\ Answer(r, "post_timer", q.user, "conflict")
        /\ UNCHANGED sheet
  /\ UNCHANGED <<splits, timers>>

\* modify_timer, first statement: the same lookup as post_timer.
ModifyCheck(r, u, t, start) ==
  /\ Ready(r)
  /\ IF timers[t].deleted
       THEN Answer(r, "modify_timer", u, "not_found")
       ELSE req' = [req EXCEPT ![r] = [Opened("modify_timer", u) EXCEPT
                                         !.pc = "update_sheet", !.timer = t, !.start = start]]
  /\ UNCHANGED <<splits, timers, sheet>>

\* modify_timer, second statement: an UPDATE that matches no row is no error.
ModifyUpdate(r) ==
  LET q == req[r]
      k == <<q.user, q.start>>
  IN
  /\ q.pc = "update_sheet"
  /\ sheet' = IF sheet[k] # NoRow THEN [sheet EXCEPT ![k] = q.timer] ELSE sheet
  /\ Answer(r, "modify_timer", q.user, "ok")
  /\ UNCHANGED <<splits, timers>>

\* get_timers: LIMIT 1 of the rows in descending order of start time.
GetTimers(r, u) ==
  LET rows == Newest(VisibleRows(u)) IN
  /\ Ready(r)
  /\ \E answer \in IF rows = {} THEN {{}} ELSE {{k} : k \in rows} :
       req' = [req EXCEPT ![r] = [Opened("get_timers", u) EXCEPT
                                    !.status = "ok", !.latest = answer]]
  /\ UNCHANGED <<splits, timers, sheet>>

-----------------------------------------------------------------------------
(* Requests that change no row.                                            *)

\* An anonymous caller of a writing route: three handlers answer 401 before
\* any statement, the other two fail on the missing UPDATE privilege.
RefuseAnonymous(r) ==
  /\ Ready(r)
  /\ Answer(r, "none", Nil, "refused")
  /\ UNCHANGED <<splits, timers, sheet>>

\* A handler stops between two statements: the next statement fails, or the
\* connection to the client is lost and the handler's future is dropped.
Abandon(r) ==
  /\ ~Ready(r)
  /\ Answer(r, "none", req[r].user, "failed")
  /\ UNCHANGED <<splits, timers, sheet>>

Step(r) ==
  \/ \E u \in Users, n \in 0..MaxLen, d \in BOOLEAN : CreateSplit(r, u, n, d)
  \/ InsertTimers(r)
  \/ \E u \in Callers : ListSplits(r, u)
  \/ ListTimers(r)
  \/ \E u \in Users, s \in DOMAIN splits, d \in BOOLEAN : ModifySplit(r, u, s, d)
  \/ \E u \in Users, s \in DOMAIN splits : DeleteTimers(r, u, s)
  \/ DeleteSplit(r)
  \/ \E u \in Users, t \in DOMAIN timers, i \in Starts : PostCheck(r, u, t, i)
  \/ PostInsert(r)
  \/ \E u \in Users, t \in DOMAIN timers, i \in Starts : ModifyCheck(r, u, t, i)
  \/ ModifyUpdate(r)
  \/ \E u \in Callers : GetTimers(r, u)
  \/ RefuseAnonymous(r)
  \/ Abandon(r)

Next == \E r \in Requests : Step(r)

Spec == Init /\ [][Next]_vars

-----------------------------------------------------------------------------
(* Properties.                                                             *)

\* What the fields of a request hold at its next statement.
RequestOK(q) ==
  /\ q.op \in Ops /\ q.pc \in Pcs /\ q.user \in Callers /\ q.status \in Statuses
  /\ q.pc \in {"insert_timers", "delete_split"} => q.user \in Users /\ q.split \in DOMAIN splits
  /\ q.pc = "insert_timers" => q.len \in Nat
  /\ q.pc \in {"insert_sheet", "update_sheet"} =>
       q.user \in Users /\ q.start \in Starts /\ q.timer \in DOMAIN timers
  /\ q.found \subseteq DOMAIN splits
  /\ q.latest \subseteq Keys

\* Type invariant, with the two foreign keys: a timer belongs to an existing
\* split and a timesheet row names an existing timer.
TypeOK ==
  /\ splits \in Seq(SplitRow)
  /\ timers \in Seq(TimerRow)
  /\ \A t \in DOMAIN timers : timers[t].split \in DOMAIN splits
  /\ sheet \in [Keys -> {NoRow} \cup DOMAIN timers]
  /\ DOMAIN req = Requests
  /\ \A r \in Requests : RequestOK(req[r])

\* The timers of one split are inserted by one statement and deleted by one
\* statement, so whatever requests interleave no split is ever left with some
\* of its timers deleted and others not.
TimersLiveOrDieTogether ==
  \A s \in DOMAIN splits : LiveTimersOf(s) \in {{}, TimersOf(s)}

\* get_time_splits reads the splits and their timers at two different moments.
\* It still returns only splits of its caller, and under each of them either no
\* timer at all (not inserted yet, or deleted in between) or all of them in
\* the order in which they were submitted.
ListedWhole ==
  \A r \in Requests : \A s \in DOMAIN req[r].listed :
    LET ids == req[r].listed[s] IN
    /\ splits[s].owner = req[r].user
    /\ ids # <<>> => /\ {ids[i] : i \in DOMAIN ids} = TimersOf(s)
                     /\ \A i \in DOMAIN ids : timers[ids[i]].order = i - 1

\* The answer of r is that of a post_timer that succeeded, and its primary key.
Posted(r) == req[r].op = "post_timer" /\ Ready(r) /\ req[r].status = "ok"
KeyOf(r) == <<req[r].user, req[r].start>>

\* Two post_timer calls of one user for one start time never both succeed, and
\* the row of the one that did stays in the timesheet.
PostedOnce ==
  \A r \in Requests : Posted(r) =>
    /\ sheet[KeyOf(r)] # NoRow
    /\ \A q \in Requests \ {r} : Posted(q) => KeyOf(q) # KeyOf(r)

\* Split s and its timers.
RowsOf(s) == <<splits[s], TimersOf(s), LiveTimersOf(s)>>

\* The step is one of a request of user u.
ActsFor(u) == u \in Users /\ \A r \in Requests : req'[r] # req[r] => req'[r].user = u

\* What a step does to a row is done on behalf of the row's owner: a split, the
\* timers of a split and a timesheet row change or appear only in a step of
\* a request whose caller owns them; the seeded rows never change.
OnlyOwnersWrite ==
  [][/\ \A s \in DOMAIN splits' :
          s \notin DOMAIN splits \/ RowsOf(s)' # RowsOf(s) => ActsFor(splits'[s].owner)
     /\ \A k \in Keys : sheet'[k] # sheet[k] => ActsFor(k[1])]_vars

\* Rows only move forward: no statement of any handler undoes a soft delete,
\* moves a row to another owner, split or position, clears a description or
\* removes a timesheet row.
RowsOnlyMoveForward ==
  [][/\ \A s \in DOMAIN splits :
          /\ s \in DOMAIN splits'
          /\ splits'[s].owner = splits[s].owner
          /\ splits[s].described => splits'[s].described
          /\ splits[s].deleted => splits'[s].deleted
     /\ \A t \in DOMAIN timers :
          /\ t \in DOMAIN timers'
          /\ timers'[t].split = timers[t].split
          /\ timers'[t].order = timers[t].order
          /\ timers[t].deleted => timers'[t].deleted
     /\ \A k \in Keys : sheet[k] # NoRow => sheet'[k] # NoRow]_vars

-----------------------------------------------------------------------------
(* The abstract specification: the tables as documents.                    *)

HandleOf(t) == IF t \in DOMAIN timers THEN <<timers[t].split, timers[t].order>> ELSE <<>>

DocumentOf(s) ==
  [owner |-> splits[s].owner, described |-> splits[s].described,
   size |-> Cardinality(TimersOf(s)),
   gone |-> TimersOf(s) # {} /\ LiveTimersOf(s) = {},
   deleted |-> splits[s].deleted]

CallOf(q) ==
  [user |-> q.user, next |-> q.pc, doc |-> q.split, size |-> q.len,
   timer |-> HandleOf(q.timer), start |-> q.start, found |-> q.found, status |-> q.status,
   listed |-> [s \in DOMAIN q.listed |-> [i \in DOMAIN q.listed[s] |-> HandleOf(q.listed[s][i])]],
   latest |-> q.latest]

Documents == [s \in DOMAIN splits |-> DocumentOf(s)]
Handles == [k \in Keys |-> HandleOf(sheet[k])]
Calls == [r \in Requests |-> CallOf(req[r])]

Packaged == INSTANCE PackagedSplits WITH
  Clients <- Requests, Nobody <- Nil, docs <- Documents, sheet <- Handles, call <- Calls

\* Two tables of rows that are filtered, joined and sorted, with statements of
\* other requests between any two, behave as documents: a split's timers come and
\* go together, are listed whole and in the order sent, and a timesheet row means
\* the timer it was posted with for as long as there are rows.
ImplementsPackagedSplits == Packaged!PackagedSpec

-----------------------------------------------------------------------------
(* What the documentation or a test of the service says and the code does  *)
(* not do.                                                                 *)

\* timekeeper.test.ts:102 expects 404 for a timer posted with a timer of a
\* deleted split.
DeletedSplitRefusesPosts ==
  [][\A r \in Requests : Ready(r) /\ req'[r].pc = "insert_sheet" =>
       ~splits[timers[req'[r].timer].split].deleted]_vars

\* timer.rs:139: get_timers retrieves the most recently started timer.
LatestIsNewest ==
  [][\A r \in Requests :
       req'[r] # req[r] /\ req'[r].op = "get_timers" /\ req'[r].user \in Users =>
         req'[r].latest = Newest({k \in Keys : sheet[k] # NoRow /\ k[1] = req'[r].user})]_vars

=============================================================================
