---------------------------- MODULE PackagedSplits ----------------------------
(***************************************************************************)
(* What the timekeeper promises of time splits and the timesheet: a time   *)
(* split is one document, with its timers in it.  Its timers arrive all at *)
(* once and disappear all at once, a listing shows documents, and a        *)
(* timesheet row names the timer at a place of a document.  There are no   *)
(* tables here, no ids of timers, no order column and no policies.         *)
(***************************************************************************)
EXTENDS Naturals, Sequences

CONSTANTS
  Clients,  \* callers, one call each at a time
  Users,    \* who may be logged in
  Nobody,   \* in the place of a user: not logged in; the owner of default splits
  Starts,   \* the start times of timers
  MaxLen    \* bound: timers of one split

VARIABLES
  docs,   \* the time splits by their ids; none is ever removed
  sheet,  \* user and start time |-> timer, NoTimer where there is none
  call    \* of each client: who it is, what its call does next, its answer

docVars == <<docs, sheet, call>>

\* A timer is known by its split and its index there.
NoTimer == <<>>
TimersIn(s) == {<<s, i - 1>> : i \in 1..docs[s].size}

\* The timers of a document as a listing shows them.
Shown(s) == IF docs[s].gone THEN <<>> ELSE [i \in 1..docs[s].size |-> <<s, i - 1>>]

Document(owner, described, size) ==
  [owner |-> owner, described |-> described, size |-> size, gone |-> FALSE, deleted |-> FALSE]

\* Client c is free for its next call.
Idle(c) == call[c].next = "ready"

Blank == [user |-> Nobody, next |-> "ready", doc |-> 0, size |-> 0, timer |-> NoTimer,
          start |-> 0, found |-> {}, status |-> "none", listed |-> <<>>, latest |-> {}]

Pending(u, next) == [Blank EXCEPT !.user = u, !.next = next]
Answered(u, status) == [Blank EXCEPT !.user = u, !.status = status]

Becomes(c, record) == call' = [call EXCEPT ![c] = record]

PackagedInit ==
  /\ docs = << Document(Nobody, TRUE, MaxLen) >>
  /\ sheet = [k \in Users \X Starts |-> NoTimer]
  /\ call = [c \in Clients |-> Blank]

-----------------------------------------------------------------------------
(* Time splits.                                                            *)

\* A new document appears, still without its timers.
Create(c, u, n, described) ==
  /\ Idle(c)
  /\ docs' = Append(docs, Document(u, described, 0))
  /\ Becomes(c, [Pending(u, "insert_timers") EXCEPT !.doc = Len(docs) + 1, !.size = n])
  /\ UNCHANGED sheet

Fill(c) ==
  /\ call[c].next = "insert_timers"
  /\ docs' = [docs EXCEPT ![call[c].doc].size = call[c].size]
  /\ Becomes(c, Answered(call[c].user, "ok"))
  /\ UNCHANGED sheet

Find(c, u) ==
  /\ Idle(c)
  /\ Becomes(c, [Pending(u, "select_timers") EXCEPT
                   !.found = {s \in DOMAIN docs : ~docs[s].deleted /\ docs[s].owner = u}])
  /\ UNCHANGED <<docs, sheet>>

Show(c) ==
  /\ call[c].next = "select_timers"
  /\ Becomes(c, [Answered(call[c].user, "ok") EXCEPT
                   !.listed = [s \in call[c].found |-> Shown(s)]])
  /\ UNCHANGED <<docs, sheet>>

\* A document of somebody else is left alone, and that is not said.
Changed(u, s, doc) == IF docs[s].owner = u THEN [docs EXCEPT ![s] = doc] ELSE docs

Describe(c, u, s, given) ==
  /\ Idle(c)
  /\ docs' = Changed(u, s, [docs[s] EXCEPT !.described = @ \/ given])
  /\ Becomes(c, Answered(u, "ok"))
  /\ UNCHANGED sheet

\* All the timers that the document has are deleted, none if they are yet to come.
Clear(c, u, s) ==
  /\ Idle(c)
  /\ docs' = Changed(u, s, [docs[s] EXCEPT !.gone = docs[s].size > 0])
  /\ Becomes(c, [Pending(u, "delete_split") EXCEPT !.doc = s])
  /\ UNCHANGED sheet

Delete(c) ==
  LET s == call[c].doc IN
  /\ call[c].next = "delete_split"
  /\ docs' = Changed(call[c].user, s, [docs[s] EXCEPT !.deleted = TRUE])
  /\ Becomes(c, Answered(call[c].user, "ok"))
  /\ UNCHANGED sheet

-----------------------------------------------------------------------------
(* The timesheet.                                                          *)

\* A post or a modification begins with a look at its timer.
Look(c, u, t, start, next) ==
  /\ Idle(c)
  /\ Becomes(c, IF docs[t[1]].gone THEN Answered(u, "not_found")
                ELSE [Pending(u, next) EXCEPT !.timer = t, !.start = start])
  /\ UNCHANGED <<docs, sheet>>

Post(c) ==
  LET k == <<call[c].user, call[c].start>> IN
  /\ call[c].next = "insert_sheet"
  /\ \/ /\ sheet[k] = NoTimer
        /\ sheet' = [sheet EXCEPT ![k] = call[c].timer]
        /\ Becomes(c, [Answered(call[c].user, "ok") EXCEPT !.start = call[c].start])
     \/ /\ sheet[k] # NoTimer
        /\ Becomes(c, Answered(call[c].user, "conflict"))
        /\ UNCHANGED sheet
  /\ UNCHANGED docs

Modify(c) ==
  LET k == <<call[c].user, call[c].start>> IN
  /\ call[c].next = "update_sheet"
  /\ sheet' = IF sheet[k] # NoTimer THEN [sheet EXCEPT ![k] = call[c].timer] ELSE sheet
  /\ Becomes(c, Answered(call[c].user, "ok"))
  /\ UNCHANGED docs

\* The latest row among those of the caller, or of everybody if the caller is
\* nobody, whose timer is still there.
Latest(c, u) ==
  LET rows == {k \in DOMAIN sheet : /\ sheet[k] # NoTimer
                                    /\ ~docs[sheet[k][1]].gone
                                    /\ u \in Users => k[1] = u}
      last == {k \in rows : \A l \in rows : l[2] <= k[2]}
  IN
  /\ Idle(c)
  /\ \E answer \in IF last = {} THEN {{}} ELSE {{k} : k \in last} :
       Becomes(c, [Answered(u, "ok") EXCEPT !.latest = answer])
  /\ UNCHANGED <<docs, sheet>>

\* A call that may not be made, and one that ends halfway.
Refuse(c) ==
  /\ Idle(c)
  /\ Becomes(c, Answered(Nobody, "refused"))
  /\ UNCHANGED <<docs, sheet>>

Fail(c) ==
  /\ ~Idle(c)
  /\ Becomes(c, Answered(call[c].user, "failed"))
  /\ UNCHANGED <<docs, sheet>>

PackagedStep(c) ==
  \/ \E u \in Users, n \in 0..MaxLen, d \in BOOLEAN : Create(c, u, n, d)
  \/ Fill(c)
  \/ \E u \in Users \cup {Nobody} : Find(c, u)
  \/ Show(c)
  \/ \E u \in Users, s \in DOMAIN docs, d \in BOOLEAN : Describe(c, u, s, d)
  \/ \E u \in Users, s \in DOMAIN docs : Clear(c, u, s)
  \/ Delete(c)
  \/ \E u \in Users, s \in DOMAIN docs, i \in Starts, next \in {"insert_sheet", "update_sheet"} :
       \E t \in TimersIn(s) : Look(c, u, t, i, next)
  \/ Post(c)
  \/ Modify(c)
  \/ \E u \in Users \cup {Nobody} : Latest(c, u)
  \/ Refuse(c)
  \/ Fail(c)

PackagedSpec == PackagedInit /\ [][\E c \in Clients : PackagedStep(c)]_docVars

=============================================================================
