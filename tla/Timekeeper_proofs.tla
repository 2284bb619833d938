-------------------------- MODULE Timekeeper_proofs --------------------------
(***************************************************************************)
(* Proofs about Timekeeper, for any users, requests and start times and    *)
(* for any number of splits and of timers in a split.                      *)
(***************************************************************************)
EXTENDS Timekeeper, FiniteSetTheorems, SequenceTheorems, TLAPS

USE DEF Callers, Keys, Ops, Pcs, Statuses, NoRow

-----------------------------------------------------------------------------
(* What the statements do to a table.                                      *)

\* The rows of a table and their ids.
LEMMA Rows ==
  ASSUME TypeOK
  PROVE  /\ DOMAIN splits = 1..Len(splits) /\ Len(splits) \in Nat
         /\ DOMAIN timers = 1..Len(timers) /\ Len(timers) \in Nat
         /\ \A s \in DOMAIN splits : splits[s] \in SplitRow
         /\ \A t \in DOMAIN timers : timers[t] \in TimerRow
  BY DEF TypeOK

\* The rows of one batch name the split they were submitted with.
LEMMA BatchRowsType ==
  ASSUME NEW s \in Nat, NEW n \in Nat
  PROVE  /\ BatchRows(s, n) \in Seq(TimerRow)
         /\ Len(BatchRows(s, n)) = n
         /\ \A i \in DOMAIN BatchRows(s, n) :
              BatchRows(s, n)[i].split = s /\ ~BatchRows(s, n)[i].deleted
<1> DEFINE row(i) == [split |-> s, order |-> i - 1, deleted |-> FALSE]
<1>1. \A i \in 1..n : row(i) \in TimerRow
  BY DEF TimerRow
<1> HIDE DEF row
<1>2. [i \in 1..n |-> row(i)] \in Seq(TimerRow)
  BY <1>1
<1>3. BatchRows(s, n) = [i \in 1..n |-> row(i)]
  BY DEF BatchRows, row
<1>4. \A i \in 1..n : row(i).split = s /\ ~row(i).deleted
  BY DEF row
<1>5. QED
  BY <1>2, <1>3, <1>4

\* The same, about all batches at once.
LEMMA BatchRowsSplit ==
  \A s, n \in Nat : \A i \in DOMAIN BatchRows(s, n) : BatchRows(s, n)[i].split = s
  BY DEF BatchRows

\* They are as many as were submitted, in their order.
LEMMA BatchRowsOrder ==
  ASSUME NEW s \in Nat, NEW n \in Nat
  PROVE  /\ DOMAIN BatchRows(s, n) = 1..n
         /\ \A i \in 1..n : BatchRows(s, n)[i].order = i - 1
  BY DEF BatchRows

\* Deleting the timers of a split keeps every row where it is, and afterwards a
\* timer is deleted if it was or if it belongs to the split.
LEMMA MarkTimersType ==
  ASSUME TypeOK, NEW s
  PROVE  /\ MarkTimers(s) \in Seq(TimerRow)
         /\ DOMAIN MarkTimers(s) = DOMAIN timers
         /\ \A t \in DOMAIN timers :
              /\ MarkTimers(s)[t].split = timers[t].split
              /\ MarkTimers(s)[t].order = timers[t].order
              /\ MarkTimers(s)[t].deleted <=> timers[t].deleted \/ timers[t].split = s
<1> DEFINE row(t) == [timers[t] EXCEPT !.deleted = @ \/ timers[t].split = s]
<1>1. \A t \in DOMAIN timers :
        /\ row(t) \in TimerRow
        /\ row(t).split = timers[t].split
        /\ row(t).order = timers[t].order
        /\ row(t).deleted <=> timers[t].deleted \/ timers[t].split = s
  BY Rows DEF TimerRow
<1> HIDE DEF row
<1>2. [t \in DOMAIN timers |-> row(t)] \in Seq(TimerRow)
  BY <1>1, Rows
<1>3. MarkTimers(s) = [t \in DOMAIN timers |-> row(t)]
  BY DEF MarkTimers, row
<1>4. QED
  BY <1>1, <1>2, <1>3

\* Deleting a split or changing its description keeps every row where it is.
LEMMA UpdateSplitType ==
  ASSUME TypeOK, NEW s \in DOMAIN splits, NEW b \in BOOLEAN,
         NEW new \in {MarkSplit(s), SetDescription(s, b)}
  PROVE  /\ new \in Seq(SplitRow)
         /\ DOMAIN new = DOMAIN splits
         /\ \A x \in DOMAIN splits :
              /\ new[x].owner = splits[x].owner
              /\ splits[x].described => new[x].described
              /\ splits[x].deleted => new[x].deleted
              /\ x # s => new[x] = splits[x]
<1>1. splits[s] \in SplitRow
  BY Rows
<1>2. PICK row \in SplitRow :
        /\ new = [splits EXCEPT ![s] = row]
        /\ row.owner = splits[s].owner
        /\ splits[s].described => row.described
        /\ splits[s].deleted => row.deleted
  <2>1. CASE new = MarkSplit(s)
    <3> DEFINE row == [splits[s] EXCEPT !.deleted = TRUE]
    <3>1. new = [splits EXCEPT ![s] = row]
      BY <2>1 DEF MarkSplit
    <3>2. row \in SplitRow /\ row.owner = splits[s].owner /\ row.deleted
          /\ row.described = splits[s].described
      BY <1>1 DEF SplitRow
    <3>3. QED
      BY <3>1, <3>2
  <2>2. CASE new = SetDescription(s, b)
    <3> DEFINE row == [splits[s] EXCEPT !.described = @ \/ b]
    <3>1. new = [splits EXCEPT ![s] = row]
      BY <2>2 DEF SetDescription
    <3>2. /\ row \in SplitRow /\ row.owner = splits[s].owner
          /\ row.deleted = splits[s].deleted
          /\ splits[s].described => row.described
      BY <1>1 DEF SplitRow
    <3>3. QED
      BY <3>1, <3>2
  <2>3. QED
    BY <2>1, <2>2
<1>3. splits \in Seq(SplitRow)
  BY DEF TypeOK
<1>4. QED
  BY <1>2, <1>3

-----------------------------------------------------------------------------
(* Type correctness.                                                       *)

LEMMA InitTypeOK == Init => TypeOK
<1> SUFFICES ASSUME Init
             PROVE  TypeOK
  OBVIOUS
<1>1. splits \in Seq(SplitRow) /\ DOMAIN splits = {1}
  <2>1. [owner |-> Nil, described |-> TRUE, deleted |-> FALSE] \in SplitRow
    BY DEF SplitRow
  <2>2. QED
    BY <2>1 DEF Init
<1>2. timers \in Seq(TimerRow) /\ \A t \in DOMAIN timers : timers[t].split = 1
  BY BatchRowsType, TimekeeperAssumption DEF Init
<1>3. sheet \in [Keys -> {NoRow} \cup DOMAIN timers]
  BY DEF Init
<1>4. \A r \in Requests : RequestOK(req[r])
  BY DEF Init, Blank, RequestOK
<1>5. QED
  BY <1>1, <1>2, <1>3, <1>4 DEF TypeOK, Init

\* A step of one request leaves the others as they were, and what they refer to
\* does not disappear.
LEMMA OthersOK ==
  ASSUME TypeOK, NEW r \in Requests,
         DOMAIN splits \subseteq DOMAIN splits', DOMAIN timers \subseteq DOMAIN timers',
         req' = [req EXCEPT ![r] = req'[r]], RequestOK(req[r])'
  PROVE  DOMAIN req' = Requests /\ \A p \in Requests : RequestOK(req[p])'
<1>1. ASSUME NEW p \in Requests, p # r
      PROVE  RequestOK(req[p])'
  <2>1. req'[p] = req[p] /\ RequestOK(req[p])
    BY <1>1 DEF TypeOK
  <2>2. QED
    BY <2>1 DEF RequestOK
<1>2. QED
  BY <1>1 DEF TypeOK

\* A request after its answer, or at its next statement.
LEMMA RecordOK ==
  ASSUME TypeOK, NEW r \in Requests, NEW op \in Ops, NEW u \in Callers,
         NEW status \in Statuses, Answer(r, op, u, status)
  PROVE  /\ req' = [req EXCEPT ![r] = req'[r]]
         /\ RequestOK(req[r])'
         /\ req'[r].pc = "ready" /\ req'[r].user = u
  BY DEF TypeOK, RequestOK, Answer, Opened, Blank

LEMMA SplitsTypeOK ==
  ASSUME TypeOK, NEW r \in Requests,
         \/ \E u \in Users, n \in 0..MaxLen, d \in BOOLEAN : CreateSplit(r, u, n, d)
         \/ \E u \in Users, s \in DOMAIN splits, d \in BOOLEAN : ModifySplit(r, u, s, d)
         \/ DeleteSplit(r)
  PROVE  /\ TypeOK'
         /\ DOMAIN splits \subseteq DOMAIN splits'
         /\ \A s \in DOMAIN splits :
              /\ splits'[s].owner = splits[s].owner
              /\ splits[s].described => splits'[s].described
              /\ splits[s].deleted => splits'[s].deleted
         /\ \A s \in DOMAIN splits' :
              s \notin DOMAIN splits \/ splits'[s] # splits[s] =>
                splits'[s].owner = req'[r].user /\ req'[r].user \in Users
         /\ timers' = timers /\ sheet' = sheet
         /\ req' = [req EXCEPT ![r] = req'[r]]
<1>1. CASE \E u \in Users, n \in 0..MaxLen, d \in BOOLEAN : CreateSplit(r, u, n, d)
  <2>1. PICK u \in Users, n \in 0..MaxLen, d \in BOOLEAN : CreateSplit(r, u, n, d)
    BY <1>1
  <2> DEFINE row == [owner |-> u, described |-> d, deleted |-> FALSE]
  <2>2. row \in SplitRow /\ row.owner = u
    BY DEF SplitRow
  <2>3. splits' = Append(splits, row) /\ timers' = timers /\ sheet' = sheet
    BY <2>1 DEF CreateSplit
  <2> HIDE DEF row
  <2>4. /\ splits' \in Seq(SplitRow)
        /\ DOMAIN splits' = DOMAIN splits \cup {Len(splits) + 1}
        /\ \A s \in DOMAIN splits : splits'[s] = splits[s]
        /\ splits'[Len(splits) + 1] = row
    BY <2>2, <2>3 DEF TypeOK
  <2>5. /\ req' = [req EXCEPT ![r] = req'[r]]
        /\ RequestOK(req[r])' /\ req'[r].user = u
    <3>1. Len(splits) + 1 \in DOMAIN splits' /\ n \in Nat
      BY <2>4, TimekeeperAssumption
    <3>2. /\ req' = [req EXCEPT ![r] = req'[r]]
          /\ req'[r] = [Opened("create_time_split", u) EXCEPT
                          !.pc = "insert_timers", !.split = Len(splits) + 1, !.len = n]
      BY <2>1 DEF CreateSplit, TypeOK
    <3>3. QED
      BY <3>1, <3>2 DEF Opened, Blank, RequestOK
  <2>6. TypeOK'
    BY <2>3, <2>4, <2>5, OthersOK DEF TypeOK
  <2>7. QED
    BY <2>2, <2>3, <2>4, <2>5, <2>6
<1>2. CASE \E u \in Users, s \in DOMAIN splits, d \in BOOLEAN : ModifySplit(r, u, s, d)
  <2>1. PICK u \in Users, s \in DOMAIN splits, d \in BOOLEAN : ModifySplit(r, u, s, d)
    BY <1>2
  <2>2. /\ req' = [req EXCEPT ![r] = req'[r]]
        /\ RequestOK(req[r])' /\ req'[r].user = u
        /\ timers' = timers /\ sheet' = sheet
    BY <2>1, RecordOK DEF ModifySplit
  <2>3. CASE Owns(u, s)
    <3>1. splits' = SetDescription(s, d)
      BY <2>1, <2>3 DEF ModifySplit
    <3>2. /\ splits' \in Seq(SplitRow) /\ DOMAIN splits' = DOMAIN splits
          /\ \A x \in DOMAIN splits :
              /\ splits'[x].owner = splits[x].owner
              /\ splits[x].described => splits'[x].described
              /\ splits[x].deleted => splits'[x].deleted
              /\ x # s => splits'[x] = splits[x]
      BY <3>1, UpdateSplitType
    <3>3. TypeOK'
      BY <2>2, <3>2, OthersOK DEF TypeOK
    <3>4. QED
      BY <2>2, <2>3, <3>2, <3>3 DEF Owns
  <2>4. CASE ~Owns(u, s)
    <3>1. splits' = splits
      BY <2>1, <2>4 DEF ModifySplit
    <3>2. TypeOK'
      BY <2>2, <3>1, OthersOK DEF TypeOK
    <3>3. QED
      BY <2>2, <3>1, <3>2
  <2>5. QED
    BY <2>3, <2>4
<1>3. CASE DeleteSplit(r)
  <2> DEFINE q == req[r]
  <2>1. q.op \in Ops /\ q.user \in Users /\ q.split \in DOMAIN splits
    BY <1>3 DEF DeleteSplit, TypeOK, RequestOK
  <2>2. /\ req' = [req EXCEPT ![r] = req'[r]]
        /\ RequestOK(req[r])' /\ req'[r].user = q.user
        /\ timers' = timers /\ sheet' = sheet
    BY <1>3, <2>1, RecordOK DEF DeleteSplit
  <2>3. CASE Owns(q.user, q.split)
    <3>1. splits' = MarkSplit(q.split)
      BY <1>3, <2>3 DEF DeleteSplit
    <3>2. /\ splits' \in Seq(SplitRow) /\ DOMAIN splits' = DOMAIN splits
          /\ \A x \in DOMAIN splits :
              /\ splits'[x].owner = splits[x].owner
              /\ splits[x].described => splits'[x].described
              /\ splits[x].deleted => splits'[x].deleted
              /\ x # q.split => splits'[x] = splits[x]
      BY <2>1, <3>1, UpdateSplitType
    <3>3. TypeOK'
      BY <2>2, <3>2, OthersOK DEF TypeOK
    <3>4. QED
      BY <2>1, <2>2, <2>3, <3>2, <3>3 DEF Owns
  <2>4. CASE ~Owns(q.user, q.split)
    <3>1. splits' = splits
      BY <1>3, <2>4 DEF DeleteSplit
    <3>2. TypeOK'
      BY <2>2, <3>1, OthersOK DEF TypeOK
    <3>3. QED
      BY <2>2, <3>1, <3>2
  <2>5. QED
    BY <2>3, <2>4
<1>4. QED
  BY <1>1, <1>2, <1>3

LEMMA TimersTypeOK ==
  ASSUME TypeOK, NEW r \in Requests,
         \/ InsertTimers(r)
         \/ \E u \in Users, s \in DOMAIN splits : DeleteTimers(r, u, s)
  PROVE  /\ TypeOK'
         /\ DOMAIN timers \subseteq DOMAIN timers'
         /\ \A t \in DOMAIN timers :
              /\ timers'[t].split = timers[t].split
              /\ timers'[t].order = timers[t].order
              /\ timers[t].deleted => timers'[t].deleted
         /\ splits' = splits /\ sheet' = sheet
         /\ req' = [req EXCEPT ![r] = req'[r]]
         /\ req'[r].user \in Users
         /\ \E s \in DOMAIN splits :
              \* the split whose timers the statement inserts or deletes
              /\ splits[s].owner # req'[r].user => timers' = timers
              /\ \A t \in DOMAIN timers :
                   timers[t].split # s => timers'[t].deleted = timers[t].deleted
              /\ \A t \in DOMAIN timers' \ DOMAIN timers : timers'[t].split = s
<1>1. CASE InsertTimers(r)
  <2> DEFINE q == req[r]
             batch == BatchRows(q.split, q.len)
  <2>1. /\ q.op \in Ops /\ q.user \in Users /\ q.split \in DOMAIN splits /\ q.len \in Nat
        /\ Owns(q.user, q.split) /\ timers' = timers \o batch
        /\ splits' = splits /\ sheet' = sheet
    BY <1>1 DEF InsertTimers, TypeOK, RequestOK
  <2>2. /\ batch \in Seq(TimerRow)
        /\ \A i \in DOMAIN batch : batch[i].split = q.split
    <3>1. q.split \in Nat /\ q.len \in Nat
      BY <2>1, Rows
    <3>2. \A s, n \in Nat : /\ BatchRows(s, n) \in Seq(TimerRow)
                            /\ \A i \in DOMAIN BatchRows(s, n) : BatchRows(s, n)[i].split = s
      BY BatchRowsType
    <3>3. QED
      BY <3>1, <3>2
  <2>3. timers \in Seq(TimerRow)
    BY DEF TypeOK
  <2> HIDE DEF q, batch
  <2>4. /\ timers' \in Seq(TimerRow)
        /\ DOMAIN timers \subseteq DOMAIN timers'
        /\ \A t \in DOMAIN timers : timers'[t] = timers[t]
        /\ \A t \in DOMAIN timers' \ DOMAIN timers :
             t - Len(timers) \in DOMAIN batch /\ timers'[t] = batch[t - Len(timers)]
    BY <2>1, <2>2, <2>3
  <2>5. /\ req' = [req EXCEPT ![r] = req'[r]]
        /\ RequestOK(req[r])' /\ req'[r].user = q.user
    BY <1>1, <2>1, RecordOK DEF InsertTimers, q
  <2>6. \A t \in DOMAIN timers' : timers'[t].split \in DOMAIN splits'
    BY <2>1, <2>2, <2>4 DEF TypeOK
  <2>7. TypeOK'
    BY <2>1, <2>4, <2>5, <2>6, OthersOK DEF TypeOK
  <2>8. splits[q.split].owner = q.user
    BY <2>1 DEF Owns
  <2>9. \A t \in DOMAIN timers' \ DOMAIN timers : timers'[t].split = q.split
    BY <2>2, <2>4
  <2>10. QED
    BY <2>1, <2>4, <2>5, <2>7, <2>8, <2>9
<1>2. CASE \E u \in Users, s \in DOMAIN splits : DeleteTimers(r, u, s)
  <2>1. PICK u \in Users, s \in DOMAIN splits : DeleteTimers(r, u, s)
    BY <1>2
  <2>2. /\ splits' = splits /\ sheet' = sheet
        /\ timers' = IF Owns(u, s) THEN MarkTimers(s) ELSE timers
    BY <2>1 DEF DeleteTimers
  <2>3. /\ timers' \in Seq(TimerRow)
        /\ DOMAIN timers' = DOMAIN timers
        /\ \A t \in DOMAIN timers :
              /\ timers'[t].split = timers[t].split
              /\ timers'[t].order = timers[t].order
              /\ timers[t].deleted => timers'[t].deleted
              /\ timers[t].split # s => timers'[t].deleted = timers[t].deleted
    <3>1. timers \in Seq(TimerRow) /\ \A t \in DOMAIN timers : timers[t].deleted \in BOOLEAN
      BY Rows DEF TypeOK, TimerRow
    <3>2. \A t \in DOMAIN timers : Owns(u, s) => timers'[t].deleted \in BOOLEAN
      <4>1. Owns(u, s) => \A t \in DOMAIN timers : timers'[t] \in TimerRow
        BY <2>2, MarkTimersType
      <4>2. QED
        BY <4>1 DEF TimerRow
    <3>3. QED
      BY <2>2, <3>1, <3>2, MarkTimersType
  <2>4. /\ req' = [req EXCEPT ![r] = req'[r]]
        /\ RequestOK(req[r])' /\ req'[r].user = u
    BY <2>1, <2>2, <2>3 DEF DeleteTimers, TypeOK, RequestOK, Opened, Blank
  <2>5. TypeOK'
    BY <2>2, <2>3, <2>4, OthersOK DEF TypeOK
  <2>6. splits[s].owner # u => timers' = timers
    BY <2>2 DEF Owns
  <2>7. QED
    BY <2>2, <2>3, <2>4, <2>5, <2>6
<1>3. QED
  BY <1>1, <1>2

LEMMA SheetTypeOK ==
  ASSUME TypeOK, NEW r \in Requests, PostInsert(r) \/ ModifyUpdate(r)
  PROVE  /\ TypeOK'
         /\ splits' = splits /\ timers' = timers
         /\ req' = [req EXCEPT ![r] = req'[r]]
         /\ req'[r].user \in Users
         /\ \A k \in Keys : /\ sheet[k] # NoRow => sheet'[k] # NoRow
                            /\ sheet'[k] # sheet[k] => k[1] = req'[r].user
<1> DEFINE q == req[r]
           k == <<q.user, q.start>>
<1>1. /\ splits' = splits /\ timers' = timers
      /\ q.op \in Ops /\ q.user \in Users /\ q.start \in Starts /\ q.timer \in DOMAIN timers
  BY DEF PostInsert, ModifyUpdate, TypeOK, RequestOK
<1>2. k \in Keys /\ k[1] = q.user
  BY <1>1
<1>3. q.timer # NoRow
  BY <1>1, Rows
<1>4. sheet' = sheet \/ sheet' = [sheet EXCEPT ![k] = q.timer]
  BY DEF PostInsert, ModifyUpdate
<1>5. /\ req' = [req EXCEPT ![r] = req'[r]]
      /\ RequestOK(req[r])' /\ req'[r].user = q.user
  <2>1. CASE \E op \in Ops, status \in Statuses : Answer(r, op, q.user, status)
    BY <1>1, <2>1, RecordOK
  <2>2. CASE req' = [req EXCEPT ![r] = [Opened("post_timer", q.user) EXCEPT
                                          !.start = q.start, !.status = "ok"]]
    BY <1>1, <2>2 DEF TypeOK, RequestOK, Opened, Blank
  <2>3. QED
    BY <2>1, <2>2 DEF PostInsert, ModifyUpdate
<1> HIDE DEF q, k
<1>6. sheet' \in [Keys -> {NoRow} \cup DOMAIN timers]
  BY <1>1, <1>2, <1>4 DEF TypeOK
<1>7. TypeOK'
  BY <1>1, <1>5, <1>6, OthersOK DEF TypeOK
<1>8. \A l \in Keys : l # k => sheet'[l] = sheet[l]
  BY <1>2, <1>4 DEF TypeOK
<1>9. sheet'[k] = sheet[k] \/ sheet'[k] = q.timer
  BY <1>2, <1>4 DEF TypeOK
<1>10. QED
  BY <1>1, <1>2, <1>3, <1>5, <1>7, <1>8, <1>9

LEMMA ReadsTypeOK ==
  ASSUME TypeOK, NEW r \in Requests,
         \/ \E u \in Callers : ListSplits(r, u)
         \/ ListTimers(r)
         \/ \E u \in Users, t \in DOMAIN timers, i \in Starts :
              PostCheck(r, u, t, i) \/ ModifyCheck(r, u, t, i)
         \/ \E u \in Callers : GetTimers(r, u)
         \/ RefuseAnonymous(r)
         \/ Abandon(r)
  PROVE  /\ TypeOK'
         /\ splits' = splits /\ timers' = timers /\ sheet' = sheet
         /\ req' = [req EXCEPT ![r] = req'[r]]
         /\ req'[r].pc \notin {"insert_timers"}
<1>1. splits' = splits /\ timers' = timers /\ sheet' = sheet
  BY DEF ListSplits, ListTimers, PostCheck, ModifyCheck, GetTimers, RefuseAnonymous, Abandon
<1>2. req[r].op \in Ops /\ req[r].user \in Callers
  BY DEF TypeOK, RequestOK
<1>3. /\ req' = [req EXCEPT ![r] = req'[r]]
      /\ RequestOK(req[r])' /\ req'[r].pc \notin {"insert_timers"}
  <2>1. CASE \E u \in Callers : ListSplits(r, u)
    <3>1. PICK u \in Callers, found \in SUBSET DOMAIN splits :
            req' = [req EXCEPT ![r] = [Opened("get_time_splits", u) EXCEPT
                                         !.pc = "select_timers", !.found = found]]
      BY <2>1 DEF ListSplits, ListableBy
    <3>2. QED
      BY <1>1, <3>1 DEF TypeOK, RequestOK, Opened, Blank
  <2>2. CASE ListTimers(r)
    BY <1>1, <1>2, <2>2 DEF ListTimers, TypeOK, RequestOK, Opened, Blank
  <2>3. CASE \E u \in Users, t \in DOMAIN timers, i \in Starts :
               PostCheck(r, u, t, i) \/ ModifyCheck(r, u, t, i)
    <3>1. PICK u \in Users, t \in DOMAIN timers, i \in Starts :
                 PostCheck(r, u, t, i) \/ ModifyCheck(r, u, t, i)
      BY <2>3
    <3>2. CASE \E op \in Ops, status \in Statuses : Answer(r, op, u, status)
      BY <3>2, RecordOK
    <3>3. CASE \E op \in {"post_timer", "modify_timer"}, pc \in {"insert_sheet", "update_sheet"} :
                 req' = [req EXCEPT ![r] = [Opened(op, u) EXCEPT
                                              !.pc = pc, !.timer = t, !.start = i]]
      BY <1>1, <3>1, <3>3 DEF TypeOK, RequestOK, Opened, Blank
    <3>4. QED
      BY <3>1, <3>2, <3>3 DEF PostCheck, ModifyCheck
  <2>4. CASE \E u \in Callers : GetTimers(r, u)
    <3>1. PICK u \in Callers, answer \in SUBSET Keys :
            req' = [req EXCEPT ![r] = [Opened("get_timers", u) EXCEPT
                                         !.status = "ok", !.latest = answer]]
      <4>1. PICK u \in Callers : GetTimers(r, u)
        BY <2>4
      <4>2. Newest(VisibleRows(u)) \subseteq Keys
        BY DEF Newest, VisibleRows
      <4>3. QED
        BY <4>1, <4>2 DEF GetTimers
    <3>2. QED
      BY <1>1, <3>1 DEF TypeOK, RequestOK, Opened, Blank
  <2>5. CASE RefuseAnonymous(r) \/ Abandon(r)
    BY <1>2, <2>5, RecordOK DEF RefuseAnonymous, Abandon
  <2>6. QED
    BY <2>1, <2>2, <2>3, <2>4, <2>5
<1>4. TypeOK'
  BY <1>1, <1>3, OthersOK DEF TypeOK
<1>5. QED
  BY <1>1, <1>3, <1>4

LEMMA NextTypeOK == TypeOK /\ [Next]_vars => TypeOK'
<1> SUFFICES ASSUME TypeOK, [Next]_vars
             PROVE  TypeOK'
  OBVIOUS
<1>1. CASE UNCHANGED vars
  BY <1>1 DEF vars, TypeOK, RequestOK
<1>2. ASSUME NEW r \in Requests, Step(r)
      PROVE  TypeOK'
  BY <1>2, SplitsTypeOK, TimersTypeOK, SheetTypeOK, ReadsTypeOK DEF Step
<1>3. QED
  BY <1>1, <1>2 DEF Next

\* Every foreign key of the three tables refers to a row, and every request
\* holds the arguments its next statement needs, in every reachable state.
THEOREM TypeCorrect == Spec => []TypeOK
  BY InitTypeOK, NextTypeOK, PTL DEF Spec

-----------------------------------------------------------------------------
(* Action properties.                                                      *)

\* No statement of any handler undoes a soft delete, moves a row or loses one.
THEOREM NothingIsUndone == Spec => RowsOnlyMoveForward
<1> DEFINE Forward ==
      /\ \A s \in DOMAIN splits :
          /\ s \in DOMAIN splits'
          /\ splits'[s].owner = splits[s].owner
          /\ splits[s].described => splits'[s].described
          /\ splits[s].deleted => splits'[s].deleted
      /\ \A t \in DOMAIN timers :
          /\ t \in DOMAIN timers'
          /\ timers'[t].split = timers[t].split
          /\ timers'[t].order = timers[t].order
          /\ timers[t].deleted => timers'[t].deleted
      /\ \A k \in Keys : sheet[k] # NoRow => sheet'[k] # NoRow
<1>1. TypeOK /\ [Next]_vars => [Forward]_vars
  <2> SUFFICES ASSUME TypeOK, NEW r \in Requests, Step(r)
               PROVE  Forward
    BY DEF Next
  <2>1. CASE \/ \E u \in Users, n \in 0..MaxLen, d \in BOOLEAN : CreateSplit(r, u, n, d)
             \/ \E u \in Users, s \in DOMAIN splits, d \in BOOLEAN : ModifySplit(r, u, s, d)
             \/ DeleteSplit(r)
    BY <2>1, SplitsTypeOK
  <2>2. CASE InsertTimers(r) \/ \E u \in Users, s \in DOMAIN splits : DeleteTimers(r, u, s)
    BY <2>2, TimersTypeOK
  <2>3. CASE PostInsert(r) \/ ModifyUpdate(r)
    BY <2>3, SheetTypeOK
  <2>4. CASE splits' = splits /\ timers' = timers /\ sheet' = sheet
    BY <2>4
  <2>5. QED
    BY <2>1, <2>2, <2>3, <2>4, ReadsTypeOK DEF Step
<1>2. QED
  BY <1>1, TypeCorrect, PTL DEF Spec, RowsOnlyMoveForward

\* Rows change only in a step of a request of their owner.
THEOREM OwnersOnly == Spec => OnlyOwnersWrite
<1> DEFINE Owned ==
             /\ \A s \in DOMAIN splits' :
                  s \notin DOMAIN splits \/ RowsOf(s)' # RowsOf(s) => ActsFor(splits'[s].owner)
             /\ \A k \in Keys : sheet'[k] # sheet[k] => ActsFor(k[1])
<1>1. ASSUME TypeOK, NEW r \in Requests, Step(r)
      PROVE  Owned
  <2>1. ASSUME req' = [req EXCEPT ![r] = req'[r]], req'[r].user \in Users
        PROVE  ActsFor(req'[r].user)
    BY <2>1, <1>1 DEF TypeOK, ActsFor
  <2>2. CASE \/ \E u \in Users, n \in 0..MaxLen, d \in BOOLEAN : CreateSplit(r, u, n, d)
             \/ \E u \in Users, s \in DOMAIN splits, d \in BOOLEAN : ModifySplit(r, u, s, d)
             \/ DeleteSplit(r)
    <3>1. /\ timers' = timers /\ sheet' = sheet /\ req' = [req EXCEPT ![r] = req'[r]]
          /\ \A s \in DOMAIN splits' :
               s \notin DOMAIN splits \/ splits'[s] # splits[s] =>
                 splits'[s].owner = req'[r].user /\ req'[r].user \in Users
      BY <1>1, <2>2, SplitsTypeOK
    <3>2. \A s : TimersOf(s)' = TimersOf(s) /\ LiveTimersOf(s)' = LiveTimersOf(s)
      BY <3>1 DEF TimersOf, LiveTimersOf
    <3>3. QED
      BY <2>1, <3>1, <3>2 DEF RowsOf
  <2>3. CASE InsertTimers(r) \/ \E u \in Users, s \in DOMAIN splits : DeleteTimers(r, u, s)
    <3>1. PICK x \in DOMAIN splits :
            /\ splits[x].owner # req'[r].user => timers' = timers
            /\ \A t \in DOMAIN timers :
                 timers[t].split # x => timers'[t].deleted = timers[t].deleted
            /\ \A t \in DOMAIN timers' \ DOMAIN timers : timers'[t].split = x
      BY <1>1, <2>3, TimersTypeOK
    <3>2. /\ splits' = splits /\ sheet' = sheet
          /\ DOMAIN timers \subseteq DOMAIN timers'
          /\ \A t \in DOMAIN timers : timers'[t].split = timers[t].split
          /\ ActsFor(req'[r].user)
      BY <1>1, <2>1, <2>3, TimersTypeOK
    <3>3. ASSUME NEW s \in DOMAIN splits, s # x
          PROVE  TimersOf(s)' = TimersOf(s) /\ LiveTimersOf(s)' = LiveTimersOf(s)
      BY <3>1, <3>2, <3>3 DEF TimersOf, LiveTimersOf
    <3>4. timers' = timers => TimersOf(x)' = TimersOf(x) /\ LiveTimersOf(x)' = LiveTimersOf(x)
      BY DEF TimersOf, LiveTimersOf
    <3>5. QED
      BY <3>1, <3>2, <3>3, <3>4 DEF RowsOf
  <2>4. CASE PostInsert(r) \/ ModifyUpdate(r)
    <3>1. /\ splits' = splits /\ timers' = timers /\ ActsFor(req'[r].user)
          /\ \A k \in Keys : sheet'[k] # sheet[k] => k[1] = req'[r].user
      BY <1>1, <2>1, <2>4, SheetTypeOK
    <3>2. \A s : TimersOf(s)' = TimersOf(s) /\ LiveTimersOf(s)' = LiveTimersOf(s)
      BY <3>1 DEF TimersOf, LiveTimersOf
    <3>3. QED
      BY <3>1, <3>2 DEF RowsOf
  <2>5. CASE splits' = splits /\ timers' = timers /\ sheet' = sheet
    BY <2>5 DEF RowsOf, TimersOf, LiveTimersOf
  <2>6. QED
    BY <1>1, <2>2, <2>3, <2>4, <2>5, ReadsTypeOK DEF Step
<1>2. TypeOK /\ [Next]_vars => [Owned]_vars
  BY <1>1 DEF Next
<1>3. QED
  BY <1>2, TypeCorrect, PTL DEF Spec, OnlyOwnersWrite

-----------------------------------------------------------------------------
(* The timers of a split.                                                  *)

\* The split that a request is still to insert the timers of has none yet, and
\* no other request is to insert timers for it.
Fresh ==
  \A r \in Requests : req[r].pc = "insert_timers" =>
    /\ TimersOf(req[r].split) = {}
    /\ \A q \in Requests \ {r} :
         req[q].pc = "insert_timers" => req[q].split # req[r].split

\* TimersLiveOrDieTogether is not inductive alone: the INSERT of a split's
\* timers must not meet timers of that split which are deleted already.
IInv == TypeOK /\ Fresh /\ TimersLiveOrDieTogether

LEMMA InitIInv == Init => IInv
<1> SUFFICES ASSUME Init
             PROVE  IInv
  OBVIOUS
<1>1. Fresh
  BY DEF Init, Blank, Fresh
<1>2. \A t \in DOMAIN timers : ~timers[t].deleted
  <2>1. timers = BatchRows(1, MaxLen) /\ MaxLen \in Nat
    BY TimekeeperAssumption DEF Init
  <2>2. \A s, n \in Nat : \A i \in DOMAIN BatchRows(s, n) : ~BatchRows(s, n)[i].deleted
    BY BatchRowsType
  <2>3. QED
    BY <2>1, <2>2
<1>3. TimersLiveOrDieTogether
  <2>1. \A s : LiveTimersOf(s) = TimersOf(s)
    BY <1>2 DEF TimersOf, LiveTimersOf
  <2>2. QED
    BY <2>1 DEF TimersLiveOrDieTogether
<1>4. QED
  BY <1>1, <1>3, InitTypeOK DEF IInv

\* A step that changes no timer and leads no request to an INSERT of timers.
LEMMA FreshKept ==
  ASSUME IInv, NEW r \in Requests, TypeOK',
         timers' = timers, req' = [req EXCEPT ![r] = req'[r]],
         req'[r].pc # "insert_timers"
  PROVE  Fresh'
<1>1. \A x : TimersOf(x)' = TimersOf(x)
  BY DEF TimersOf
<1>2. \A p \in Requests \ {r} : req'[p] = req[p]
  BY DEF IInv, TypeOK
<1>3. QED
  BY <1>1, <1>2 DEF IInv, Fresh

LEMMA TogetherKept ==
  ASSUME IInv, TypeOK', timers' = timers
  PROVE  TimersLiveOrDieTogether'
<1>1. \A s : TimersOf(s)' = TimersOf(s) /\ LiveTimersOf(s)' = LiveTimersOf(s)
  BY DEF TimersOf, LiveTimersOf
<1>2. ASSUME NEW s \in DOMAIN splits', s \notin DOMAIN splits
      PROVE  TimersOf(s) = {} /\ LiveTimersOf(s) = {}
  BY <1>2 DEF IInv, TypeOK, TimersOf, LiveTimersOf
<1>3. QED
  BY <1>1, <1>2 DEF IInv, TimersLiveOrDieTogether

LEMMA InsertTimersIInv ==
  ASSUME IInv, NEW r \in Requests, InsertTimers(r)
  PROVE  IInv'
<1> DEFINE s == req[r].split
           batch == BatchRows(s, req[r].len)
<1>1. /\ s \in DOMAIN splits /\ s \in Nat /\ req[r].len \in Nat
      /\ req[r].pc = "insert_timers"
      /\ timers' = timers \o batch /\ splits' = splits
      /\ req' = [req EXCEPT ![r] = req'[r]] /\ req'[r].pc # "insert_timers"
      /\ TypeOK'
  <2>1. /\ req[r].pc = "insert_timers" /\ timers' = timers \o batch
        /\ s \in DOMAIN splits /\ req[r].len \in Nat
    BY DEF InsertTimers, IInv, TypeOK, RequestOK
  <2>2. req'[r].pc # "insert_timers"
    BY DEF InsertTimers, Answer, Opened, Blank, IInv, TypeOK
  <2>3. splits' = splits /\ req' = [req EXCEPT ![r] = req'[r]] /\ TypeOK'
    BY TimersTypeOK DEF IInv
  <2>4. s \in Nat
    BY <2>1, Rows DEF IInv
  <2>5. QED
    BY <2>1, <2>2, <2>3, <2>4
<1>2. \A x, n \in Nat : /\ BatchRows(x, n) \in Seq(TimerRow)
                        /\ \A i \in DOMAIN BatchRows(x, n) :
                             BatchRows(x, n)[i].split = x /\ ~BatchRows(x, n)[i].deleted
  BY BatchRowsType
<1>3. /\ batch \in Seq(TimerRow)
      /\ \A i \in DOMAIN batch : batch[i].split = s /\ ~batch[i].deleted
  <2>1. s \in Nat /\ req[r].len \in Nat
    BY <1>1
  <2>2. QED
    BY <1>2, <2>1
<1>4. timers \in Seq(TimerRow) /\ TypeOK
  BY DEF IInv, TypeOK
<1> HIDE DEF batch
<1>5. /\ \A t \in DOMAIN timers : t \in DOMAIN timers' /\ timers'[t] = timers[t]
      /\ \A t \in DOMAIN timers' \ DOMAIN timers : timers'[t].split = s /\ ~timers'[t].deleted
  BY <1>1, <1>3, <1>4
<1>6. TimersOf(s) = {}
  BY <1>1 DEF IInv, Fresh
<1> HIDE DEF s
<1>7. ASSUME NEW x, x # s
      PROVE  {t \in DOMAIN timers' : timers'[t].split = x} = TimersOf(x)
  BY <1>5, <1>7 DEF TimersOf
<1>8. \A t \in DOMAIN timers' : timers'[t].split = s => ~timers'[t].deleted
  BY <1>5, <1>6 DEF TimersOf
<1>9. TimersLiveOrDieTogether'
  <2>1. ASSUME NEW x \in DOMAIN splits, x # s
        PROVE  LiveTimersOf(x)' \in {{}, TimersOf(x)'}
    <3>1. TimersOf(x)' = TimersOf(x) /\ LiveTimersOf(x)' = LiveTimersOf(x)
      BY <1>5, <1>7, <2>1 DEF TimersOf, LiveTimersOf
    <3>2. QED
      BY <3>1 DEF IInv, TimersLiveOrDieTogether
  <2>2. ASSUME NEW x \in DOMAIN splits, x = s
        PROVE  LiveTimersOf(x)' = TimersOf(x)'
    BY <1>8, <2>2 DEF TimersOf, LiveTimersOf
  <2>3. QED
    BY <1>1, <2>1, <2>2 DEF TimersLiveOrDieTogether
<1>10. Fresh'
  <2> SUFFICES ASSUME NEW p \in Requests, req'[p].pc = "insert_timers"
               PROVE  /\ TimersOf(req[p].split)' = {}
                      /\ \A q \in Requests \ {p} :
                           req'[q].pc = "insert_timers" => req'[q].split # req'[p].split
    BY DEF Fresh
  <2>1. p # r /\ \A q \in Requests \ {r} : req'[q] = req[q]
    BY <1>1, <1>4 DEF TypeOK
  <2>2. req[p].split # s /\ TimersOf(req[p].split) = {}
    BY <1>1, <2>1 DEF IInv, Fresh, s
  <2>3. TimersOf(req[p].split)' = {}
    BY <2>1, <2>2, <1>5 DEF TimersOf
  <2>4. QED
    BY <1>1, <2>1, <2>3 DEF IInv, Fresh
<1>11. QED
  BY <1>1, <1>9, <1>10 DEF IInv

LEMMA DeleteTimersIInv ==
  ASSUME IInv, NEW r \in Requests, NEW u \in Users, NEW s \in DOMAIN splits,
         DeleteTimers(r, u, s)
  PROVE  IInv'
<1>1. /\ TypeOK' /\ TypeOK /\ splits' = splits
      /\ req' = [req EXCEPT ![r] = req'[r]]
  BY TimersTypeOK DEF IInv
<1>2. req'[r].pc # "insert_timers"
  BY DEF DeleteTimers, Opened, Blank, IInv, TypeOK
<1>3. CASE timers' = timers
  BY <1>1, <1>2, <1>3, FreshKept, TogetherKept DEF IInv
<1>4. CASE timers' = MarkTimers(s)
  <2>1. /\ DOMAIN timers' = DOMAIN timers
        /\ \A t \in DOMAIN timers :
              /\ timers'[t].split = timers[t].split
              /\ timers'[t].deleted <=> timers[t].deleted \/ timers[t].split = s
    BY <1>1, <1>4, MarkTimersType
  <2>2. \A x : TimersOf(x)' = TimersOf(x)
    BY <2>1 DEF TimersOf
  <2>3. LiveTimersOf(s)' = {}
    BY <2>1, <2>2 DEF TimersOf, LiveTimersOf
  <2>4. ASSUME NEW x, x # s
        PROVE  LiveTimersOf(x)' = LiveTimersOf(x)
    BY <2>1, <2>2, <2>4 DEF TimersOf, LiveTimersOf
  <2>5. TimersLiveOrDieTogether'
    BY <1>1, <2>2, <2>3, <2>4 DEF IInv, TimersLiveOrDieTogether
  <2>6. Fresh'
    BY <1>1, <1>2, <2>2 DEF IInv, TypeOK, Fresh
  <2>7. QED
    BY <1>1, <2>5, <2>6 DEF IInv
<1>5. QED
  BY <1>3, <1>4 DEF DeleteTimers

LEMMA CreateSplitIInv ==
  ASSUME IInv, NEW r \in Requests, NEW u \in Users, NEW n \in 0..MaxLen, NEW d \in BOOLEAN,
         CreateSplit(r, u, n, d)
  PROVE  IInv'
<1>1. TypeOK' /\ TypeOK /\ timers' = timers /\ req' = [req EXCEPT ![r] = req'[r]]
  BY SplitsTypeOK DEF IInv
<1>2. req'[r].pc = "insert_timers" /\ req'[r].split = Len(splits) + 1
  BY <1>1 DEF CreateSplit, Opened, Blank, TypeOK
<1>3. TimersOf(Len(splits) + 1) = {}
  BY <1>1, Rows DEF TypeOK, TimersOf
<1>4. \A q \in Requests : req[q].pc = "insert_timers" => req[q].split # Len(splits) + 1
  BY <1>1, Rows DEF TypeOK, RequestOK
<1>5. \A q \in Requests \ {r} : req'[q] = req[q]
  BY <1>1 DEF TypeOK
<1>6. \A x : TimersOf(x)' = TimersOf(x)
  BY <1>1 DEF TimersOf
<1>7. Fresh'
  BY <1>2, <1>3, <1>4, <1>5, <1>6 DEF IInv, Fresh
<1>8. QED
  BY <1>1, <1>7, TogetherKept DEF IInv

LEMMA NextIInv == IInv /\ [Next]_vars => IInv'
<1> SUFFICES ASSUME IInv, [Next]_vars
             PROVE  IInv'
  OBVIOUS
<1>1. TypeOK /\ TypeOK'
  BY NextTypeOK DEF IInv
<1>2. CASE UNCHANGED vars
  BY <1>1, <1>2, TogetherKept DEF vars, IInv, Fresh, TimersOf
<1>3. ASSUME NEW r \in Requests, Step(r)
      PROVE  IInv'
  <2>1. CASE \/ \E u \in Users, s \in DOMAIN splits, d \in BOOLEAN : ModifySplit(r, u, s, d)
             \/ DeleteSplit(r)
    <3>1. timers' = timers /\ req' = [req EXCEPT ![r] = req'[r]]
      BY <1>1, <2>1, SplitsTypeOK
    <3>2. req'[r].pc # "insert_timers"
      BY <1>1, <2>1 DEF ModifySplit, DeleteSplit, Answer, Opened, Blank, TypeOK
    <3>3. QED
      BY <1>1, <3>1, <3>2, FreshKept, TogetherKept DEF IInv
  <2>2. CASE PostInsert(r) \/ ModifyUpdate(r)
    <3>1. timers' = timers /\ req' = [req EXCEPT ![r] = req'[r]]
      BY <1>1, <2>2, SheetTypeOK
    <3>2. req'[r].pc # "insert_timers"
      BY <1>1, <2>2 DEF PostInsert, ModifyUpdate, Answer, Opened, Blank, TypeOK
    <3>3. QED
      BY <1>1, <3>1, <3>2, FreshKept, TogetherKept DEF IInv
  <2>3. CASE /\ timers' = timers /\ req' = [req EXCEPT ![r] = req'[r]]
             /\ req'[r].pc # "insert_timers"
    BY <1>1, <2>3, FreshKept, TogetherKept DEF IInv
  <2>4. CASE \E u \in Users, n \in 0..MaxLen, d \in BOOLEAN : CreateSplit(r, u, n, d)
    BY <2>4, CreateSplitIInv
  <2>5. CASE InsertTimers(r)
    BY <2>5, InsertTimersIInv
  <2>6. CASE \E u \in Users, s \in DOMAIN splits : DeleteTimers(r, u, s)
    BY <2>6, DeleteTimersIInv
  <2>7. QED
    BY <1>1, <1>3, <2>1, <2>2, <2>3, <2>4, <2>5, <2>6, ReadsTypeOK DEF Step
<1>4. QED
  BY <1>2, <1>3 DEF Next

\* No interleaving of creates, deletes and abandoned requests ever leaves a split
\* with some of its timers deleted and others not.
THEOREM LiveOrDieTogether == Spec => []TimersLiveOrDieTogether
<1>1. IInv => TimersLiveOrDieTogether
  BY DEF IInv
<1>2. QED
  BY <1>1, InitIInv, NextIInv, PTL DEF Spec

-----------------------------------------------------------------------------
(* The timesheet.                                                          *)

\* PostedOnce with the keys in the domain of the table.
PostedInv == PostedOnce /\ \A r \in Requests : Posted(r) => KeyOf(r) \in Keys

\* A step that is not a successful post makes no request a successful post, and
\* with the rows that exist kept, those that succeeded stay apart.
LEMMA PostedKept ==
  ASSUME TypeOK, PostedInv, NEW r \in Requests, req' = [req EXCEPT ![r] = req'[r]],
         ~Posted(r)',
         \A k \in Keys : sheet[k] # NoRow => sheet'[k] # NoRow
  PROVE  PostedInv'
<1>1. \A q \in Requests \ {r} : req'[q] = req[q]
  BY DEF TypeOK
<1>2. \A q \in Requests : Posted(q)' => q # r /\ Posted(q) /\ KeyOf(q)' = KeyOf(q)
  BY <1>1 DEF Posted, KeyOf, Ready
<1>3. \A q \in Requests : Posted(q)' => sheet'[KeyOf(q)'] # NoRow /\ KeyOf(q)' \in Keys
  BY <1>2 DEF PostedInv, PostedOnce
<1>4. QED
  BY <1>2, <1>3 DEF PostedInv, PostedOnce

LEMMA PostInsertPosted ==
  ASSUME TypeOK, PostedInv, NEW r \in Requests, PostInsert(r)
  PROVE  PostedInv'
<1> DEFINE k == <<req[r].user, req[r].start>>
<1>1. /\ req' = [req EXCEPT ![r] = req'[r]]
      /\ \A l \in Keys : sheet[l] # NoRow => sheet'[l] # NoRow
  BY SheetTypeOK
<1>2. CASE ~PrimaryKeyFree(k)
  <2>1. ~Posted(r)'
    BY <1>2 DEF PostInsert, Posted, Answer, Opened, Blank, TypeOK
  <2>2. QED
    BY <1>1, <2>1, PostedKept
<1>3. CASE PrimaryKeyFree(k)
  <2>1. /\ k \in Keys /\ req[r].timer # NoRow
        /\ sheet' = [sheet EXCEPT ![k] = req[r].timer]
        /\ sheet[k] = NoRow
    <3>1. req[r].user \in Users /\ req[r].start \in Starts /\ req[r].timer \in DOMAIN timers
      BY DEF PostInsert, TypeOK, RequestOK
    <3>2. QED
      BY <1>3, <3>1, Rows DEF PostInsert, PrimaryKeyFree
  <2>2. req'[r].user = req[r].user /\ req'[r].start = req[r].start
    BY <1>3 DEF PostInsert, Opened, Blank, TypeOK
  <2>3. KeyOf(r)' = k /\ sheet'[k] # NoRow
    BY <2>1, <2>2 DEF KeyOf, TypeOK
  <2>4. \A q \in Requests \ {r} : Posted(q)' => Posted(q) /\ KeyOf(q)' = KeyOf(q)
    BY <1>1 DEF TypeOK, Posted, KeyOf, Ready
  <2>5. \A q \in Requests : Posted(q) => KeyOf(q) # k /\ KeyOf(q) \in Keys /\ sheet[KeyOf(q)] # NoRow
    BY <2>1 DEF PostedInv, PostedOnce
  <2> HIDE DEF k
  <2>6. \A q \in Requests \ {r} :
          Posted(q)' => /\ KeyOf(q)' # k /\ KeyOf(q)' \in Keys
                        /\ sheet'[KeyOf(q)'] # NoRow
    BY <1>1, <2>4, <2>5
  <2>7. \A p, q \in Requests : p # q /\ Posted(p)' /\ Posted(q)' => KeyOf(p)' # KeyOf(q)'
    BY <2>3, <2>4, <2>6 DEF PostedInv, PostedOnce
  <2>8. QED
    BY <2>1, <2>3, <2>6, <2>7 DEF PostedInv, PostedOnce
<1>4. QED
  BY <1>2, <1>3

LEMMA NextPosted == TypeOK /\ PostedInv /\ [Next]_vars => PostedInv'
<1> SUFFICES ASSUME TypeOK, PostedInv, [Next]_vars
             PROVE  PostedInv'
  OBVIOUS
<1>1. CASE UNCHANGED vars
  BY <1>1 DEF vars, PostedInv, PostedOnce, Posted, KeyOf, Ready
<1>2. ASSUME NEW r \in Requests, Step(r), ~PostInsert(r)
      PROVE  PostedInv'
  <2>1. ~Posted(r)'
    <3>1. CASE \/ \E u \in Users, n \in 0..MaxLen, d \in BOOLEAN : CreateSplit(r, u, n, d)
               \/ \E u \in Users, s \in DOMAIN splits, d \in BOOLEAN : ModifySplit(r, u, s, d)
               \/ \E u \in Users, s \in DOMAIN splits : DeleteTimers(r, u, s)
      BY <3>1 DEF CreateSplit, ModifySplit, DeleteTimers, Posted, Answer, Opened, Blank, TypeOK
    <3>2. CASE \/ \E u \in Callers : ListSplits(r, u) \/ GetTimers(r, u)
               \/ \E u \in Users, t \in DOMAIN timers, i \in Starts :
                    PostCheck(r, u, t, i) \/ ModifyCheck(r, u, t, i)
      BY <3>2 DEF ListSplits, GetTimers, PostCheck, ModifyCheck, Posted, Ready, Answer,
                  Opened, Blank, TypeOK
    <3>3. CASE \/ InsertTimers(r) \/ ListTimers(r) \/ DeleteSplit(r) \/ ModifyUpdate(r)
               \/ RefuseAnonymous(r) \/ Abandon(r)
      BY <3>3 DEF InsertTimers, ListTimers, DeleteSplit, ModifyUpdate, RefuseAnonymous,
                  Abandon, Posted, Answer, Opened, Blank, TypeOK
    <3>4. QED
      BY <1>2, <3>1, <3>2, <3>3 DEF Step
  <2>2. /\ req' = [req EXCEPT ![r] = req'[r]]
        /\ sheet' = sheet \/ ModifyUpdate(r)
    BY <1>2, SplitsTypeOK, TimersTypeOK, SheetTypeOK, ReadsTypeOK DEF Step
  <2>3. \A k \in Keys : sheet[k] # NoRow => sheet'[k] # NoRow
    BY <2>2, SheetTypeOK
  <2>4. QED
    BY <2>1, <2>2, <2>3, PostedKept
<1>3. QED
  BY <1>1, <1>2, PostInsertPosted DEF Next

\* However many requests race to post a timer of one user at one start time, at
\* most one of them is told that it succeeded, and its row stays.
THEOREM OnePostWins == Spec => []PostedOnce
<1>1. Init => PostedInv
  BY DEF Init, Blank, PostedInv, PostedOnce, Posted
<1>2. PostedInv => PostedOnce
  BY DEF PostedInv
<1>3. QED
  BY <1>1, <1>2, NextPosted, TypeCorrect, PTL DEF Spec

-----------------------------------------------------------------------------
(* Listings.                                                               *)

\* The n timers of split s follow timer b, in the order of their indexes.
Batch(s, b, n) ==
  /\ TimersOf(s) = (b + 1)..(b + n)
  /\ \A i \in 1..n : timers[b + i].order = i - 1

Batched == \A s \in DOMAIN splits : \E b \in Nat, n \in Nat : Batch(s, b, n)

\* What a request has read of the splits, and has listed under split s.
FoundOK(q) == \A s \in q.found : splits[s].owner = q.user

ListOK(q, s) ==
  /\ s \in DOMAIN splits /\ splits[s].owner = q.user
  /\ q.listed[s] # <<>> =>
       /\ TimersOf(s) # {}
       /\ {q.listed[s][i] : i \in DOMAIN q.listed[s]} = TimersOf(s)
       /\ \A i \in DOMAIN q.listed[s] : timers[q.listed[s][i]].order = i - 1

ReadOK(q) == FoundOK(q) /\ \A s \in DOMAIN q.listed : ListOK(q, s)

LInv == IInv /\ Batched /\ \A r \in Requests : ReadOK(req[r])

\* InOrder lists a batch from its first timer to its last: timer b + j is the one
\* that exactly the j - 1 timers between b and itself come before.
LEMMA InOrderOfBatch ==
  ASSUME NEW s, NEW b \in Nat, NEW n \in Nat, Batch(s, b, n)
  PROVE  InOrder(TimersOf(s)) = [i \in 1..n |-> b + i]
<1> DEFINE ids == (b + 1)..(b + n)
           before(t) == {x \in ids : timers[x].order < timers[t].order}
<1>1. TimersOf(s) = ids /\ \A i \in 1..n : timers[b + i].order = i - 1
  BY DEF Batch
<1>2. Cardinality(ids) = n
  BY FS_Interval
<1>3. ASSUME NEW j \in 1..n
      PROVE  Cardinality(before(b + j)) = j - 1
  <2>1. \A x \in ids : x - b \in 1..n /\ timers[x].order = x - b - 1
    <3>1. ASSUME NEW x \in ids
          PROVE  x - b \in 1..n /\ x = b + (x - b)
      OBVIOUS
    <3>2. QED
      BY <1>1, <3>1
  <2>2. before(b + j) = (b + 1)..(b + j - 1)
    BY <2>1
  <2>3. Cardinality((b + 1)..(b + j - 1)) = j - 1
    <3>1. b + 1 \in Int /\ b + j - 1 \in Int
      OBVIOUS
    <3>2. Cardinality((b + 1)..(b + j - 1)) =
            IF b + 1 > b + j - 1 THEN 0 ELSE (b + j - 1) - (b + 1) + 1
      BY <3>1, FS_Interval
    <3>3. QED
      BY <3>2
  <2>4. QED
    BY <2>2, <2>3
<1> HIDE DEF before
<1>4. \A j \in 1..n : (CHOOSE t \in ids : Cardinality(before(t)) = j - 1) = b + j
  <2> SUFFICES ASSUME NEW j \in 1..n
               PROVE  (CHOOSE t \in ids : Cardinality(before(t)) = j - 1) = b + j
    OBVIOUS
  <2>1. b + j \in ids /\ Cardinality(before(b + j)) = j - 1
    BY <1>3
  <2>2. ASSUME NEW t \in ids, Cardinality(before(t)) = j - 1
        PROVE  t = b + j
    <3>1. t - b \in 1..n /\ t = b + (t - b)
      OBVIOUS
    <3>2. Cardinality(before(b + (t - b))) = t - b - 1
      BY <1>3, <3>1
    <3>3. QED
      BY <2>2, <3>1, <3>2
  <2>3. QED
    BY <2>1, <2>2
<1>5. InOrder(ids) = [i \in 1..n |-> CHOOSE t \in ids : Cardinality(before(t)) = i - 1]
  BY <1>2 DEF InOrder, before
<1>6. QED
  BY <1>1, <1>4, <1>5

LEMMA InitLInv == Init => LInv
<1> SUFFICES ASSUME Init
             PROVE  LInv
  OBVIOUS
<1>1. TypeOK /\ IInv
  BY InitTypeOK, InitIInv
<1>2. DOMAIN splits = {1}
  BY DEF Init
<1>3. MaxLen \in Nat /\ timers = BatchRows(1, MaxLen)
  BY TimekeeperAssumption DEF Init
<1>4. /\ DOMAIN timers = 1..MaxLen
      /\ \A i \in 1..MaxLen : timers[i].order = i - 1
  BY <1>3, BatchRowsOrder
<1>5. \A t \in DOMAIN timers : timers[t].split = 1
  BY <1>3, BatchRowsType
<1>6. Batch(1, 0, MaxLen)
  BY <1>3, <1>4, <1>5 DEF Batch, TimersOf
<1>7. Batched
  BY <1>2, <1>3, <1>6 DEF Batched
<1>8. \A r \in Requests : req[r].found = {} /\ DOMAIN req[r].listed = {}
  BY DEF Init, Blank
<1>9. QED
  BY <1>1, <1>7, <1>8 DEF LInv, ReadOK, FoundOK

\* The timers of a split that has some stay what they are, and in their places.
LEMMA TimersKept ==
  ASSUME IInv, [Next]_vars
  PROVE  /\ \A s \in DOMAIN splits : s \in DOMAIN splits' /\ splits'[s].owner = splits[s].owner
         /\ \A t \in DOMAIN timers : t \in DOMAIN timers' /\ timers'[t].order = timers[t].order
         /\ \A s : TimersOf(s) # {} => TimersOf(s)' = TimersOf(s)
<1>1. TypeOK
  BY DEF IInv
<1>2. CASE UNCHANGED vars
  BY <1>2 DEF vars, TimersOf
<1>3. ASSUME NEW r \in Requests, Step(r)
      PROVE  /\ \A s \in DOMAIN splits : s \in DOMAIN splits' /\ splits'[s].owner = splits[s].owner
             /\ \A t \in DOMAIN timers : t \in DOMAIN timers' /\ timers'[t].order = timers[t].order
             /\ \A s : TimersOf(s) # {} => TimersOf(s)' = TimersOf(s)
  <2>1. CASE \/ \E u \in Users, n \in 0..MaxLen, d \in BOOLEAN : CreateSplit(r, u, n, d)
             \/ \E u \in Users, s \in DOMAIN splits, d \in BOOLEAN : ModifySplit(r, u, s, d)
             \/ DeleteSplit(r)
    BY <1>1, <2>1, SplitsTypeOK DEF TimersOf
  <2>2. CASE \E u \in Users, s \in DOMAIN splits : DeleteTimers(r, u, s)
    <3>1. splits' = splits
      BY <1>1, <2>2, TimersTypeOK
    <3>2. PICK s \in DOMAIN splits : timers' = MarkTimers(s) \/ timers' = timers
      BY <2>2 DEF DeleteTimers
    <3>3. /\ DOMAIN timers' = DOMAIN timers
          /\ \A t \in DOMAIN timers : /\ timers'[t].split = timers[t].split
                                      /\ timers'[t].order = timers[t].order
      BY <1>1, <3>2, MarkTimersType
    <3>4. QED
      BY <3>1, <3>3 DEF TimersOf
  <2>3. CASE InsertTimers(r)
    <3>1. splits' = splits
      BY <1>1, <2>3, TimersTypeOK
    <3>2. /\ req[r].pc = "insert_timers" /\ req[r].split \in Nat /\ req[r].len \in Nat
          /\ timers' = timers \o BatchRows(req[r].split, req[r].len)
      BY <1>1, <2>3, Rows DEF InsertTimers, TypeOK, RequestOK
    <3>3. /\ \A t \in DOMAIN timers : t \in DOMAIN timers' /\ timers'[t] = timers[t]
          /\ \A t \in DOMAIN timers' \ DOMAIN timers : timers'[t].split = req[r].split
      <4> DEFINE batch == BatchRows(req[r].split, req[r].len)
      <4>1. batch \in Seq(TimerRow)
        BY <3>2, BatchRowsType
      <4>2. \A i \in DOMAIN batch : batch[i].split = req[r].split
        BY <3>2, BatchRowsSplit
      <4>3. timers \in Seq(TimerRow) /\ timers' = timers \o batch
        BY <1>1, <3>2 DEF TypeOK
      <4> HIDE DEF batch
      <4>4. QED
        BY <4>1, <4>2, <4>3
    <3>4. TimersOf(req[r].split) = {}
      BY <3>2 DEF IInv, Fresh
    <3>5. QED
      BY <3>1, <3>3, <3>4 DEF TimersOf
  <2>4. CASE PostInsert(r) \/ ModifyUpdate(r)
    BY <1>1, <2>4, SheetTypeOK DEF TimersOf
  <2>5. CASE splits' = splits /\ timers' = timers
    BY <2>5 DEF TimersOf
  <2>6. QED
    BY <1>1, <1>3, <2>1, <2>2, <2>3, <2>4, <2>5, ReadsTypeOK DEF Step
<1>4. QED
  BY <1>2, <1>3 DEF Next

\* One INSERT makes one batch, of all the timers submitted and of nothing else.
LEMMA InsertedBatch ==
  ASSUME IInv, NEW r \in Requests, InsertTimers(r),
         NEW s, s = req[r].split, NEW b, b = Len(timers), NEW n, n = req[r].len
  PROVE  /\ s \in DOMAIN splits /\ b \in Nat /\ n \in Nat
         /\ TimersOf(s) = {} /\ Batch(s, b, n)'
         /\ LiveTimersOf(s)' = TimersOf(s)'
         /\ \A x : x # s => TimersOf(x)' = TimersOf(x) /\ LiveTimersOf(x)' = LiveTimersOf(x)
<1> DEFINE batch == BatchRows(s, n)
<1>1. /\ s \in DOMAIN splits /\ s \in Nat /\ n \in Nat /\ b \in Nat
      /\ timers' = timers \o batch
      /\ timers \in Seq(TimerRow) /\ DOMAIN timers = 1..b /\ Len(timers) = b
  BY Rows DEF IInv, InsertTimers, TypeOK, RequestOK
<1>2. TimersOf(s) = {}
  BY DEF InsertTimers, IInv, Fresh
<1>3. /\ batch \in Seq(TimerRow) /\ Len(batch) = n
      /\ \A i \in 1..n :
           batch[i].split = s /\ batch[i].order = i - 1 /\ ~batch[i].deleted
  <2>1. \A x, m \in Nat :
          /\ BatchRows(x, m) \in Seq(TimerRow) /\ Len(BatchRows(x, m)) = m
          /\ \A i \in DOMAIN BatchRows(x, m) :
               BatchRows(x, m)[i].split = x /\ ~BatchRows(x, m)[i].deleted
    BY BatchRowsType
  <2>2. DOMAIN batch = 1..n /\ \A i \in 1..n : batch[i].order = i - 1
    BY <1>1, BatchRowsOrder
  <2>3. /\ batch \in Seq(TimerRow) /\ Len(batch) = n
        /\ \A i \in DOMAIN batch : batch[i].split = s /\ ~batch[i].deleted
    BY ONLY <1>1, <2>1
  <2> HIDE DEF batch
  <2>4. QED
    BY <2>2, <2>3
<1> HIDE DEF batch
<1>4. /\ DOMAIN timers' = 1..(b + n)
      /\ \A t \in 1..b : timers'[t] = timers[t]
      /\ \A i \in 1..n : timers'[b + i] = batch[i]
  <2>1. DOMAIN timers' = 1..(b + n)
    BY <1>1, <1>3
  <2>2. \A t \in 1..b : timers'[t] = timers[t]
    BY <1>1, <1>3
  <2>3. ASSUME NEW i \in 1..n
        PROVE  timers'[b + i] = batch[i]
    BY <1>1, <1>3
  <2>4. QED
    BY <2>1, <2>2, <2>3
<1>5. \A t \in 1..b : timers'[t].split # s
  BY <1>1, <1>2, <1>4 DEF TimersOf
<1>6. \A t \in (b + 1)..(b + n) : timers'[t].split = s /\ ~timers'[t].deleted
  <2>1. ASSUME NEW t \in (b + 1)..(b + n)
        PROVE  timers'[t].split = s /\ ~timers'[t].deleted
    <3>1. PICK i : i = t - b
      OBVIOUS
    <3>2. i \in 1..n /\ t = b + i
      BY <1>1, <3>1
    <3>3. timers'[t] = batch[i]
      BY <1>4, <3>2
    <3>4. QED
      BY <1>3, <3>2, <3>3
  <2>2. QED
    BY <2>1
<1>7. /\ \A t \in 1..(b + n) : t \in 1..b \/ t \in (b + 1)..(b + n)
      /\ (b + 1)..(b + n) \subseteq 1..(b + n)
      /\ 1..b \subseteq 1..(b + n)
  BY <1>1
<1>8. TimersOf(s)' = (b + 1)..(b + n)
  BY <1>4, <1>5, <1>6, <1>7, Zenon DEF TimersOf
<1>9. Batch(s, b, n)'
  <2>1. ASSUME NEW i \in 1..n
        PROVE  timers'[b + i].order = i - 1
    <3>1. timers'[b + i] = batch[i] /\ batch[i].order = i - 1
      BY <1>3, <1>4
    <3>2. QED
      BY <3>1
  <2>2. QED
    BY <1>8, <2>1 DEF Batch
<1>10. LiveTimersOf(s)' = TimersOf(s)'
  BY <1>6, <1>8 DEF LiveTimersOf
<1>11. ASSUME NEW x, x # s
       PROVE  TimersOf(x)' = TimersOf(x) /\ LiveTimersOf(x)' = LiveTimersOf(x)
  <2>1. TimersOf(x)' = TimersOf(x)
    BY <1>1, <1>4, <1>6, <1>7, <1>11, Zenon DEF TimersOf
  <2>2. \A t \in TimersOf(x) : timers'[t] = timers[t]
    BY <1>1, <1>4 DEF TimersOf
  <2>3. QED
    BY <2>1, <2>2 DEF LiveTimersOf
<1>12. QED
  BY <1>1, <1>2, <1>9, <1>10, <1>11

\* Every split's timers are one batch, because only a split without any is given
\* timers, all of them by one INSERT.
LEMMA NextBatched == LInv /\ [Next]_vars => Batched'
<1> SUFFICES ASSUME LInv, [Next]_vars, NEW s \in DOMAIN splits'
             PROVE  \E b \in Nat, n \in Nat : Batch(s, b, n)'
  BY DEF Batched
<1>1. TypeOK /\ TypeOK' /\ IInv
  BY NextTypeOK DEF LInv, IInv
<1>2. CASE TimersOf(s) # {}
  <2>1. s \in DOMAIN splits
    BY <1>1, <1>2 DEF TypeOK, TimersOf
  <2>2. PICK b \in Nat, n \in Nat : Batch(s, b, n)
    BY <2>1 DEF LInv, Batched
  <2>3. TimersOf(s)' = TimersOf(s) /\ \A t \in TimersOf(s) : timers'[t].order = timers[t].order
    BY <1>1, <1>2, TimersKept DEF TimersOf
  <2>4. \A i \in 1..n : b + i \in TimersOf(s)
    BY <2>2 DEF Batch
  <2>5. Batch(s, b, n)'
    BY <2>2, <2>3, <2>4 DEF Batch
  <2>6. QED
    BY <2>5
<1>3. CASE TimersOf(s)' = {}
  <2>1. Batch(s, 0, 0)'
    BY <1>3 DEF Batch
  <2>2. QED
    BY <2>1
<1>4. CASE TimersOf(s) = {} /\ TimersOf(s)' # {}
  <2>1. PICK r \in Requests : Step(r)
    BY <1>4 DEF Next, vars, TimersOf
  <2>2. timers' # timers
    BY <1>4 DEF TimersOf
  <2>3. InsertTimers(r) \/ \E u \in Users, x \in DOMAIN splits : DeleteTimers(r, u, x)
    BY <1>1, <2>1, <2>2, SplitsTypeOK, SheetTypeOK, ReadsTypeOK DEF Step
  <2>4. ASSUME NEW u \in Users, NEW x \in DOMAIN splits, DeleteTimers(r, u, x)
        PROVE  FALSE
    <3>1. timers' = MarkTimers(x)
      BY <2>2, <2>4 DEF DeleteTimers
    <3>2. QED
      BY <1>1, <1>4, <3>1, MarkTimersType DEF TimersOf
  <2>5. PICK x, b, n : x = req[r].split /\ b = Len(timers) /\ n = req[r].len
    OBVIOUS
  <2>6. /\ b \in Nat /\ n \in Nat /\ Batch(x, b, n)'
        /\ s # x => TimersOf(s)' = TimersOf(s)
    BY <1>1, <2>3, <2>4, <2>5, InsertedBatch
  <2>7. QED
    BY <1>4, <2>6
<1>5. QED
  BY <1>2, <1>3, <1>4

\* What a request has read stays true of the tables under any step that leaves
\* the request alone.
LEMMA ReadKept ==
  ASSUME LInv, [Next]_vars, NEW p \in Requests, req'[p] = req[p]
  PROVE  ReadOK(req[p])'
<1>1. /\ \A s \in DOMAIN splits : s \in DOMAIN splits' /\ splits'[s].owner = splits[s].owner
      /\ \A t \in DOMAIN timers : t \in DOMAIN timers' /\ timers'[t].order = timers[t].order
      /\ \A s : TimersOf(s) # {} => TimersOf(s)' = TimersOf(s)
  BY TimersKept DEF LInv
<1>2. ReadOK(req[p]) /\ req[p].found \subseteq DOMAIN splits
  BY DEF LInv, IInv, TypeOK, RequestOK
<1>3. FoundOK(req[p])'
  BY <1>1, <1>2 DEF ReadOK, FoundOK
<1>4. ASSUME NEW s \in DOMAIN req[p].listed
      PROVE  ListOK(req[p], s)'
  <2>1. ListOK(req[p], s)
    BY <1>2 DEF ReadOK
  <2>2. \A t \in TimersOf(s) : timers'[t].order = timers[t].order
    BY <1>1 DEF TimersOf
  <2>3. CASE req[p].listed[s] = <<>>
    BY <1>1, <2>1, <2>3 DEF ListOK
  <2>4. CASE req[p].listed[s] # <<>>
    <3>1. \A i \in DOMAIN req[p].listed[s] : req[p].listed[s][i] \in TimersOf(s)
      BY <2>1, <2>4 DEF ListOK
    <3>2. TimersOf(s)' = TimersOf(s)
      BY <1>1, <2>1, <2>4 DEF ListOK
    <3>3. s \in DOMAIN splits' /\ splits'[s].owner = req'[p].user
      BY <1>1, <2>1 DEF ListOK
    <3>4. \A i \in DOMAIN req'[p].listed[s] : timers'[req'[p].listed[s][i]].order = i - 1
      BY <2>1, <2>2, <2>4, <3>1 DEF ListOK
    <3>5. QED
      BY <2>1, <2>4, <3>2, <3>3, <3>4 DEF ListOK
  <2>5. QED
    BY <2>3, <2>4
<1>5. QED
  BY <1>3, <1>4 DEF ReadOK

\* The list of one split: nothing, or its batch.
LEMMA ListedBatch ==
  ASSUME LInv, NEW s \in DOMAIN splits, LiveTimersOf(s) # {}
  PROVE  LET ids == InOrder(LiveTimersOf(s)) IN
         /\ {ids[i] : i \in DOMAIN ids} = TimersOf(s)
         /\ \A i \in DOMAIN ids : timers[ids[i]].order = i - 1
<1> DEFINE ids == InOrder(LiveTimersOf(s))
<1>1. LiveTimersOf(s) = TimersOf(s)
  BY DEF LInv, IInv, TimersLiveOrDieTogether
<1>2. PICK b \in Nat, n \in Nat : Batch(s, b, n)
  BY DEF LInv, Batched
<1>3. ids = [i \in 1..n |-> b + i]
  BY <1>1, <1>2, InOrderOfBatch
<1> HIDE DEF ids
<1>4. \A t \in (b + 1)..(b + n) : t - b \in 1..n /\ t = b + (t - b)
  OBVIOUS
<1>5. {ids[i] : i \in DOMAIN ids} = (b + 1)..(b + n)
  <2>1. \A i \in 1..n : ids[i] = b + i /\ b + i \in (b + 1)..(b + n)
    BY <1>3
  <2>2. \A t \in (b + 1)..(b + n) : t - b \in 1..n /\ ids[t - b] = t
    BY <1>3, <1>4
  <2>3. DOMAIN ids = 1..n
    BY <1>3
  <2>4. QED
    BY <2>1, <2>2, <2>3
<1>6. \A i \in DOMAIN ids : timers[ids[i]].order = i - 1
  BY <1>2, <1>3 DEF Batch
<1>7. QED
  BY <1>2, <1>5, <1>6 DEF ids, Batch

LEMMA EmptyInOrder == InOrder({}) = <<>>
<1>1. Cardinality({}) = 0
  BY FS_EmptySet
<1>2. QED
  BY <1>1 DEF InOrder

\* What a request has just read.
LEMMA ReadMade ==
  ASSUME LInv, NEW r \in Requests, Step(r)
  PROVE  ReadOK(req[r])'
<1>1. TypeOK /\ TypeOK'
  BY NextTypeOK DEF LInv, IInv, Next
<1>2. ASSUME req'[r].found = {}, DOMAIN req'[r].listed = {}
      PROVE  ReadOK(req[r])'
  BY <1>2 DEF ReadOK, FoundOK
<1>3. CASE ListTimers(r)
  <2> DEFINE q == req[r]
             new == [Opened("get_time_splits", q.user) EXCEPT
                       !.status = "ok",
                       !.listed = [s \in q.found |-> InOrder(LiveTimersOf(s))]]
  <2>1. req' = [req EXCEPT ![r] = new] /\ splits' = splits /\ timers' = timers
    BY <1>3 DEF ListTimers
  <2>2. req'[r] = new
    BY <1>1, <2>1 DEF TypeOK
  <2>3. /\ new.found = {} /\ new.user = q.user
        /\ new.listed = [s \in q.found |-> InOrder(LiveTimersOf(s))]
    BY DEF Opened, Blank
  <2>4. q.found \subseteq DOMAIN splits /\ \A s \in q.found : splits[s].owner = q.user
    BY <1>1 DEF LInv, ReadOK, FoundOK, TypeOK, RequestOK
  <2> HIDE DEF q, new
  <2>5. FoundOK(req[r])'
    BY <2>2, <2>3 DEF FoundOK
  <2>6. ASSUME NEW s \in q.found
        PROVE  /\ s \in DOMAIN splits /\ splits[s].owner = new.user
               /\ new.listed[s] # <<>> =>
                    /\ TimersOf(s) # {}
                    /\ {new.listed[s][i] : i \in DOMAIN new.listed[s]} = TimersOf(s)
                    /\ \A i \in DOMAIN new.listed[s] : timers[new.listed[s][i]].order = i - 1
    <3>1. s \in DOMAIN splits /\ splits[s].owner = new.user
          /\ new.listed[s] = InOrder(LiveTimersOf(s))
      BY <2>3, <2>4, <2>6
    <3>2. CASE LiveTimersOf(s) = {}
      BY <3>1, <3>2, EmptyInOrder
    <3>3. CASE LiveTimersOf(s) # {}
      <4>1. TimersOf(s) # {}
        BY <3>3 DEF LiveTimersOf
      <4>2. QED
        BY <3>1, <3>3, <4>1, ListedBatch
    <3>4. QED
      BY <3>2, <3>3
  <2>7. ASSUME NEW s \in DOMAIN req'[r].listed
        PROVE  ListOK(req[r], s)'
    <3>1. s \in q.found
      BY <2>2, <2>3
    <3>2. TimersOf(s)' = TimersOf(s)
      BY <2>1 DEF TimersOf
    <3>3. QED
      BY <2>1, <2>2, <2>6, <3>1, <3>2 DEF ListOK
  <2>8. QED
    BY <2>5, <2>7 DEF ReadOK
<1>4. CASE \E u \in Callers : ListSplits(r, u)
  <2>1. PICK u \in Callers : ListSplits(r, u)
    BY <1>4
  <2>2. splits' = splits /\ req'[r].found = ListableBy(u) /\ req'[r].user = u
        /\ DOMAIN req'[r].listed = {}
    BY <1>1, <2>1 DEF ListSplits, Opened, Blank, TypeOK
  <2>3. QED
    BY <2>2 DEF ReadOK, FoundOK, ListableBy
<1>5. ASSUME NEW op, NEW u, NEW status, Answer(r, op, u, status)
      PROVE  req'[r].found = {} /\ DOMAIN req'[r].listed = {}
  BY <1>1, <1>5 DEF Answer, Opened, Blank, TypeOK
<1>6. CASE \/ \E u \in Users, n \in 0..MaxLen, d \in BOOLEAN : CreateSplit(r, u, n, d)
           \/ \E u \in Users, s \in DOMAIN splits : DeleteTimers(r, u, s)
           \/ \E u \in Callers : GetTimers(r, u)
  <2>1. CASE \E u \in Users, n \in 0..MaxLen, d \in BOOLEAN : CreateSplit(r, u, n, d)
    BY <1>1, <1>2, <2>1 DEF CreateSplit, Opened, Blank, TypeOK
  <2>2. CASE \E u \in Users, s \in DOMAIN splits : DeleteTimers(r, u, s)
    BY <1>1, <1>2, <2>2 DEF DeleteTimers, Opened, Blank, TypeOK
  <2>3. CASE \E u \in Callers : GetTimers(r, u)
    <3>1. PICK u, answer : req' = [req EXCEPT ![r] = [Opened("get_timers", u) EXCEPT
                                     !.status = "ok", !.latest = answer]]
      BY <2>3 DEF GetTimers
    <3>2. QED
      BY <1>1, <1>2, <3>1 DEF Opened, Blank, TypeOK
  <2>4. QED
    BY <1>6, <2>1, <2>2, <2>3
<1>7. CASE \E u \in Users, t \in DOMAIN timers, i \in Starts :
             PostCheck(r, u, t, i) \/ ModifyCheck(r, u, t, i)
  <2>1. PICK u \in Users, t \in DOMAIN timers, i \in Starts :
               PostCheck(r, u, t, i) \/ ModifyCheck(r, u, t, i)
    BY <1>7
  <2>2. CASE \E op, status : Answer(r, op, u, status)
    BY <1>2, <1>5, <2>2
  <2>3. CASE \E op \in {"post_timer", "modify_timer"}, pc \in {"insert_sheet", "update_sheet"} :
               req' = [req EXCEPT ![r] = [Opened(op, u) EXCEPT
                                            !.pc = pc, !.timer = t, !.start = i]]
    BY <1>1, <1>2, <2>3 DEF Opened, Blank, TypeOK
  <2>4. QED
    BY <2>1, <2>2, <2>3 DEF PostCheck, ModifyCheck
<1>8. CASE PostInsert(r)
  <2>1. CASE Answer(r, "post_timer", req[r].user, "conflict")
    BY <1>2, <1>5, <2>1
  <2>2. CASE req' = [req EXCEPT ![r] = [Opened("post_timer", req[r].user) EXCEPT
                                          !.start = req[r].start, !.status = "ok"]]
    BY <1>1, <1>2, <2>2 DEF Opened, Blank, TypeOK
  <2>3. QED
    BY <1>8, <2>1, <2>2 DEF PostInsert
<1>9. CASE \/ InsertTimers(r) \/ DeleteSplit(r) \/ ModifyUpdate(r)
           \/ \E u \in Users, s \in DOMAIN splits, d \in BOOLEAN : ModifySplit(r, u, s, d)
           \/ RefuseAnonymous(r) \/ Abandon(r)
  <2>1. \E op, u, status : Answer(r, op, u, status)
    BY <1>9 DEF InsertTimers, DeleteSplit, ModifyUpdate, ModifySplit, RefuseAnonymous, Abandon
  <2>2. QED
    BY <1>2, <1>5, <2>1
<1>10. QED
  BY <1>3, <1>4, <1>6, <1>7, <1>8, <1>9 DEF Step

LEMMA NextLInv == LInv /\ [Next]_vars => LInv'
<1> SUFFICES ASSUME LInv, [Next]_vars
             PROVE  LInv'
  OBVIOUS
<1>1. IInv' /\ Batched'
  BY NextIInv, NextBatched DEF LInv
<1>2. CASE UNCHANGED vars
  BY <1>1, <1>2, ReadKept DEF vars, LInv
<1>3. ASSUME NEW r \in Requests, Step(r)
      PROVE  \A p \in Requests : ReadOK(req[p])'
  <2>1. req' = [req EXCEPT ![r] = req'[r]]
    BY <1>3, SplitsTypeOK, TimersTypeOK, SheetTypeOK, ReadsTypeOK DEF Step, LInv, IInv
  <2>2. \A p \in Requests \ {r} : req'[p] = req[p]
    BY <2>1 DEF LInv, IInv, TypeOK
  <2>3. QED
    BY <1>3, <2>2, ReadKept, ReadMade
<1>4. QED
  BY <1>1, <1>2, <1>3 DEF Next, LInv

\* A listing shows only splits of its caller, and the timers of each whole and in
\* order or not at all, whatever commits between its two statements and for as
\* long as its answer is looked at.
THEOREM ListingsAreWhole == Spec => []ListedWhole
<1>1. LInv => ListedWhole
  BY DEF LInv, ReadOK, ListOK, ListedWhole
<1>2. QED
  BY <1>1, InitLInv, NextLInv, PTL DEF Spec
-----------------------------------------------------------------------------
(* The tables as documents.                                                *)

\* A request holds a timer only for its next statement.
TimerOK(q) == q.timer = 0 \/ q.pc \in {"insert_sheet", "update_sheet"}

RInv == LInv /\ \A r \in Requests : TimerOK(req[r])

LEMMA HandleOfNone ==
  ASSUME TypeOK
  PROVE  HandleOf(0) = <<>>
  BY Rows DEF HandleOf

\* Ids keep their meaning.
LEMMA HandlesKept ==
  ASSUME LInv, [Next]_vars
  PROVE  /\ \A t \in DOMAIN timers : /\ t \in DOMAIN timers'
                                     /\ timers'[t].split = timers[t].split
                                     /\ timers'[t].order = timers[t].order
         /\ 0 \notin DOMAIN timers /\ 0 \notin DOMAIN timers'
<1>1. TypeOK /\ TypeOK'
  BY NextTypeOK DEF LInv, IInv
<1>2. 0 \notin DOMAIN timers /\ 0 \notin DOMAIN timers'
  BY <1>1 DEF TypeOK
<1>3. ASSUME NEW t \in DOMAIN timers
      PROVE  /\ t \in DOMAIN timers'
             /\ timers'[t].split = timers[t].split
             /\ timers'[t].order = timers[t].order
  <2>1. PICK s : s = timers[t].split
    OBVIOUS
  <2>2. t \in TimersOf(s)
    BY <2>1 DEF TimersOf
  <2>3. TimersOf(s)' = TimersOf(s)
    BY <2>2, TimersKept DEF LInv
  <2>4. t \in DOMAIN timers' /\ timers'[t].split = s
    BY <2>2, <2>3 DEF TimersOf
  <2>5. timers'[t].order = timers[t].order
    BY TimersKept DEF LInv
  <2>6. QED
    BY <2>1, <2>4, <2>5
<1>4. QED
  BY <1>2, <1>3

\* A call that a step leaves alone looks the same after it.
LEMMA CallKept ==
  ASSUME RInv, [Next]_vars, NEW p \in Requests, req'[p] = req[p]
  PROVE  CallOf(req[p])' = CallOf(req[p])
<1> DEFINE q == req[p]
<1>1. HandleOf(q.timer)' = HandleOf(q.timer)
  <2>1. q.timer = 0 \/ q.timer \in DOMAIN timers
    BY DEF RInv, TimerOK, LInv, IInv, TypeOK, RequestOK
  <2>2. QED
    BY <2>1, HandlesKept DEF RInv, HandleOf
<1>2. ASSUME NEW s \in DOMAIN q.listed, NEW i \in DOMAIN q.listed[s]
      PROVE  HandleOf(q.listed[s][i])' = HandleOf(q.listed[s][i])
  <2>1. ListOK(q, s)
    BY DEF RInv, LInv, ReadOK
  <2>2. q.listed[s] # <<>>
    BY <1>2
  <2>3. q.listed[s][i] \in DOMAIN timers
    BY <2>1, <2>2 DEF ListOK, TimersOf
  <2>4. QED
    BY <2>3, HandlesKept DEF RInv, HandleOf
<1>3. QED
  BY <1>1, <1>2 DEF CallOf

\* A step changes the call of one client.
LEMMA CallBecomes ==
  ASSUME RInv, [Next]_vars, NEW r \in Requests, req' = [req EXCEPT ![r] = req'[r]]
  PROVE  Packaged!Becomes(r, CallOf(req[r])')
<1>1. \A p \in Requests \ {r} : req'[p] = req[p]
  BY DEF RInv, LInv, IInv, TypeOK
<1>2. \A p \in Requests \ {r} : CallOf(req[p])' = CallOf(req[p])
  BY <1>1, CallKept
<1>3. QED
  BY <1>2 DEF Calls, Packaged!Becomes

\* A call of the documents, written out.
Record(user, next, doc, size, timer, start, found, status, listed, latest) ==
  [user |-> user, next |-> next, doc |-> doc, size |-> size, timer |-> timer,
   start |-> start, found |-> found, status |-> status, listed |-> listed, latest |-> latest]

\* The records of the documents' calls, field by field.
LEMMA AnsweredIs ==
  ASSUME NEW u, NEW status
  PROVE  Packaged!Answered(u, status) =
           Record(u, "ready", 0, 0, <<>>, 0, {}, status, <<>>, {})
<1> SUFFICES ASSUME NEW x, x = Packaged!Answered(u, status)
             PROVE  x = Record(u, "ready", 0, 0, <<>>, 0, {}, status, <<>>, {})
  OBVIOUS
<1>1. x \in
        [user : {u}, next : {"ready"}, doc : {0}, size : {0}, timer : {<<>>},
         start : {0}, found : {{}}, status : {status}, listed : {<<>>}, latest : {{}}]
  BY DEF Packaged!Blank, Packaged!NoTimer, Packaged!Answered
<1>2. QED
  BY ONLY <1>1 DEF Record

LEMMA PostedIs ==
  ASSUME NEW u, NEW i
  PROVE  [Packaged!Answered(u, "ok") EXCEPT !.start = i] =
           Record(u, "ready", 0, 0, <<>>, i, {}, "ok", <<>>, {})
<1> SUFFICES ASSUME NEW x, x = [Packaged!Answered(u, "ok") EXCEPT !.start = i]
             PROVE  x = Record(u, "ready", 0, 0, <<>>, i, {}, "ok", <<>>, {})
  OBVIOUS
<1>1. x \in
        [user : {u}, next : {"ready"}, doc : {0}, size : {0}, timer : {<<>>},
         start : {i}, found : {{}}, status : {"ok"}, listed : {<<>>}, latest : {{}}]
  BY DEF Packaged!Blank, Packaged!NoTimer, Packaged!Answered
<1>2. QED
  BY ONLY <1>1 DEF Record

LEMMA ShownIs ==
  ASSUME NEW u, NEW l
  PROVE  [Packaged!Answered(u, "ok") EXCEPT !.listed = l] =
           Record(u, "ready", 0, 0, <<>>, 0, {}, "ok", l, {})
<1> SUFFICES ASSUME NEW x, x = [Packaged!Answered(u, "ok") EXCEPT !.listed = l]
             PROVE  x = Record(u, "ready", 0, 0, <<>>, 0, {}, "ok", l, {})
  OBVIOUS
<1>1. x \in
        [user : {u}, next : {"ready"}, doc : {0}, size : {0}, timer : {<<>>},
         start : {0}, found : {{}}, status : {"ok"}, listed : {l}, latest : {{}}]
  BY DEF Packaged!Blank, Packaged!NoTimer, Packaged!Answered
<1>2. QED
  BY ONLY <1>1 DEF Record

LEMMA LatestIs ==
  ASSUME NEW u, NEW l
  PROVE  [Packaged!Answered(u, "ok") EXCEPT !.latest = l] =
           Record(u, "ready", 0, 0, <<>>, 0, {}, "ok", <<>>, l)
<1> SUFFICES ASSUME NEW x, x = [Packaged!Answered(u, "ok") EXCEPT !.latest = l]
             PROVE  x = Record(u, "ready", 0, 0, <<>>, 0, {}, "ok", <<>>, l)
  OBVIOUS
<1>1. x \in
        [user : {u}, next : {"ready"}, doc : {0}, size : {0}, timer : {<<>>},
         start : {0}, found : {{}}, status : {"ok"}, listed : {<<>>}, latest : {l}]
  BY DEF Packaged!Blank, Packaged!NoTimer, Packaged!Answered
<1>2. QED
  BY ONLY <1>1 DEF Record

LEMMA FillingIs ==
  ASSUME NEW u, NEW d, NEW n
  PROVE  [Packaged!Pending(u, "insert_timers") EXCEPT !.doc = d, !.size = n] =
           Record(u, "insert_timers", d, n, <<>>, 0, {}, "none", <<>>, {})
<1> SUFFICES ASSUME NEW x, x = [Packaged!Pending(u, "insert_timers") EXCEPT !.doc = d, !.size = n]
             PROVE  x = Record(u, "insert_timers", d, n, <<>>, 0, {}, "none", <<>>, {})
  OBVIOUS
<1>1. x \in
        [user : {u}, next : {"insert_timers"}, doc : {d}, size : {n}, timer : {<<>>},
         start : {0}, found : {{}}, status : {"none"}, listed : {<<>>}, latest : {{}}]
  BY DEF Packaged!Blank, Packaged!NoTimer, Packaged!Pending
<1>2. QED
  BY ONLY <1>1 DEF Record

LEMMA FoundIs ==
  ASSUME NEW u, NEW f
  PROVE  [Packaged!Pending(u, "select_timers") EXCEPT !.found = f] =
           Record(u, "select_timers", 0, 0, <<>>, 0, f, "none", <<>>, {})
<1> SUFFICES ASSUME NEW x, x = [Packaged!Pending(u, "select_timers") EXCEPT !.found = f]
             PROVE  x = Record(u, "select_timers", 0, 0, <<>>, 0, f, "none", <<>>, {})
  OBVIOUS
<1>1. x \in
        [user : {u}, next : {"select_timers"}, doc : {0}, size : {0}, timer : {<<>>},
         start : {0}, found : {f}, status : {"none"}, listed : {<<>>}, latest : {{}}]
  BY DEF Packaged!Blank, Packaged!NoTimer, Packaged!Pending
<1>2. QED
  BY ONLY <1>1 DEF Record

LEMMA DeletingIs ==
  ASSUME NEW u, NEW d
  PROVE  [Packaged!Pending(u, "delete_split") EXCEPT !.doc = d] =
           Record(u, "delete_split", d, 0, <<>>, 0, {}, "none", <<>>, {})
<1> SUFFICES ASSUME NEW x, x = [Packaged!Pending(u, "delete_split") EXCEPT !.doc = d]
             PROVE  x = Record(u, "delete_split", d, 0, <<>>, 0, {}, "none", <<>>, {})
  OBVIOUS
<1>1. x \in
        [user : {u}, next : {"delete_split"}, doc : {d}, size : {0}, timer : {<<>>},
         start : {0}, found : {{}}, status : {"none"}, listed : {<<>>}, latest : {{}}]
  BY DEF Packaged!Blank, Packaged!NoTimer, Packaged!Pending
<1>2. QED
  BY ONLY <1>1 DEF Record

LEMMA LookedIs ==
  ASSUME NEW u, NEW t, NEW i, NEW next
  PROVE  [Packaged!Pending(u, next) EXCEPT !.timer = t, !.start = i] =
           Record(u, next, 0, 0, t, i, {}, "none", <<>>, {})
<1> SUFFICES ASSUME NEW x, x = [Packaged!Pending(u, next) EXCEPT !.timer = t, !.start = i]
             PROVE  x = Record(u, next, 0, 0, t, i, {}, "none", <<>>, {})
  OBVIOUS
<1>1. x \in
        [user : {u}, next : {next}, doc : {0}, size : {0}, timer : {t},
         start : {i}, found : {{}}, status : {"none"}, listed : {<<>>}, latest : {{}}]
  BY DEF Packaged!Blank, Packaged!NoTimer, Packaged!Pending
<1>2. QED
  BY ONLY <1>1 DEF Record

\* A call after a step, unless it has just listed splits.
LEMMA RecordBecomes ==
  ASSUME RInv, [Next]_vars, NEW r \in Requests, req' = [req EXCEPT ![r] = req'[r]],
         req'[r].listed = <<>>, NEW t, HandleOf(req[r].timer)' = t
  PROVE  LET q == req'[r] IN
         Packaged!Becomes(r, Record(q.user, q.pc, q.split, q.len, t, q.start, q.found, q.status,
                                    <<>>, q.latest))
<1>1. [s \in DOMAIN req'[r].listed |->
         [i \in DOMAIN req'[r].listed[s] |-> HandleOf(req[r].listed[s][i])']] = <<>>
  OBVIOUS
<1>2. QED
  BY <1>1, CallBecomes DEF CallOf, Record

LEMMA NoHandle ==
  ASSUME RInv, [Next]_vars
  PROVE  HandleOf(0)' = <<>>
  BY HandlesKept DEF RInv, HandleOf

\* An answer in the tables' terms is the answer in those of the documents.
LEMMA AnswerBecomes ==
  ASSUME RInv, [Next]_vars, NEW r \in Requests, NEW op, NEW u, NEW status,
         Answer(r, op, u, status)
  PROVE  Packaged!Becomes(r, Packaged!Answered(u, status)) /\ TimerOK(req'[r])
<1> DEFINE q == [Opened(op, u) EXCEPT !.status = status]
<1>1. req' = [req EXCEPT ![r] = req'[r]] /\ req'[r] = q
  BY DEF Answer, RInv, LInv, IInv, TypeOK
<1>2. /\ q.user = u /\ q.pc = "ready" /\ q.split = 0 /\ q.len = 0 /\ q.timer = 0
      /\ q.start = 0 /\ q.found = {} /\ q.status = status /\ q.listed = <<>>
      /\ q.latest = {}
  BY DEF Opened, Blank
<1> HIDE DEF q
<1>3. HandleOf(req[r].timer)' = <<>>
  BY <1>1, <1>2, NoHandle
<1>4. TimerOK(req'[r])
  BY <1>1, <1>2 DEF TimerOK
<1>5. QED
  BY <1>1, <1>2, <1>3, <1>4, RecordBecomes, AnsweredIs

\* The size of a batch.
LEMMA BatchSize ==
  ASSUME NEW b \in Nat, NEW n \in Nat, NEW ids, ids = (b + 1)..(b + n)
  PROVE  Cardinality(ids) = n /\ (ids # {} <=> n > 0)
<1>1. Cardinality((b + 1)..(b + n)) = n
  <2>1. b + 1 \in Int /\ b + n \in Int
    OBVIOUS
  <2>2. Cardinality((b + 1)..(b + n)) = IF b + 1 > b + n THEN 0 ELSE (b + n) - (b + 1) + 1
    BY <2>1, FS_Interval
  <2>3. QED
    BY <2>2
<1>2. n > 0 => b + 1 \in (b + 1)..(b + n)
  OBVIOUS
<1>3. QED
  BY <1>1, <1>2

\* A timer is deleted if and only if its document's timers are gone, and it is
\* at one of the places of its document.
LEMMA Placed ==
  ASSUME LInv, NEW t \in DOMAIN timers
  PROVE  /\ timers[t].split \in DOMAIN splits
         /\ timers[t].deleted <=> Documents[timers[t].split].gone
         /\ HandleOf(t) \in Packaged!TimersIn(timers[t].split)
         /\ HandleOf(t)[1] = timers[t].split
         /\ HandleOf(t) # <<>>
<1> DEFINE s == timers[t].split
<1>1. s \in DOMAIN splits /\ t \in TimersOf(s) /\ timers[t].deleted \in BOOLEAN
  BY Rows DEF LInv, IInv, TypeOK, TimersOf, TimerRow
<1>2. LiveTimersOf(s) \in {{}, TimersOf(s)}
  BY <1>1 DEF LInv, IInv, TimersLiveOrDieTogether
<1>3. t \in LiveTimersOf(s) <=> ~timers[t].deleted
  BY <1>1 DEF LiveTimersOf
<1>4. Documents[s].gone <=> LiveTimersOf(s) = {}
  BY <1>1 DEF Documents, DocumentOf
<1>5. timers[t].deleted <=> Documents[s].gone
  BY <1>1, <1>2, <1>3, <1>4
<1>6. PICK b \in Nat, n \in Nat : Batch(s, b, n)
  BY <1>1 DEF LInv, Batched
<1>7. t - b \in 1..n /\ timers[t].order = (t - b) - 1
  <2>1. t \in (b + 1)..(b + n)
    BY <1>1, <1>6 DEF Batch
  <2>2. t - b \in 1..n /\ b + (t - b) = t
    BY <2>1
  <2>3. QED
    BY <1>6, <2>2 DEF Batch
<1>8. Documents[s].size = n
  BY <1>1, <1>6, BatchSize DEF Batch, Documents, DocumentOf
<1> HIDE DEF s
<1>9. HandleOf(t) = <<s, (t - b) - 1>>
  BY <1>7 DEF HandleOf, s
<1>10. HandleOf(t) \in Packaged!TimersIn(s)
  BY <1>7, <1>8, <1>9 DEF Packaged!TimersIn
<1>11. QED
  BY <1>1, <1>5, <1>9, <1>10 DEF s

\* The documents of tables that stay as they are.
LEMMA DocumentsKept ==
  ASSUME splits' = splits, timers' = timers
  PROVE  Documents' = Documents
  BY DEF Documents, DocumentOf, TimersOf, LiveTimersOf

LEMMA HandlesOfSheetKept ==
  ASSUME RInv, [Next]_vars, sheet' = sheet
  PROVE  Handles' = Handles
<1>1. \A k \in Keys : sheet[k] = 0 \/ sheet[k] \in DOMAIN timers
  BY DEF RInv, LInv, IInv, TypeOK
<1>2. \A k \in Keys : HandleOf(sheet[k])' = HandleOf(sheet[k])
  BY <1>1, HandlesKept DEF RInv, HandleOf
<1>3. QED
  BY <1>2 DEF Handles


\* A client's call, field by field.
LEMMA CallsAre ==
  ASSUME NEW r \in Requests
  PROVE  /\ Calls[r].next = req[r].pc /\ Calls[r].user = req[r].user
         /\ Calls[r].doc = req[r].split /\ Calls[r].size = req[r].len
         /\ Calls[r].timer = HandleOf(req[r].timer) /\ Calls[r].start = req[r].start
         /\ Calls[r].found = req[r].found
<1>1. Calls[r] = CallOf(req[r])
  BY DEF Calls
<1>2. QED
  BY <1>1 DEF CallOf, HandleOf

LEMMA DocumentsAre ==
  ASSUME NEW s \in DOMAIN splits
  PROVE  Documents[s] = DocumentOf(s)
  BY DEF Documents

\* One document changes.
LEMMA DocumentChanged ==
  ASSUME NEW s \in DOMAIN splits, DOMAIN splits' = DOMAIN splits,
         \A x \in DOMAIN splits : x # s => DocumentOf(x)' = DocumentOf(x)
  PROVE  Documents' = [Documents EXCEPT ![s] = DocumentOf(s)']
  BY DEF Documents

\* A row more is a document more.
LEMMA DocumentAdded ==
  ASSUME LInv, NEW u \in Callers, NEW d \in BOOLEAN, NEW new, new = Len(splits) + 1,
         splits' = Append(splits, [owner |-> u, described |-> d, deleted |-> FALSE]),
         timers' = timers
  PROVE  /\ Documents' = Append(Documents, Packaged!Document(u, d, 0))
         /\ Len(Documents) + 1 = new
<1> DEFINE row == [owner |-> u, described |-> d, deleted |-> FALSE]
           old == {DocumentOf(s) : s \in DOMAIN splits} \cup {Packaged!Document(u, d, 0)}
<1>1. /\ splits \in Seq(SplitRow) /\ row \in SplitRow
      /\ \A t \in DOMAIN timers : timers[t].split \in DOMAIN splits
  BY DEF LInv, IInv, TypeOK, SplitRow
<1>2. row.owner = u /\ row.described = d /\ row.deleted = FALSE
  OBVIOUS
<1> HIDE DEF row
<1>3. /\ Len(splits) \in Nat /\ DOMAIN splits = 1..Len(splits) /\ DOMAIN splits' = 1..new
      /\ \A s \in 1..Len(splits) : splits'[s] = splits[s]
      /\ splits'[new] = row
  BY <1>1 DEF row
<1>4. \A s \in 1..Len(splits) : DocumentOf(s)' = DocumentOf(s)
  BY <1>3 DEF DocumentOf, TimersOf, LiveTimersOf
<1>5. DocumentOf(new)' = Packaged!Document(u, d, 0)
  <2>1. new \notin DOMAIN splits
    BY <1>3
  <2>2. TimersOf(new)' = {}
    BY <1>1, <2>1 DEF TimersOf
  <2>3. Cardinality({}) = 0
    BY FS_EmptySet
  <2>4. splits'[new].owner = u /\ splits'[new].described = d /\ splits'[new].deleted = FALSE
    BY <1>2, <1>3
  <2>5. QED
    BY <2>2, <2>3, <2>4, Zenon DEF DocumentOf, Packaged!Document
<1>6. Documents \in Seq(old) /\ Len(Documents) = Len(splits)
  BY <1>3 DEF Documents
<1>7. /\ Append(Documents, Packaged!Document(u, d, 0)) \in Seq(old)
      /\ Len(Append(Documents, Packaged!Document(u, d, 0))) = new
      /\ \A s \in 1..Len(splits) : Append(Documents, Packaged!Document(u, d, 0))[s] = Documents[s]
      /\ Append(Documents, Packaged!Document(u, d, 0))[new] = Packaged!Document(u, d, 0)
  <2> DEFINE doc == Packaged!Document(u, d, 0)
  <2>1. doc \in old
    OBVIOUS
  <2> HIDE DEF doc, old
  <2>2. QED
    BY <1>6, <2>1, AppendProperties DEF doc
<1>8. /\ DOMAIN Documents' = 1..new
      /\ \A s \in 1..Len(splits) : Documents'[s] = Documents[s]
      /\ Documents'[new] = Packaged!Document(u, d, 0)
  <2>1. \A s \in 1..new : Documents'[s] = DocumentOf(s)'
    BY <1>3 DEF Documents
  <2>2. \A s \in 1..Len(splits) : Documents[s] = DocumentOf(s)
    BY <1>3 DEF Documents
  <2>3. new \in 1..new /\ 1..Len(splits) \subseteq 1..new
    BY <1>3
  <2>4. DOMAIN Documents' = 1..new
    BY <1>3 DEF Documents
  <2>5. QED
    BY <1>4, <1>5, <2>1, <2>2, <2>3, <2>4
<1>9. Documents' = Append(Documents, Packaged!Document(u, d, 0))
  <2>1. \A s \in 1..new : s \in 1..Len(splits) \/ s = new
    BY <1>3
  <2>2. \A s \in 1..new : Documents'[s] \in old
    <3>1. \A s \in 1..Len(splits) : Documents[s] \in old
      BY <1>3 DEF Documents
    <3>2. QED
      BY <1>8, <2>1, <3>1
  <2>3. Documents' = [s \in 1..new |-> Documents'[s]]
    BY <1>3, <1>8 DEF Documents
  <2>4. new \in Nat
    BY <1>3
  <2> HIDE DEF old
  <2>5. [s \in 1..new |-> Documents'[s]] \in Seq(old) /\ Len([s \in 1..new |-> Documents'[s]]) = new
    BY <2>2, <2>4
  <2>6. QED
    BY <1>7, <1>8, <2>1, <2>3, <2>5, SeqEqual
<1>10. QED
  BY <1>6, <1>9

LEMMA CreateSplitPackaged ==
  ASSUME RInv, [Next]_vars, NEW r \in Requests,
         NEW u \in Users, NEW n \in 0..MaxLen, NEW d \in BOOLEAN, CreateSplit(r, u, n, d),
         NEW new, new = Len(splits) + 1
  PROVE  Packaged!PackagedStep(r) /\ TimerOK(req'[r])
<1> DEFINE q == [Opened("create_time_split", u) EXCEPT
                   !.pc = "insert_timers", !.split = new, !.len = n]
<1>1. /\ req' = [req EXCEPT ![r] = req'[r]] /\ req'[r] = q /\ req[r].pc = "ready"
      /\ splits' = Append(splits, [owner |-> u, described |-> d, deleted |-> FALSE])
      /\ timers' = timers /\ sheet' = sheet
  BY DEF CreateSplit, Ready, RInv, LInv, IInv, TypeOK
<1>2. /\ q.user = u /\ q.pc = "insert_timers" /\ q.split = new /\ q.len = n
      /\ q.timer = 0 /\ q.start = 0 /\ q.found = {} /\ q.status = "none"
      /\ q.listed = <<>> /\ q.latest = {}
  BY DEF Opened, Blank
<1> HIDE DEF q
<1>3. HandleOf(req[r].timer)' = <<>>
  BY <1>1, <1>2, NoHandle
<1> DEFINE record == Record(u, "insert_timers", new, n, <<>>, 0, {}, "none", <<>>, {})
<1>4. Packaged!Becomes(r, record)
  BY <1>1, <1>2, <1>3, RecordBecomes
<1>5. [Packaged!Pending(u, "insert_timers") EXCEPT !.doc = new, !.size = n] = record
  BY FillingIs
<1> HIDE DEF record
<1>6. /\ Documents' = Append(Documents, Packaged!Document(u, d, 0))
      /\ Len(Documents) + 1 = new
  BY <1>1, DocumentAdded DEF RInv
<1>7. Handles' = Handles
  BY <1>1, HandlesOfSheetKept
<1>8. Packaged!Create(r, u, n, d)
  BY <1>1, <1>4, <1>5, <1>6, <1>7, CallsAre DEF Packaged!Create, Packaged!Idle
<1>9. TimerOK(req'[r])
  BY <1>1, <1>2 DEF TimerOK
<1>10. QED
  BY <1>8, <1>9 DEF Packaged!PackagedStep

\* A document, written out.
DocumentRecord(owner, described, size, gone, deleted) ==
  [owner |-> owner, described |-> described, size |-> size, gone |-> gone, deleted |-> deleted]

\* A change of one field of it.
WithDescribed(doc, v) == [doc EXCEPT !.described = v]
WithSize(doc, v) == [doc EXCEPT !.size = v]
WithGone(doc, v) == [doc EXCEPT !.gone = v]
WithDeleted(doc, v) == [doc EXCEPT !.deleted = v]

LEMMA FieldChanged ==
  ASSUME NEW o, NEW d, NEW n, NEW g, NEW x, NEW v
  PROVE  /\ WithDescribed(DocumentRecord(o, d, n, g, x), v) = DocumentRecord(o, v, n, g, x)
         /\ WithSize(DocumentRecord(o, d, n, g, x), v) = DocumentRecord(o, d, v, g, x)
         /\ WithGone(DocumentRecord(o, d, n, g, x), v) = DocumentRecord(o, d, n, v, x)
         /\ WithDeleted(DocumentRecord(o, d, n, g, x), v) = DocumentRecord(o, d, n, g, v)
<1>1. PICK doc : doc = DocumentRecord(o, d, n, g, x)
  OBVIOUS
<1>2. WithDescribed(doc, v) \in
        [owner : {o}, described : {v}, size : {n}, gone : {g}, deleted : {x}]
  BY <1>1 DEF DocumentRecord, WithDescribed
<1>3. WithSize(doc, v) \in
        [owner : {o}, described : {d}, size : {v}, gone : {g}, deleted : {x}]
  BY <1>1 DEF DocumentRecord, WithSize
<1>4. WithGone(doc, v) \in
        [owner : {o}, described : {d}, size : {n}, gone : {v}, deleted : {x}]
  BY <1>1 DEF DocumentRecord, WithGone
<1>5. WithDeleted(doc, v) \in
        [owner : {o}, described : {d}, size : {n}, gone : {g}, deleted : {v}]
  BY <1>1 DEF DocumentRecord, WithDeleted
<1>6. QED
  BY ONLY <1>1, <1>2, <1>3, <1>4, <1>5 DEF DocumentRecord

\* A document and the rows behind it.
LEMMA DocumentIs ==
  ASSUME NEW s, NEW gone, gone = (TimersOf(s) # {} /\ LiveTimersOf(s) = {})
  PROVE  DocumentOf(s) = DocumentRecord(splits[s].owner, splits[s].described,
                                        Cardinality(TimersOf(s)), gone, splits[s].deleted)
  BY Zenon DEF DocumentOf, DocumentRecord

LEMMA NextDocumentIs ==
  ASSUME NEW s, NEW gone, gone = (TimersOf(s)' # {} /\ LiveTimersOf(s)' = {})
  PROVE  DocumentOf(s)' = DocumentRecord(splits'[s].owner, splits'[s].described,
                                         Cardinality(TimersOf(s)'), gone, splits'[s].deleted)
  BY Zenon DEF DocumentOf, DocumentRecord

LEMMA InsertTimersPackaged ==
  ASSUME RInv, [Next]_vars, NEW r \in Requests, InsertTimers(r),
         NEW s, s = req[r].split, NEW b, b = Len(timers), NEW n, n = req[r].len
  PROVE  Packaged!PackagedStep(r) /\ TimerOK(req'[r])
<1>1. /\ Packaged!Becomes(r, Packaged!Answered(req[r].user, "ok")) /\ TimerOK(req'[r])
      /\ splits' = splits /\ sheet' = sheet /\ req[r].pc = "insert_timers"
  BY AnswerBecomes DEF InsertTimers
<1>2. /\ s \in DOMAIN splits /\ b \in Nat /\ n \in Nat
      /\ TimersOf(s) = {} /\ Batch(s, b, n)'
      /\ LiveTimersOf(s)' = TimersOf(s)'
      /\ \A x : x # s => TimersOf(x)' = TimersOf(x) /\ LiveTimersOf(x)' = LiveTimersOf(x)
  BY InsertedBatch DEF RInv, LInv
<1>3. \A x \in DOMAIN splits : x # s => DocumentOf(x)' = DocumentOf(x)
  BY <1>1, <1>2 DEF DocumentOf
<1>4. DocumentOf(s)' = WithSize(DocumentOf(s), n)
  <2>1. Cardinality(TimersOf(s)') = n
    <3>1. TimersOf(s)' = (b + 1)..(b + n)
      BY <1>2 DEF Batch
    <3>2. QED
      BY <1>2, <3>1, BatchSize
  <2>2. PICK gone : /\ gone = (TimersOf(s) # {} /\ LiveTimersOf(s) = {})
                    /\ gone = (TimersOf(s)' # {} /\ LiveTimersOf(s)' = {})
    BY <1>2
  <2>3. /\ DocumentOf(s) =
             DocumentRecord(splits[s].owner, splits[s].described, Cardinality(TimersOf(s)),
                            gone, splits[s].deleted)
        /\ DocumentOf(s)' =
             DocumentRecord(splits[s].owner, splits[s].described, n, gone, splits[s].deleted)
    BY <1>1, <2>1, <2>2, DocumentIs, NextDocumentIs
  <2>4. QED
    BY <2>3, FieldChanged
<1>5. Documents' = [Documents EXCEPT ![s] = WithSize(Documents[s], n)]
  BY <1>1, <1>2, <1>3, <1>4, DocumentChanged, DocumentsAre
<1>6. Handles' = Handles
  BY <1>1, HandlesOfSheetKept
<1>7. Packaged!Fill(r)
  BY <1>1, <1>5, <1>6, CallsAre DEF Packaged!Fill, WithSize
<1>8. QED
  BY <1>1, <1>7 DEF Packaged!PackagedStep

LEMMA ListSplitsPackaged ==
  ASSUME RInv, [Next]_vars, NEW r \in Requests, NEW u \in Callers, ListSplits(r, u),
         NEW found, found = ListableBy(u)
  PROVE  Packaged!PackagedStep(r) /\ TimerOK(req'[r])
<1> DEFINE q == [Opened("get_time_splits", u) EXCEPT !.pc = "select_timers", !.found = found]
           record == Record(u, "select_timers", 0, 0, <<>>, 0, found, "none", <<>>, {})
<1>1. /\ req' = [req EXCEPT ![r] = req'[r]] /\ req'[r] = q /\ req[r].pc = "ready"
      /\ splits' = splits /\ timers' = timers /\ sheet' = sheet
  BY DEF ListSplits, Ready, RInv, LInv, IInv, TypeOK
<1>2. /\ q.user = u /\ q.pc = "select_timers" /\ q.split = 0 /\ q.len = 0
      /\ q.timer = 0 /\ q.start = 0 /\ q.found = found /\ q.status = "none"
      /\ q.listed = <<>> /\ q.latest = {}
  BY DEF Opened, Blank
<1> HIDE DEF q
<1>3. HandleOf(req[r].timer)' = <<>>
  BY <1>1, <1>2, NoHandle
<1>4. Packaged!Becomes(r, record)
  BY <1>1, <1>2, <1>3, RecordBecomes
<1>5. [Packaged!Pending(u, "select_timers") EXCEPT !.found = found] = record
  BY FoundIs
<1> HIDE DEF record
<1>6. found = {s \in DOMAIN Documents : ~Documents[s].deleted /\ Documents[s].owner = u}
  BY DEF ListableBy, Documents, DocumentOf
<1>7. Documents' = Documents /\ Handles' = Handles
  BY <1>1, DocumentsKept, HandlesOfSheetKept
<1>8. Packaged!Find(r, u)
  BY <1>1, <1>4, <1>5, <1>6, <1>7, CallsAre DEF Packaged!Find, Packaged!Idle
<1>9. TimerOK(req'[r])
  BY <1>1, <1>2 DEF TimerOK
<1>10. QED
  BY <1>8, <1>9 DEF Packaged!PackagedStep

\* The timers of a split in order are those of its document.
LEMMA ShownInOrder ==
  ASSUME LInv, NEW s \in DOMAIN splits, NEW ids, ids = InOrder(LiveTimersOf(s))
  PROVE  [i \in DOMAIN ids |-> HandleOf(ids[i])] = Packaged!Shown(s)
<1>2. LiveTimersOf(s) \in {{}, TimersOf(s)}
  BY DEF LInv, IInv, TimersLiveOrDieTogether
<1>3. CASE TimersOf(s) # {} /\ LiveTimersOf(s) = {}
  <2>1. Documents[s].gone
    BY <1>3 DEF Documents, DocumentOf
  <2>2. ids = <<>>
    BY <1>3, EmptyInOrder
  <2>3. QED
    BY <2>1, <2>2 DEF Packaged!Shown
<1>4. CASE LiveTimersOf(s) = TimersOf(s)
  <2>1. PICK b \in Nat, n \in Nat : Batch(s, b, n)
    BY DEF LInv, Batched
  <2>2. ids = [i \in 1..n |-> b + i]
    BY <1>4, <2>1, InOrderOfBatch
  <2>3. ~Documents[s].gone /\ Documents[s].size = n
    BY <1>4, <2>1, BatchSize DEF Documents, DocumentOf, Batch
  <2>4. ASSUME NEW i \in 1..n
        PROVE  HandleOf(ids[i]) = <<s, i - 1>>
    <3>1. b + i \in TimersOf(s) /\ timers[b + i].order = i - 1
      BY <2>1 DEF Batch
    <3>2. QED
      BY <2>2, <3>1 DEF HandleOf, TimersOf
  <2>5. QED
    BY <2>2, <2>3, <2>4 DEF Packaged!Shown
<1>5. QED
  BY <1>2, <1>3, <1>4

LEMMA ListTimersPackaged ==
  ASSUME RInv, [Next]_vars, NEW r \in Requests, ListTimers(r),
         NEW u, u = req[r].user, NEW found, found = req[r].found,
         NEW l, l = [s \in found |-> InOrder(LiveTimersOf(s))]
  PROVE  Packaged!PackagedStep(r) /\ TimerOK(req'[r])
<1> DEFINE q == [Opened("get_time_splits", u) EXCEPT !.status = "ok", !.listed = l]
           shown == [s \in found |-> Packaged!Shown(s)]
<1>1. /\ req' = [req EXCEPT ![r] = req'[r]] /\ req'[r] = q /\ req[r].pc = "select_timers"
      /\ splits' = splits /\ timers' = timers /\ sheet' = sheet
  BY DEF ListTimers, RInv, LInv, IInv, TypeOK
<1>2. /\ q.user = u /\ q.pc = "ready" /\ q.split = 0 /\ q.len = 0
      /\ q.timer = 0 /\ q.start = 0 /\ q.found = {} /\ q.status = "ok"
      /\ q.listed = l /\ q.latest = {}
  BY DEF Opened, Blank
<1> HIDE DEF q
<1>3. HandleOf(0)' = <<>>
  BY NoHandle
<1>4. [s \in DOMAIN l |-> [i \in DOMAIN l[s] |-> HandleOf(l[s][i])']] = shown
  <2>1. found \subseteq DOMAIN splits
    BY DEF RInv, LInv, IInv, TypeOK, RequestOK
  <2>2. \A t : HandleOf(t)' = HandleOf(t)
    BY <1>1 DEF HandleOf
  <2>3. \A s \in found : [i \in DOMAIN l[s] |-> HandleOf(l[s][i])] = Packaged!Shown(s)
    BY <2>1, ShownInOrder DEF RInv
  <2>4. QED
    BY <2>2, <2>3
<1>5. Packaged!Becomes(r, Record(u, "ready", 0, 0, <<>>, 0, {}, "ok", shown, {}))
  <2> HIDE DEF shown
  <2>1. CallOf(req[r])' = Record(u, "ready", 0, 0, <<>>, 0, {}, "ok", shown, {})
    BY <1>1, <1>2, <1>3, <1>4 DEF CallOf, Record
  <2>2. QED
    BY <1>1, <2>1, CallBecomes
<1>6. [Packaged!Answered(u, "ok") EXCEPT !.listed = shown] =
        Record(u, "ready", 0, 0, <<>>, 0, {}, "ok", shown, {})
  <2> HIDE DEF shown
  <2>1. QED
    BY ShownIs
<1>7. Documents' = Documents /\ Handles' = Handles
  BY <1>1, DocumentsKept, HandlesOfSheetKept
<1>8. Packaged!Show(r)
  BY <1>1, <1>5, <1>6, <1>7, CallsAre DEF Packaged!Show
<1>9. TimerOK(req'[r])
  BY <1>1, <1>2 DEF TimerOK
<1>10. QED
  BY <1>8, <1>9 DEF Packaged!PackagedStep

\* A statement about a split changes its document if the caller owns it.
LEMMA ModifySplitPackaged ==
  ASSUME RInv, [Next]_vars, NEW r \in Requests,
         NEW u \in Users, NEW s \in DOMAIN splits, NEW d \in BOOLEAN, ModifySplit(r, u, s, d)
  PROVE  Packaged!PackagedStep(r) /\ TimerOK(req'[r])
<1>1. /\ Packaged!Becomes(r, Packaged!Answered(u, "ok")) /\ TimerOK(req'[r])
      /\ timers' = timers /\ sheet' = sheet /\ req[r].pc = "ready"
      /\ splits' = IF Owns(u, s) THEN SetDescription(s, d) ELSE splits
  BY AnswerBecomes DEF ModifySplit, Ready
<1>2. Documents[s] = DocumentOf(s) /\ Documents[s].owner = splits[s].owner
  BY DEF Documents, DocumentOf
<1>3. ASSUME Owns(u, s)
      PROVE  Documents' = [Documents EXCEPT ![s] = WithDescribed(Documents[s], Documents[s].described \/ d)]
  <2>1. PICK old, new : old = splits[s].described /\ new = (old \/ d)
    OBVIOUS
  <2>2. splits' = [splits EXCEPT ![s].described = new]
    BY <1>1, <1>3, <2>1, Zenon DEF SetDescription
  <2>3. splits \in Seq(SplitRow) /\ splits[s] \in SplitRow
    BY Rows DEF RInv, LInv, IInv, TypeOK
  <2>4. /\ DOMAIN splits' = DOMAIN splits
        /\ \A x \in DOMAIN splits : x # s => splits'[x] = splits[x]
        /\ splits'[s].owner = splits[s].owner /\ splits'[s].described = new
        /\ splits'[s].deleted = splits[s].deleted
    BY <2>2, <2>3 DEF SplitRow
  <2>5. \A x : TimersOf(x)' = TimersOf(x) /\ LiveTimersOf(x)' = LiveTimersOf(x)
    BY <1>1 DEF TimersOf, LiveTimersOf
  <2>6. \A x \in DOMAIN splits : x # s => DocumentOf(x)' = DocumentOf(x)
    BY <2>4, <2>5 DEF DocumentOf
  <2>7. DocumentOf(s)' = WithDescribed(DocumentOf(s), DocumentOf(s).described \/ d)
    <3>1. PICK gone, n : /\ gone = (TimersOf(s) # {} /\ LiveTimersOf(s) = {})
                         /\ n = Cardinality(TimersOf(s))
      OBVIOUS
    <3>2. DocumentOf(s) = DocumentRecord(splits[s].owner, old, n, gone, splits[s].deleted)
      BY <2>1, <3>1, DocumentIs
    <3>3. DocumentOf(s)' = DocumentRecord(splits[s].owner, new, n, gone, splits[s].deleted)
      BY <2>4, <2>5, <3>1, NextDocumentIs
    <3>4. DocumentOf(s).described = old
      BY <3>2 DEF DocumentRecord
    <3>5. WithDescribed(DocumentOf(s), new) = DocumentOf(s)'
      BY <3>2, <3>3, FieldChanged
    <3>6. QED
      BY <2>1, <3>4, <3>5, Zenon
  <2>8. Documents' = [Documents EXCEPT ![s] = DocumentOf(s)']
    BY <2>4, <2>6, DocumentChanged
  <2>9. QED
    BY <1>2, <2>7, <2>8, Zenon
<1>4. Documents' = Packaged!Changed(u, s, WithDescribed(Documents[s], Documents[s].described \/ d))
  <2>1. CASE Owns(u, s)
    BY <1>2, <1>3, <2>1, Zenon DEF Packaged!Changed, Owns
  <2>2. CASE ~Owns(u, s)
    BY <1>1, <1>2, <2>2, DocumentsKept DEF Packaged!Changed, Owns
  <2>3. QED
    BY <2>1, <2>2
<1>5. Handles' = Handles
  BY <1>1, HandlesOfSheetKept
<1>6. Packaged!Describe(r, u, s, d)
  BY <1>1, <1>4, <1>5, CallsAre DEF Packaged!Describe, Packaged!Idle, WithDescribed
<1>7. s \in DOMAIN Documents
  BY DEF Documents
<1>8. QED
  BY <1>1, <1>6, <1>7 DEF Packaged!PackagedStep

LEMMA DeleteTimersPackaged ==
  ASSUME RInv, [Next]_vars, NEW r \in Requests,
         NEW u \in Users, NEW s \in DOMAIN splits, DeleteTimers(r, u, s)
  PROVE  Packaged!PackagedStep(r) /\ TimerOK(req'[r])
<1> DEFINE q == [Opened("delete_time_split", u) EXCEPT !.pc = "delete_split", !.split = s]
           record == Record(u, "delete_split", s, 0, <<>>, 0, {}, "none", <<>>, {})
<1>1. /\ req' = [req EXCEPT ![r] = req'[r]] /\ req'[r] = q /\ req[r].pc = "ready"
      /\ timers' = IF Owns(u, s) THEN MarkTimers(s) ELSE timers
      /\ splits' = splits /\ sheet' = sheet
  BY DEF DeleteTimers, Ready, RInv, LInv, IInv, TypeOK
<1>2. /\ q.user = u /\ q.pc = "delete_split" /\ q.split = s /\ q.len = 0
      /\ q.timer = 0 /\ q.start = 0 /\ q.found = {} /\ q.status = "none"
      /\ q.listed = <<>> /\ q.latest = {}
  BY DEF Opened, Blank
<1> HIDE DEF q
<1>3. HandleOf(req[r].timer)' = <<>>
  BY <1>1, <1>2, NoHandle
<1>4. Packaged!Becomes(r, record)
  BY <1>1, <1>2, <1>3, RecordBecomes
<1>5. [Packaged!Pending(u, "delete_split") EXCEPT !.doc = s] = record
  BY DeletingIs
<1> HIDE DEF record
<1>6. /\ Documents[s] = DocumentOf(s) /\ Documents[s].owner = splits[s].owner
      /\ Documents[s].size = Cardinality(TimersOf(s))
  BY DEF Documents, DocumentOf
<1>7. ASSUME Owns(u, s)
      PROVE  Documents' = [Documents EXCEPT ![s] = WithGone(Documents[s], Documents[s].size > 0)]
  <2>1. /\ DOMAIN timers' = DOMAIN timers
        /\ \A t \in DOMAIN timers :
             /\ timers'[t].split = timers[t].split
             /\ timers'[t].deleted <=> timers[t].deleted \/ timers[t].split = s
    BY <1>1, <1>7, MarkTimersType DEF RInv, LInv, IInv
  <2>2. \A x : TimersOf(x)' = TimersOf(x)
    BY <2>1 DEF TimersOf
  <2>3. \A x : x # s => LiveTimersOf(x)' = LiveTimersOf(x)
    <3>1. ASSUME NEW x, x # s, NEW t \in TimersOf(x)
          PROVE  timers'[t].deleted <=> timers[t].deleted
      BY <2>1, <3>1 DEF TimersOf
    <3>2. QED
      BY <2>2, <3>1 DEF LiveTimersOf
  <2>4. LiveTimersOf(s)' = {}
    BY <2>1, <2>2 DEF LiveTimersOf, TimersOf
  <2>5. \A x \in DOMAIN splits : x # s => DocumentOf(x)' = DocumentOf(x)
    BY <1>1, <2>2, <2>3 DEF DocumentOf
  <2>6. PICK n : n = Cardinality(TimersOf(s))
    OBVIOUS
  <2>7. TimersOf(s) # {} <=> n > 0
    <3>1. PICK b \in Nat, m \in Nat : Batch(s, b, m)
      BY DEF RInv, LInv, Batched
    <3>2. TimersOf(s) = (b + 1)..(b + m)
      BY <3>1 DEF Batch
    <3>3. QED
      BY <2>6, <3>2, BatchSize
  <2>8. PICK o, d, x : o = splits[s].owner /\ d = splits[s].described /\ x = splits[s].deleted
    OBVIOUS
  <2>9. PICK old, new : /\ old = (TimersOf(s) # {} /\ LiveTimersOf(s) = {})
                        /\ new = (n > 0)
    OBVIOUS
  <2>10. DocumentOf(s) = DocumentRecord(o, d, n, old, x)
    BY <2>6, <2>8, <2>9, DocumentIs
  <2>11. DocumentOf(s)' = DocumentRecord(o, d, n, new, x)
    <3>1. new = (TimersOf(s)' # {} /\ LiveTimersOf(s)' = {})
      BY <2>2, <2>4, <2>7, <2>9
    <3>2. QED
      BY <1>1, <2>2, <2>6, <2>8, <3>1, NextDocumentIs
  <2>12. WithGone(DocumentOf(s), new) = DocumentOf(s)'
    BY <2>10, <2>11, FieldChanged
  <2>13. Documents' = [Documents EXCEPT ![s] = DocumentOf(s)']
    BY <1>1, <2>5, DocumentChanged
  <2>14. QED
    BY <1>6, <2>6, <2>9, <2>12, <2>13, Zenon
<1>8. Documents' = Packaged!Changed(u, s, WithGone(Documents[s], Documents[s].size > 0))
  <2>1. CASE Owns(u, s)
    BY <1>6, <1>7, <2>1, Zenon DEF Packaged!Changed, Owns
  <2>2. CASE ~Owns(u, s)
    BY <1>1, <1>6, <2>2, DocumentsKept DEF Packaged!Changed, Owns
  <2>3. QED
    BY <2>1, <2>2
<1>9. Handles' = Handles
  BY <1>1, HandlesOfSheetKept
<1>10. Packaged!Clear(r, u, s)
  BY <1>1, <1>4, <1>5, <1>8, <1>9, CallsAre DEF Packaged!Clear, Packaged!Idle, WithGone
<1>11. s \in DOMAIN Documents /\ TimerOK(req'[r])
  BY <1>1, <1>2 DEF Documents, TimerOK
<1>12. QED
  BY <1>10, <1>11 DEF Packaged!PackagedStep

LEMMA DeleteSplitPackaged ==
  ASSUME RInv, [Next]_vars, NEW r \in Requests, DeleteSplit(r),
         NEW u, u = req[r].user, NEW s, s = req[r].split
  PROVE  Packaged!PackagedStep(r) /\ TimerOK(req'[r])
<1>1. /\ Packaged!Becomes(r, Packaged!Answered(u, "ok")) /\ TimerOK(req'[r])
      /\ timers' = timers /\ sheet' = sheet /\ req[r].pc = "delete_split"
      /\ splits' = IF Owns(u, s) THEN MarkSplit(s) ELSE splits
  BY AnswerBecomes DEF DeleteSplit
<1>2. u \in Users /\ s \in DOMAIN splits
  BY <1>1 DEF RInv, LInv, IInv, TypeOK, RequestOK
<1>3. Documents[s] = DocumentOf(s) /\ Documents[s].owner = splits[s].owner
  BY <1>2 DEF Documents, DocumentOf
<1>4. ASSUME Owns(u, s)
      PROVE  Documents' = [Documents EXCEPT ![s] = WithDeleted(Documents[s], TRUE)]
  <2>1. splits \in Seq(SplitRow) /\ splits[s] \in SplitRow
    BY <1>2, Rows DEF RInv, LInv, IInv, TypeOK
  <2>2. /\ DOMAIN splits' = DOMAIN splits
        /\ \A x \in DOMAIN splits : x # s => splits'[x] = splits[x]
        /\ splits'[s].owner = splits[s].owner /\ splits'[s].described = splits[s].described
        /\ splits'[s].deleted = TRUE
    BY <1>1, <1>2, <1>4, <2>1 DEF SplitRow, MarkSplit
  <2>3. \A x : TimersOf(x)' = TimersOf(x) /\ LiveTimersOf(x)' = LiveTimersOf(x)
    BY <1>1 DEF TimersOf, LiveTimersOf
  <2>4. \A x \in DOMAIN splits : x # s => DocumentOf(x)' = DocumentOf(x)
    BY <2>2, <2>3 DEF DocumentOf
  <2>5. PICK o, d, n, gone, x, y :
          /\ o = splits[s].owner /\ d = splits[s].described
          /\ x = splits[s].deleted /\ y = splits'[s].deleted
          /\ gone = (TimersOf(s) # {} /\ LiveTimersOf(s) = {})
          /\ n = Cardinality(TimersOf(s))
    OBVIOUS
  <2>6. DocumentOf(s) = DocumentRecord(o, d, n, gone, x)
    BY <2>5, DocumentIs
  <2>7. DocumentOf(s)' = DocumentRecord(o, d, n, gone, y)
    BY <2>2, <2>3, <2>5, NextDocumentIs
  <2>8. WithDeleted(DocumentOf(s), y) = DocumentOf(s)'
    BY ONLY <2>6, <2>7, FieldChanged
  <2>9. Documents' = [Documents EXCEPT ![s] = DocumentOf(s)']
    BY <1>2, <2>2, <2>4, DocumentChanged
  <2>10. QED
    BY <1>3, <2>2, <2>5, <2>8, <2>9, Zenon
<1>5. Documents' = Packaged!Changed(u, s, WithDeleted(Documents[s], TRUE))
  <2>1. CASE Owns(u, s)
    BY <1>3, <1>4, <2>1, Zenon DEF Packaged!Changed, Owns
  <2>2. CASE ~Owns(u, s)
    BY <1>1, <1>2, <1>3, <2>2, DocumentsKept DEF Packaged!Changed, Owns
  <2>3. QED
    BY <2>1, <2>2
<1>6. Handles' = Handles
  BY <1>1, HandlesOfSheetKept
<1>7. Packaged!Delete(r)
  BY <1>1, <1>5, <1>6, CallsAre DEF Packaged!Delete, WithDeleted
<1>8. QED
  BY <1>1, <1>7 DEF Packaged!PackagedStep

\* A look at a timer is a look at a place of a document.
LEMMA CheckPackaged ==
  ASSUME RInv, [Next]_vars, NEW r \in Requests,
         NEW u \in Users, NEW t \in DOMAIN timers, NEW i \in Starts,
         NEW op, NEW pc \in {"insert_sheet", "update_sheet"},
         Ready(r), UNCHANGED <<splits, timers, sheet>>,
         IF timers[t].deleted
           THEN Answer(r, op, u, "not_found")
           ELSE req' = [req EXCEPT ![r] = [Opened(op, u) EXCEPT
                                             !.pc = pc, !.timer = t, !.start = i]]
  PROVE  Packaged!PackagedStep(r) /\ TimerOK(req'[r])
<1> DEFINE q == [Opened(op, u) EXCEPT !.pc = pc, !.timer = t, !.start = i]
<1>1. PICK s, h : s = timers[t].split /\ h = HandleOf(t)
  OBVIOUS
<1>2. /\ s \in DOMAIN splits /\ s \in DOMAIN Documents
      /\ timers[t].deleted <=> Documents[s].gone
      /\ h \in Packaged!TimersIn(s) /\ h[1] = s
  BY <1>1, Placed DEF RInv, Documents
<1>3. Documents' = Documents /\ Handles' = Handles /\ Calls[r].next = "ready"
  BY DocumentsKept, HandlesOfSheetKept, CallsAre DEF Ready
<1>4. Packaged!Look(r, u, h, i, pc) /\ TimerOK(req'[r])
  <2>1. CASE timers[t].deleted
    <3>1. Packaged!Becomes(r, Packaged!Answered(u, "not_found")) /\ TimerOK(req'[r])
      BY <2>1, AnswerBecomes
    <3>2. QED
      BY <1>2, <1>3, <2>1, <3>1 DEF Packaged!Look, Packaged!Idle
  <2>2. CASE ~timers[t].deleted
    <3> DEFINE record == Record(u, pc, 0, 0, h, i, {}, "none", <<>>, {})
    <3>1. req' = [req EXCEPT ![r] = req'[r]] /\ req'[r] = q
      BY <2>2 DEF RInv, LInv, IInv, TypeOK
    <3>2. /\ q.user = u /\ q.pc = pc /\ q.split = 0 /\ q.len = 0
          /\ q.timer = t /\ q.start = i /\ q.found = {} /\ q.status = "none"
          /\ q.listed = <<>> /\ q.latest = {}
      BY DEF Opened, Blank
    <3> HIDE DEF q
    <3>3. HandleOf(req[r].timer)' = h
      BY <1>1, <3>1, <3>2 DEF HandleOf
    <3>4. Packaged!Becomes(r, record)
      BY <3>1, <3>2, <3>3, RecordBecomes
    <3>5. [Packaged!Pending(u, pc) EXCEPT !.timer = h, !.start = i] = record
      BY ONLY LookedIs
    <3>6. TimerOK(req'[r])
      BY <3>1, <3>2 DEF TimerOK
    <3> HIDE DEF record
    <3>7. QED
      BY <1>2, <1>3, <2>2, <3>4, <3>5, <3>6 DEF Packaged!Look, Packaged!Idle
  <2>3. QED
    BY <2>1, <2>2
<1>5. QED
  BY <1>2, <1>4 DEF Packaged!PackagedStep

\* A row of the timesheet changes to another timer, and so does its handle.
LEMMA HandleChanged ==
  ASSUME RInv, [Next]_vars, NEW k \in Keys, NEW t \in DOMAIN timers,
         timers' = timers, sheet' = [sheet EXCEPT ![k] = t]
  PROVE  Handles' = [Handles EXCEPT ![k] = HandleOf(t)]
<1>1. DOMAIN sheet = Keys
  BY DEF RInv, LInv, IInv, TypeOK
<1>2. \A x : HandleOf(x)' = HandleOf(x)
  BY DEF HandleOf
<1>3. \A x \in Keys : x # k => sheet'[x] = sheet[x]
  BY <1>1
<1>4. sheet'[k] = t
  BY <1>1
<1>5. \A x \in Keys : Handles'[x] = IF x = k THEN HandleOf(t) ELSE Handles[x]
  <2>1. \A x \in Keys : Handles'[x] = HandleOf(sheet[x])' /\ Handles[x] = HandleOf(sheet[x])
    BY DEF Handles
  <2>2. \A x \in Keys : HandleOf(sheet[x])' = HandleOf(sheet'[x])
    BY <1>2 DEF HandleOf
  <2>3. QED
    BY <1>3, <1>4, <2>1, <2>2
<1>6. QED
  BY <1>5 DEF Handles

\* A handle is there if and only if the row is.
LEMMA HandleThere ==
  ASSUME LInv, NEW k \in Keys
  PROVE  Handles[k] = <<>> <=> sheet[k] = 0
<1>1. Handles[k] = HandleOf(sheet[k])
  BY DEF Handles
<1>2. sheet[k] = 0 \/ sheet[k] \in DOMAIN timers
  BY DEF LInv, IInv, TypeOK
<1>3. 0 \notin DOMAIN timers /\ HandleOf(0) = <<>>
  BY Rows, HandleOfNone DEF LInv, IInv
<1>4. \A t \in DOMAIN timers : HandleOf(t) # <<>>
  BY Placed
<1>5. QED
  BY <1>1, <1>2, <1>3, <1>4

LEMMA PostInsertPackaged ==
  ASSUME RInv, [Next]_vars, NEW r \in Requests, PostInsert(r),
         NEW u, u = req[r].user, NEW i, i = req[r].start, NEW t, t = req[r].timer,
         NEW k, k = <<u, i>>
  PROVE  Packaged!PackagedStep(r) /\ TimerOK(req'[r])
<1>1. req[r].pc = "insert_sheet" /\ splits' = splits /\ timers' = timers
  BY DEF PostInsert
<1>2. k \in Keys /\ t \in DOMAIN timers
  BY <1>1 DEF RInv, LInv, IInv, TypeOK, RequestOK
<1>3. /\ Documents' = Documents /\ Calls[r].next = "insert_sheet"
      /\ Calls[r].user = u /\ Calls[r].start = i /\ Calls[r].timer = HandleOf(t)
  BY <1>1, DocumentsKept, CallsAre
<1>4. Handles[k] = <<>> <=> PrimaryKeyFree(k)
  BY <1>2, HandleThere DEF RInv, PrimaryKeyFree
<1>5. CASE PrimaryKeyFree(k)
  <2> DEFINE q == [Opened("post_timer", u) EXCEPT !.start = i, !.status = "ok"]
             record == Record(u, "ready", 0, 0, <<>>, i, {}, "ok", <<>>, {})
  <2>1. /\ req' = [req EXCEPT ![r] = req'[r]] /\ req'[r] = q
        /\ sheet' = [sheet EXCEPT ![k] = t]
    BY <1>5 DEF PostInsert, RInv, LInv, IInv, TypeOK
  <2>2. /\ q.user = u /\ q.pc = "ready" /\ q.split = 0 /\ q.len = 0
        /\ q.timer = 0 /\ q.start = i /\ q.found = {} /\ q.status = "ok"
        /\ q.listed = <<>> /\ q.latest = {}
    BY DEF Opened, Blank
  <2> HIDE DEF q
  <2>3. HandleOf(req[r].timer)' = <<>>
    BY <2>1, <2>2, NoHandle
  <2>4. Packaged!Becomes(r, record)
    BY <2>1, <2>2, <2>3, RecordBecomes
  <2>5. [Packaged!Answered(u, "ok") EXCEPT !.start = i] = record
    BY PostedIs
  <2>6. Handles' = [Handles EXCEPT ![k] = HandleOf(t)]
    BY <1>1, <1>2, <2>1, HandleChanged
  <2> HIDE DEF record
  <2>7. Packaged!Post(r)
    BY <1>3, <1>4, <1>5, <2>4, <2>5, <2>6 DEF Packaged!Post, Packaged!NoTimer
  <2>8. TimerOK(req'[r])
    BY <2>1, <2>2 DEF TimerOK
  <2>9. QED
    BY <2>7, <2>8 DEF Packaged!PackagedStep
<1>6. CASE ~PrimaryKeyFree(k)
  <2>1. /\ Packaged!Becomes(r, Packaged!Answered(u, "conflict")) /\ TimerOK(req'[r])
        /\ sheet' = sheet
    BY <1>6, AnswerBecomes DEF PostInsert
  <2>2. Handles' = Handles
    BY <2>1, HandlesOfSheetKept
  <2>3. Packaged!Post(r)
    BY <1>3, <1>4, <1>6, <2>1, <2>2 DEF Packaged!Post, Packaged!NoTimer
  <2>4. QED
    BY <2>1, <2>3 DEF Packaged!PackagedStep
<1>7. QED
  BY <1>5, <1>6

LEMMA ModifyUpdatePackaged ==
  ASSUME RInv, [Next]_vars, NEW r \in Requests, ModifyUpdate(r),
         NEW u, u = req[r].user, NEW i, i = req[r].start, NEW t, t = req[r].timer,
         NEW k, k = <<u, i>>
  PROVE  Packaged!PackagedStep(r) /\ TimerOK(req'[r])
<1>1. /\ req[r].pc = "update_sheet" /\ splits' = splits /\ timers' = timers
      /\ Packaged!Becomes(r, Packaged!Answered(u, "ok")) /\ TimerOK(req'[r])
      /\ sheet' = IF sheet[k] # NoRow THEN [sheet EXCEPT ![k] = t] ELSE sheet
  BY AnswerBecomes DEF ModifyUpdate
<1>2. k \in Keys /\ t \in DOMAIN timers
  BY <1>1 DEF RInv, LInv, IInv, TypeOK, RequestOK
<1>3. /\ Documents' = Documents /\ Calls[r].next = "update_sheet"
      /\ Calls[r].user = u /\ Calls[r].start = i /\ Calls[r].timer = HandleOf(t)
  BY <1>1, DocumentsKept, CallsAre
<1>4. Handles[k] = <<>> <=> sheet[k] = 0
  BY <1>2, HandleThere DEF RInv
<1>5. Handles' = IF Handles[k] # <<>> THEN [Handles EXCEPT ![k] = HandleOf(t)] ELSE Handles
  <2>1. CASE sheet[k] # 0
    BY <1>1, <1>2, <1>4, <2>1, HandleChanged
  <2>2. CASE sheet[k] = 0
    BY <1>1, <1>4, <2>2, HandlesOfSheetKept
  <2>3. QED
    BY <2>1, <2>2
<1>6. Packaged!Modify(r)
  BY <1>1, <1>3, <1>5 DEF Packaged!Modify, Packaged!NoTimer
<1>7. QED
  BY <1>1, <1>6 DEF Packaged!PackagedStep

LEMMA GetTimersPackaged ==
  ASSUME RInv, [Next]_vars, NEW r \in Requests, NEW u \in Callers, GetTimers(r, u),
         NEW rows, rows = VisibleRows(u), NEW last, last = Newest(rows)
  PROVE  Packaged!PackagedStep(r) /\ TimerOK(req'[r])
<1>1. Ready(r) /\ splits' = splits /\ timers' = timers /\ sheet' = sheet
  BY DEF GetTimers
<1>2. PICK answer \in IF last = {} THEN {{}} ELSE {{k} : k \in last} :
             req' = [req EXCEPT ![r] = [Opened("get_timers", u) EXCEPT
                                          !.status = "ok", !.latest = answer]]
  BY DEF GetTimers
<1> DEFINE q == [Opened("get_timers", u) EXCEPT !.status = "ok", !.latest = answer]
           record == Record(u, "ready", 0, 0, <<>>, 0, {}, "ok", <<>>, answer)
<1>3. req' = [req EXCEPT ![r] = req'[r]] /\ req'[r] = q
  BY <1>2 DEF RInv, LInv, IInv, TypeOK
<1>4. /\ q.user = u /\ q.pc = "ready" /\ q.split = 0 /\ q.len = 0
      /\ q.timer = 0 /\ q.start = 0 /\ q.found = {} /\ q.status = "ok"
      /\ q.listed = <<>> /\ q.latest = answer
  BY DEF Opened, Blank
<1> HIDE DEF q
<1>5. HandleOf(req[r].timer)' = <<>>
  BY <1>3, <1>4, NoHandle
<1>6. Packaged!Becomes(r, record)
  BY <1>3, <1>4, <1>5, RecordBecomes
<1>7. [Packaged!Answered(u, "ok") EXCEPT !.latest = answer] = record
  BY LatestIs
<1> HIDE DEF record
<1>8. Documents' = Documents /\ Handles' = Handles /\ Calls[r].next = "ready"
  BY <1>1, DocumentsKept, HandlesOfSheetKept, CallsAre DEF Ready
<1>9. rows = {k \in DOMAIN Handles : /\ Handles[k] # <<>>
                                     /\ ~Documents[Handles[k][1]].gone
                                     /\ u \in Users => k[1] = u}
  <2>1. ASSUME NEW k \in Keys, sheet[k] # 0
        PROVE  timers[sheet[k]].deleted <=> Documents[Handles[k][1]].gone
    <3>1. PICK t : t = sheet[k]
      OBVIOUS
    <3>2. t \in DOMAIN timers /\ Handles[k] = HandleOf(t)
      BY <2>1, <3>1 DEF RInv, LInv, IInv, TypeOK, Handles
    <3>3. QED
      BY <3>1, <3>2, Placed DEF RInv
  <2>2. \A k \in Keys : Handles[k] = <<>> <=> sheet[k] = 0
    BY HandleThere DEF RInv
  <2>3. DOMAIN Handles = Keys
    BY DEF Handles
  <2>4. QED
    BY <2>1, <2>2, <2>3 DEF VisibleRows
<1>10. last = {k \in rows : \A l \in rows : l[2] <= k[2]}
  BY DEF Newest
<1>11. Packaged!Latest(r, u)
  BY <1>2, <1>6, <1>7, <1>8, <1>9, <1>10 DEF Packaged!Latest, Packaged!Idle, Packaged!NoTimer
<1>12. TimerOK(req'[r])
  BY <1>3, <1>4 DEF TimerOK
<1>13. QED
  BY <1>11, <1>12 DEF Packaged!PackagedStep

\* A refused call and one that ends halfway change no row.
LEMMA StoppedPackaged ==
  ASSUME RInv, [Next]_vars, NEW r \in Requests, RefuseAnonymous(r) \/ Abandon(r)
  PROVE  Packaged!PackagedStep(r) /\ TimerOK(req'[r])
<1>1. splits' = splits /\ timers' = timers /\ sheet' = sheet
  BY DEF RefuseAnonymous, Abandon
<1>2. Documents' = Documents /\ Handles' = Handles
  BY <1>1, DocumentsKept, HandlesOfSheetKept
<1>3. CASE RefuseAnonymous(r)
  <2>1. /\ Packaged!Becomes(r, Packaged!Answered(Nil, "refused")) /\ TimerOK(req'[r])
        /\ req[r].pc = "ready"
    BY <1>3, AnswerBecomes DEF RefuseAnonymous, Ready
  <2>2. Packaged!Refuse(r)
    BY <1>2, <2>1, CallsAre DEF Packaged!Refuse, Packaged!Idle
  <2>3. QED
    BY <2>1, <2>2 DEF Packaged!PackagedStep
<1>4. CASE Abandon(r)
  <2>1. /\ Packaged!Becomes(r, Packaged!Answered(req[r].user, "failed")) /\ TimerOK(req'[r])
        /\ req[r].pc # "ready"
    BY <1>4, AnswerBecomes DEF Abandon, Ready
  <2>2. Packaged!Fail(r)
    BY <1>2, <2>1, CallsAre DEF Packaged!Fail, Packaged!Idle
  <2>3. QED
    BY <2>1, <2>2 DEF Packaged!PackagedStep
<1>5. QED
  BY <1>3, <1>4

LEMMA StepPackaged ==
  ASSUME RInv, [Next]_vars, NEW r \in Requests, Step(r)
  PROVE  Packaged!PackagedStep(r) /\ TimerOK(req'[r])
<1>1. CASE \E u \in Users, n \in 0..MaxLen, d \in BOOLEAN : CreateSplit(r, u, n, d)
  BY <1>1, CreateSplitPackaged
<1>2. CASE InsertTimers(r)
  BY <1>2, InsertTimersPackaged
<1>3. CASE \E u \in Callers : ListSplits(r, u)
  BY <1>3, ListSplitsPackaged
<1>4. CASE ListTimers(r)
  BY <1>4, ListTimersPackaged
<1>5. CASE \E u \in Users, s \in DOMAIN splits, d \in BOOLEAN : ModifySplit(r, u, s, d)
  BY <1>5, ModifySplitPackaged
<1>6. CASE \E u \in Users, s \in DOMAIN splits : DeleteTimers(r, u, s)
  BY <1>6, DeleteTimersPackaged
<1>7. CASE DeleteSplit(r)
  BY <1>7, DeleteSplitPackaged
<1>8. CASE \E u \in Users, t \in DOMAIN timers, i \in Starts : PostCheck(r, u, t, i)
  BY <1>8, CheckPackaged DEF PostCheck
<1>9. CASE PostInsert(r)
  BY <1>9, PostInsertPackaged
<1>10. CASE \E u \in Users, t \in DOMAIN timers, i \in Starts : ModifyCheck(r, u, t, i)
  BY <1>10, CheckPackaged DEF ModifyCheck
<1>11. CASE ModifyUpdate(r)
  BY <1>11, ModifyUpdatePackaged
<1>12. CASE \E u \in Callers : GetTimers(r, u)
  BY <1>12, GetTimersPackaged
<1>13. CASE RefuseAnonymous(r) \/ Abandon(r)
  BY <1>13, StoppedPackaged
<1>14. QED
  BY <1>1, <1>2, <1>3, <1>4, <1>5, <1>6, <1>7, <1>8, <1>9, <1>10, <1>11, <1>12, <1>13 DEF Step

LEMMA NextRInv == RInv /\ [Next]_vars => RInv'
<1> SUFFICES ASSUME RInv, [Next]_vars
             PROVE  RInv'
  OBVIOUS
<1>1. LInv'
  BY NextLInv DEF RInv
<1>2. CASE UNCHANGED vars
  BY <1>1, <1>2 DEF RInv, vars, TimerOK
<1>3. ASSUME NEW r \in Requests, Step(r)
      PROVE  \A p \in Requests : TimerOK(req'[p])
  <2>1. req' = [req EXCEPT ![r] = req'[r]]
    BY <1>3, SplitsTypeOK, TimersTypeOK, SheetTypeOK, ReadsTypeOK DEF Step, RInv, LInv, IInv
  <2>2. \A p \in Requests \ {r} : req'[p] = req[p]
    BY <2>1 DEF RInv, LInv, IInv, TypeOK
  <2>3. QED
    BY <1>3, <2>2, StepPackaged DEF RInv
<1>4. QED
  BY <1>1, <1>2, <1>3 DEF Next, RInv, TimerOK

LEMMA NextPackaged ==
  ASSUME RInv, [Next]_vars
  PROVE  [\E c \in Requests : Packaged!PackagedStep(c)]_(Packaged!docVars)
<1>1. CASE UNCHANGED vars
  <2>1. splits' = splits /\ timers' = timers /\ sheet' = sheet /\ req' = req
    BY <1>1 DEF vars
  <2>2. Documents' = Documents /\ Handles' = Handles
    BY <2>1, DocumentsKept, HandlesOfSheetKept
  <2>3. Calls' = Calls
    BY <2>1, CallKept DEF Calls
  <2>4. QED
    BY <2>2, <2>3 DEF Packaged!docVars
<1>2. CASE Next
  BY <1>2, StepPackaged DEF Next
<1>3. QED
  BY <1>1, <1>2

LEMMA InitPackaged == Init => RInv /\ Packaged!PackagedInit
<1> SUFFICES ASSUME Init
             PROVE  RInv /\ Packaged!PackagedInit
  OBVIOUS
<1>1. LInv /\ RInv
  BY InitLInv DEF RInv, TimerOK, Init, Blank
<1>2. DOMAIN splits = {1} /\ MaxLen \in Nat
  BY TimekeeperAssumption DEF Init
<1>3. /\ splits[1].owner = Nil /\ splits[1].described = TRUE /\ splits[1].deleted = FALSE
  BY DEF Init
<1>4. LiveTimersOf(1) = TimersOf(1) /\ TimersOf(1) = (0 + 1)..(0 + MaxLen)
  <2>1. /\ DOMAIN timers = 1..MaxLen
        /\ \A t \in DOMAIN timers : timers[t].split = 1 /\ ~timers[t].deleted
    <3>1. timers = BatchRows(1, MaxLen) /\ 1 \in Nat
      BY DEF Init
    <3>2. DOMAIN timers = 1..MaxLen
      BY <1>2, <3>1, BatchRowsOrder
    <3>3. \A t \in DOMAIN timers : timers[t].split = 1 /\ ~timers[t].deleted
      BY <1>2, <3>1, BatchRowsType
    <3>4. QED
      BY <3>2, <3>3
  <2>2. QED
    BY <1>2, <2>1 DEF TimersOf, LiveTimersOf
<1>5. Cardinality(TimersOf(1)) = MaxLen
  BY <1>2, <1>4, BatchSize
<1>6. (TimersOf(1) # {} /\ LiveTimersOf(1) = {}) = FALSE
  BY <1>4
<1>7. DocumentOf(1) = Packaged!Document(Nil, TRUE, MaxLen)
  BY <1>3, <1>5, <1>6, Zenon DEF DocumentOf, Packaged!Document
<1>8. Documents = << Packaged!Document(Nil, TRUE, MaxLen) >>
  <2>1. PICK doc : doc = Packaged!Document(Nil, TRUE, MaxLen)
    OBVIOUS
  <2>2. DOMAIN splits = 1..1
    BY <1>2
  <2>3. Documents = [s \in 1..1 |-> doc]
    <3>1. \A s \in 1..1 : DocumentOf(s) = doc
      <4>1. \A s \in 1..1 : s = 1
        OBVIOUS
      <4>2. QED
        BY <1>7, <2>1, <4>1, Zenon
    <3>2. QED
      BY <2>2, <3>1, Zenon DEF Documents
  <2>4. << doc >> = [s \in 1..1 |-> doc]
    OBVIOUS
  <2>5. QED
    BY <2>1, <2>3, <2>4
<1>9. Handles = [k \in Users \X Starts |-> Packaged!NoTimer]
  <2>1. HandleOf(0) = <<>>
    BY <1>1, HandleOfNone DEF LInv, IInv
  <2>2. \A k \in Keys : sheet[k] = 0
    BY DEF Init
  <2>3. QED
    BY <2>1, <2>2 DEF Handles, Packaged!NoTimer
<1>10. Calls = [c \in Requests |-> Packaged!Blank]
  <2>1. ASSUME NEW c \in Requests
        PROVE  Calls[c] = Packaged!Blank
    <3>1. HandleOf(0) = <<>>
      BY <1>1, HandleOfNone DEF LInv, IInv
    <3>2. Calls[c] = Record(Nil, "ready", 0, 0, <<>>, 0, {}, "none", <<>>, {})
      <4>1. PICK q : q = req[c]
        OBVIOUS
      <4>2. /\ q.user = Nil /\ q.pc = "ready" /\ q.split = 0 /\ q.len = 0
            /\ q.timer = 0 /\ q.start = 0 /\ q.found = {} /\ q.status = "none"
            /\ q.listed = <<>> /\ q.latest = {}
        BY <4>1 DEF Init, Blank
      <4>3. CallOf(q) = Record(Nil, "ready", 0, 0, <<>>, 0, {}, "none", <<>>, {})
        <5>1. [s \in DOMAIN q.listed |->
                [i \in DOMAIN q.listed[s] |-> HandleOf(q.listed[s][i])]] = <<>>
          BY <4>2
        <5>2. QED
          BY <3>1, <4>2, <5>1 DEF CallOf, Record
      <4>4. QED
        BY <4>1, <4>3 DEF Calls
    <3>3. QED
      BY <3>2 DEF Packaged!Blank, Packaged!NoTimer, Record
  <2>2. QED
    BY <2>1 DEF Calls
<1>11. QED
  BY <1>1, <1>8, <1>9, <1>10 DEF Packaged!PackagedInit

\* The two tables, filtered, joined, sorted and grouped by the statements of any
\* number of interleaved requests, behave as documents: the timers of a split come
\* and go together, a listing shows them whole and in the order sent, and a
\* timesheet row goes on meaning the place in the document it was posted with.
THEOREM Refinement == Spec => ImplementsPackagedSplits
<1>1. Spec => []RInv
  <2>1. Init => RInv
    BY InitPackaged
  <2>2. QED
    BY <2>1, NextRInv, PTL DEF Spec
<1>2. Init => Packaged!PackagedInit
  BY InitPackaged
<1>3. RInv /\ [Next]_vars => [\E c \in Requests : Packaged!PackagedStep(c)]_(Packaged!docVars)
  BY NextPackaged
<1>4. QED
  BY <1>1, <1>2, <1>3, PTL DEF Spec, ImplementsPackagedSplits, Packaged!PackagedSpec

=============================================================================
