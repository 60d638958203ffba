--------------------------- MODULE WorkItemsProofs ---------------------------
(***************************************************************************)
(* Proofs about WorkItems, for any items, sprints, requests and cascades.   *)
(***************************************************************************)
EXTENDS WorkItems, TLAPS

\* A request that is going to write a parent.
Hangs(r) == Runs(r, "create") \/ Runs(r, "move")

\* A parent is of the kind above, in the rows and in what is to be written.
KindsFit ==
  /\ \A n \in Items : row[n].parent # NoRow => Kind[row[n].parent] = ParentKind[Kind[n]]
  /\ \A r \in Requests : Hangs(r) /\ req[r].parent # NoRow
                           => Kind[req[r].parent] = ParentKind[Kind[req[r].item]]

\* Below the levels a cascade has left behind it has read everything that lives,
\* but what has come to life, or below them, since.
CascadeCovers ==
  \A r \in Requests : Runs(r, "cascade") =>
    \A m \in req[r].got \ req[r].last, n \in Items :
      LiveItem(n) /\ row[n].parent = m => n \in req[r].got \cup apart

\* What is settled in the bin is in the bin, and no cascade under way has read it.
SettledUnread ==
  /\ \A n \in settled : row[n].state = "binned"
  /\ \A r \in Requests : Runs(r, "cascade") => req[r].got \cap settled = {}

WorkInv == WorkTypeOK /\ KindsFit /\ CascadeCovers /\ SettledUnread /\ NobodyIsLeftBehind

----------------------------------------------------------------------------
LEMMA NoRowIsNothing == NoRow \notin Items /\ NoRow \notin Sprints
BY NoRowIsNone

\* What a request under way carries.
LEMMA RequestShapes ==
  ASSUME NEW q \in RequestType
  PROVE  /\ q.op = "cascade" =>
              /\ q.last \subseteq Items /\ q.got \subseteq Items
              /\ q \in [op : {"cascade"}, last : SUBSET Items, got : SUBSET Items]
         /\ q.op = "restoreAll" => q.batch \in 1..MaxBatch /\ q.got \subseteq Items
         /\ q.op = "deleteSprint" => q.sprint \in Sprints /\ q.got \subseteq Items
         /\ q.op \in {"start", "complete", "purgeSprint"} => q.sprint \in Sprints
         /\ q.op = "assign" => q.item \in Items /\ q.sprint \in Sprints \cup {NoRow}
         /\ q.op = "create" => /\ q.item \in Items /\ q.parent \in Items \cup {NoRow}
                               /\ q.sprint \in Sprints \cup {NoRow}
         /\ q.op = "move" => q.item \in Items /\ q.parent \in Items \cup {NoRow}
         /\ q.op = "purge" => q.item \in Items
<1>1. CASE q \in [op : {"cascade"}, last : SUBSET Items, got : SUBSET Items]  BY <1>1
<1>2. CASE q \in [op : {"restoreAll"}, batch : 1..MaxBatch, got : SUBSET Items]  BY <1>2
<1>3. CASE q \in [op : {"deleteSprint"}, sprint : Sprints, got : SUBSET Items]  BY <1>3
<1>4. CASE q \in [op : {"start", "complete", "purgeSprint"}, sprint : Sprints]  BY <1>4
<1>5. CASE q \in [op : {"assign"}, item : Items, sprint : Sprints \cup {NoRow}]  BY <1>5
<1>6. CASE q \in [op : {"create"}, item : Items, parent : Items \cup {NoRow},
                  sprint : Sprints \cup {NoRow}]
  BY <1>6
<1>7. CASE q \in [op : {"purge"}, item : Items]  BY <1>7
<1>8. CASE q \in [op : {"move"}, item : Items, parent : Items \cup {NoRow}]  BY <1>8
<1> QED  BY <1>1, <1>2, <1>3, <1>4, <1>5, <1>6, <1>7, <1>8 DEF RequestType

LEMMA RunningShapes ==
  ASSUME WorkTypeOK, NEW r \in Requests, ~Free(r)
  PROVE  req[r] \in RequestType
BY DEF WorkTypeOK, Free

LEMMA RowShapes ==
  ASSUME WorkTypeOK
  PROVE  /\ \A n \in Items :
              /\ row[n].state \in States /\ row[n].batch \in 0..MaxBatch
              /\ row[n].parent \in Items \cup {NoRow} /\ row[n].sprint \in Sprints \cup {NoRow}
         /\ \A s \in Sprints :
              /\ sprint[s].state \in States
              /\ sprint[s].status \in {"planning", "active", "completed"}
BY DEF WorkTypeOK, Rows, SprintRows

\* What an UPDATE makes of a row.
LEMMA RowStamped ==
  ASSUME NEW w \in Rows, NEW st \in States, NEW b \in 0..MaxBatch
  PROVE  /\ [w EXCEPT !.state = st, !.batch = b] \in Rows
         /\ [w EXCEPT !.state = st, !.batch = b].batch = b
         /\ [w EXCEPT !.state = st, !.batch = b].state = st
         /\ [w EXCEPT !.state = st, !.batch = b].parent = w.parent
         /\ [w EXCEPT !.state = st, !.batch = b].sprint = w.sprint
BY DEF Rows

LEMMA RowMoved ==
  ASSUME NEW w \in Rows, NEW x \in Sprints \cup {NoRow}
  PROVE  /\ [w EXCEPT !.sprint = x] \in Rows
         /\ [w EXCEPT !.sprint = x].batch = w.batch
         /\ [w EXCEPT !.sprint = x].state = w.state
         /\ [w EXCEPT !.sprint = x].parent = w.parent
         /\ [w EXCEPT !.sprint = x].sprint = x
BY DEF Rows

LEMMA RowBinned ==
  ASSUME NEW w \in Rows, NEW st \in States
  PROVE  /\ [w EXCEPT !.state = st] \in Rows
         /\ [w EXCEPT !.state = st].batch = w.batch
         /\ [w EXCEPT !.state = st].state = st
         /\ [w EXCEPT !.state = st].parent = w.parent
         /\ [w EXCEPT !.state = st].sprint = w.sprint
BY DEF Rows

LEMMA WorkInvInit == WorkInit => WorkInv
<1> SUFFICES ASSUME WorkInit PROVE WorkInv  OBVIOUS
<1> USE DEF WorkInit
<1>1. WorkTypeOK
  <2>1. 0 \in 0..MaxBatch  BY MaxBatchType
  <2> QED  BY <2>1 DEF WorkTypeOK, Rows, SprintRows, States
<1>2. KindsFit /\ CascadeCovers /\ SettledUnread
  BY DEF KindsFit, Hangs, CascadeCovers, SettledUnread, Runs, Free
<1>3. NobodyIsLeftBehind  BY DEF NobodyIsLeftBehind, LiveItem
<1> QED  BY <1>1, <1>2, <1>3 DEF WorkInv

----------------------------------------------------------------------------
(* The type invariant. *)

\* Two groups of actions: those that only read the tables, and those that write.
Reading(r) ==
  \/ RequestFails(r) \/ CascadeReads(r)
  \/ \E n \in Items : CascadeStarts(r, n) \/ PurgeChecks(r, n)
  \/ \E n \in Items, p \in Items \cup {NoRow}, s \in Sprints \cup {NoRow} : CreateChecks(r, n, p, s)
  \/ \E n \in Items, p \in Items \cup {NoRow} : MoveChecks(r, n, p)
  \/ \E n \in Items, s \in Sprints \cup {NoRow} : AssignReads(r, n, s)
  \/ \E b \in 1..MaxBatch : RestoreBatchReads(r, b)
  \/ \E s \in Sprints : \/ StartReads(r, s) \/ CompleteReads(r, s)
                        \/ SoftDeleteSprintReads(r, s) \/ PurgeSprintChecks(r, s)

LEMMA ReadingReads ==
  ASSUME NEW r \in Requests, Reading(r)
  PROVE  UNCHANGED <<row, sprint, batches>>
BY DEF Reading, RequestFails, CascadeReads, CascadeStarts, PurgeChecks, CreateChecks, MoveChecks,
       AssignReads,
       RestoreBatchReads, StartReads, CompleteReads, SoftDeleteSprintReads, PurgeSprintChecks, tables

LEMMA CascadeAdvances ==
  ASSUME NEW q \in [op : {"cascade"}, last : SUBSET Items, got : SUBSET Items],
         NEW next \in SUBSET Items
  PROVE  [q EXCEPT !.last = next, !.got = @ \cup next] \in RequestType
BY DEF RequestType

\* What a reading step leaves under way is a request.
LEMMA ReadingBegins ==
  ASSUME WorkTypeOK, NEW r \in Requests, Reading(r)
  PROVE  \E t \in RequestType \cup {NoRow} : req' = [req EXCEPT ![r] = t]
<1> USE DEF Begin, RequestType
<1>1. CASE RequestFails(r)  BY <1>1 DEF RequestFails, End
<1>2. CASE CascadeReads(r)
  <2>1. req[r] \in [op : {"cascade"}, last : SUBSET Items, got : SUBSET Items]
    BY <1>2, RunningShapes, RequestShapes DEF CascadeReads, Runs
  <2> DEFINE next == ChildrenOf(req[r].last)
             t == [req[r] EXCEPT !.last = next, !.got = @ \cup next]
  <2>3. next \in SUBSET Items  BY DEF ChildrenOf
  <2>4. t \in RequestType
    <3> HIDE DEF next
    <3> QED  BY <2>1, <2>3, CascadeAdvances
  <2>5. req' = [req EXCEPT ![r] = t]  BY <1>2 DEF CascadeReads
  <2> QED  BY <2>4, <2>5
<1>3. ASSUME NEW n \in Items, CascadeStarts(r, n) \/ PurgeChecks(r, n)
      PROVE \E t \in RequestType \cup {NoRow} : req' = [req EXCEPT ![r] = t]
  <2>1. [op |-> "cascade", last |-> {n}, got |-> {n}] \in RequestType  OBVIOUS
  <2>2. [op |-> "purge", item |-> n] \in RequestType  OBVIOUS
  <2> QED  BY <1>3, <2>1, <2>2 DEF CascadeStarts, PurgeChecks
<1>4. ASSUME NEW n \in Items, NEW p \in Items \cup {NoRow}, NEW s \in Sprints \cup {NoRow},
             CreateChecks(r, n, p, s)
      PROVE \E t \in RequestType \cup {NoRow} : req' = [req EXCEPT ![r] = t]
  BY <1>4 DEF CreateChecks
<1>5. ASSUME NEW n \in Items, NEW s \in Sprints \cup {NoRow}, AssignReads(r, n, s)
      PROVE \E t \in RequestType \cup {NoRow} : req' = [req EXCEPT ![r] = t]
  BY <1>5 DEF AssignReads
<1>6. ASSUME NEW b \in 1..MaxBatch, RestoreBatchReads(r, b)
      PROVE \E t \in RequestType \cup {NoRow} : req' = [req EXCEPT ![r] = t]
  BY <1>6 DEF RestoreBatchReads
<1>7. ASSUME NEW s \in Sprints, \/ StartReads(r, s) \/ CompleteReads(r, s) \/ PurgeSprintChecks(r, s)
      PROVE \E t \in RequestType \cup {NoRow} : req' = [req EXCEPT ![r] = t]
  BY <1>7 DEF StartReads, CompleteReads, PurgeSprintChecks
<1>8. ASSUME NEW s \in Sprints, SoftDeleteSprintReads(r, s)
      PROVE \E t \in RequestType \cup {NoRow} : req' = [req EXCEPT ![r] = t]
  <2>1. {n \in InSprint(s) : LiveItem(n)} \subseteq Items  BY DEF InSprint
  <2> QED  BY <1>8, <2>1 DEF SoftDeleteSprintReads
<1>9. ASSUME NEW n \in Items, NEW p \in Items \cup {NoRow}, MoveChecks(r, n, p)
      PROVE \E t \in RequestType \cup {NoRow} : req' = [req EXCEPT ![r] = t]
  BY <1>9 DEF MoveChecks
<1> QED  BY <1>1, <1>2, <1>3, <1>4, <1>5, <1>6, <1>7, <1>8, <1>9 DEF Reading

LEMMA ReadingIsTyped ==
  ASSUME WorkTypeOK, NEW r \in Requests, Reading(r), Histories
  PROVE  WorkTypeOK'
<1>1. PICK t \in RequestType \cup {NoRow} : req' = [req EXCEPT ![r] = t]  BY ReadingBegins
<1>2. req' \in [Requests -> RequestType \cup {NoRow}]  BY <1>1 DEF WorkTypeOK
<1> QED  BY <1>2, ReadingReads DEF WorkTypeOK, Histories

\* The writing actions: the tables keep their types, and so does req, which only
\* loses the request that writes.
TablesOK ==
  /\ row' \in [Items -> Rows] /\ sprint' \in [Sprints -> SprintRows]
  /\ \A n \in Items : row'[n].batch # 0 => row'[n].state = "binned"
  /\ batches' \in 0..MaxBatch
  /\ req' = req \/ \E r \in Requests : req' = [req EXCEPT ![r] = NoRow]

LEMMA WritingIsTyped ==
  ASSUME WorkTypeOK, TablesOK, Histories
  PROVE  WorkTypeOK'
<1>1. req' \in [Requests -> RequestType \cup {NoRow}]  BY DEF WorkTypeOK, TablesOK
<1> QED  BY <1>1 DEF WorkTypeOK, TablesOK, Histories

\* A row whose record is one of the table's.
LEMMA RowRecords ==
  ASSUME NEW st \in States, NEW b \in 0..MaxBatch, NEW p \in Items \cup {NoRow},
         NEW s \in Sprints \cup {NoRow}
  PROVE  [state |-> st, batch |-> b, parent |-> p, sprint |-> s] \in Rows
BY DEF Rows

LEMMA TreeWritesAreTyped ==
  ASSUME WorkTypeOK, NEW r \in Requests, CascadeCommits(r) \/ RestoreBatch(r) \/ Purge(r)
  PROVE  TablesOK
<1>0. /\ row \in [Items -> Rows] /\ sprint \in [Sprints -> SprintRows]
      /\ \A n \in Items : row[n].batch # 0 => row[n].state = "binned"
      /\ batches \in 0..MaxBatch
  BY DEF WorkTypeOK
<1>1. CASE CascadeCommits(r)
  <2>1. batches' = batches + 1 /\ batches' \in 0..MaxBatch
    <3>1. batches < MaxBatch /\ batches' = batches + 1  BY <1>1 DEF CascadeCommits
    <3> QED  BY <1>0, <3>1, MaxBatchType
  <2>2. ASSUME NEW n \in Items
        PROVE row'[n] \in Rows /\ (row'[n].batch # 0 => row'[n].state = "binned")
    <3>1. row'[n] = row[n] \/ row'[n] = [row[n] EXCEPT !.state = "binned", !.batch = batches']
      BY <1>1 DEF CascadeCommits
    <3>2. row[n] \in Rows /\ "binned" \in States  BY <1>0 DEF States
    <3>3. LET w == [row[n] EXCEPT !.state = "binned", !.batch = batches'] IN
            w \in Rows /\ w.batch = batches' /\ w.state = "binned"
      BY <2>1, <3>2 DEF Rows
    <3> QED  BY <1>0, <3>1, <3>3
  <2>3. row' \in [Items -> Rows]  BY <1>1, <2>2 DEF CascadeCommits
  <2> QED  BY <1>0, <1>1, <2>1, <2>2, <2>3 DEF CascadeCommits, TablesOK, End
<1>2. CASE RestoreBatch(r)
  <2>2. ASSUME NEW n \in Items
        PROVE row'[n] \in Rows /\ (row'[n].batch # 0 => row'[n].state = "binned")
    <3>1. row'[n] = row[n] \/ row'[n] = [row[n] EXCEPT !.state = "live", !.batch = 0]
      BY <1>2 DEF RestoreBatch
    <3>2. row[n] \in Rows /\ "live" \in States /\ 0 \in 0..MaxBatch  BY <1>0, MaxBatchType DEF States
    <3>3. LET w == [row[n] EXCEPT !.state = "live", !.batch = 0] IN w \in Rows /\ w.batch = 0
      BY <3>2 DEF Rows
    <3> QED  BY <1>0, <3>1, <3>3
  <2>3. row' \in [Items -> Rows]  BY <1>2, <2>2 DEF RestoreBatch
  <2> QED  BY <1>0, <1>2, <2>2, <2>3 DEF RestoreBatch, TablesOK, End
<1>3. CASE Purge(r)
  <2>2. ASSUME NEW n \in Items
        PROVE row'[n] \in Rows /\ (row'[n].batch # 0 => row'[n].state = "binned")
    <3>1. \/ row'[n] = row[n]
          \/ row'[n] = [state |-> "erased", batch |-> 0, parent |-> NoRow, sprint |-> NoRow]
          \/ row'[n] = [row[n] EXCEPT !.parent = NoRow]
      BY <1>3 DEF Purge
    <3>2. row[n] \in Rows /\ "erased" \in States /\ 0 \in 0..MaxBatch  BY <1>0, MaxBatchType DEF States
    <3>3. [state |-> "erased", batch |-> 0, parent |-> NoRow, sprint |-> NoRow] \in Rows
      BY <3>2, RowRecords
    <3>4. LET w == [row[n] EXCEPT !.parent = NoRow] IN
            w \in Rows /\ w.batch = row[n].batch /\ w.state = row[n].state
      BY <3>2 DEF Rows
    <3>5. CASE row'[n] = row[n]  BY <1>0, <3>5
    <3>6. CASE row'[n] = [row[n] EXCEPT !.parent = NoRow]  BY <1>0, <3>4, <3>6
    <3>7. CASE row'[n] = [state |-> "erased", batch |-> 0, parent |-> NoRow, sprint |-> NoRow]
      BY <3>3, <3>7
    <3> QED  BY <3>1, <3>5, <3>6, <3>7
  <2>3. row' \in [Items -> Rows]  BY <1>3, <2>2 DEF Purge
  <2> QED  BY <1>0, <1>3, <2>2, <2>3 DEF Purge, TablesOK, End
<1> QED  BY <1>1, <1>2, <1>3

LEMMA RowWritesAreTyped ==
  ASSUME WorkTypeOK, NEW n \in Items, SoftDeleteTask(n) \/ RestoreRow(n)
  PROVE  TablesOK
<1>0. /\ row \in [Items -> Rows] /\ sprint \in [Sprints -> SprintRows]
      /\ \A m \in Items : row[m].batch # 0 => row[m].state = "binned"
      /\ batches \in 0..MaxBatch
  BY DEF WorkTypeOK
<1>1. CASE SoftDeleteTask(n)
  <2>1. row' = [row EXCEPT ![n] = [row[n] EXCEPT !.state = "binned"]]  BY <1>1 DEF SoftDeleteTask
  <2>2. row[n] \in Rows /\ "binned" \in States  BY <1>0 DEF States
  <2>3. row' \in [Items -> Rows]  BY <1>0, <2>1, <2>2, RowBinned
  <2>4. \A m \in Items : row'[m].batch # 0 => row'[m].state = "binned"
    BY <1>0, <2>1, <2>2, RowBinned
  <2> QED  BY <1>0, <1>1, <2>3, <2>4 DEF TablesOK, SoftDeleteTask
<1>2. CASE RestoreRow(n)
  <2>1. row' = [row EXCEPT ![n] = [row[n] EXCEPT !.state = "live", !.batch = 0]]
    BY <1>0, <1>2 DEF RestoreRow, Rows
  <2>2. row[n] \in Rows /\ "live" \in States /\ 0 \in 0..MaxBatch  BY <1>0, MaxBatchType DEF States
  <2>3. row' \in [Items -> Rows]  BY <1>0, <2>1, <2>2, RowStamped
  <2>4. ASSUME NEW m \in Items PROVE row'[m].batch # 0 => row'[m].state = "binned"
    <3>1. CASE m = n
      <4>1. row'[m] = [row[n] EXCEPT !.state = "live", !.batch = 0]  BY <1>0, <2>1, <3>1
      <4>2. [row[n] EXCEPT !.state = "live", !.batch = 0].batch = 0  BY <2>2 DEF Rows
      <4> QED  BY <4>1, <4>2
    <3>2. CASE m # n
      <4>1. row'[m] = row[m]  BY <1>0, <2>1, <3>2
      <4> QED  BY <1>0, <4>1
    <3> QED  BY <3>1, <3>2
  <2> QED  BY <1>0, <1>2, <2>3, <2>4 DEF TablesOK, RestoreRow
<1> QED  BY <1>1, <1>2

LEMMA SprintWritesAreTyped ==
  ASSUME WorkTypeOK,
         NEW r \in Requests,
         Assign(r) \/ Start(r) \/ Complete(r) \/ SoftDeleteSprint(r) \/ PurgeSprint(r)
           \/ CreateInserts(r) \/ Move(r)
  PROVE  TablesOK
<1>0. /\ row \in [Items -> Rows] /\ sprint \in [Sprints -> SprintRows]
      /\ \A m \in Items : row[m].batch # 0 => row[m].state = "binned"
      /\ batches \in 0..MaxBatch
  BY DEF WorkTypeOK
\* An item's row at most changes its sprint, to one there is.
<1>1. ASSUME NEW moved \in SUBSET Items, NEW x \in Sprints \cup {NoRow},
             row' = [n \in Items |-> IF n \in moved THEN [row[n] EXCEPT !.sprint = x] ELSE row[n]]
      PROVE  row' \in [Items -> Rows] /\ \A n \in Items : row'[n].batch # 0 => row'[n].state = "binned"
  <2>1. ASSUME NEW n \in Items
        PROVE row'[n] \in Rows /\ (row'[n].batch # 0 => row'[n].state = "binned")
    BY <1>0, <1>1, RowMoved
  <2> QED  BY <1>1, <2>1
<1>2. CASE Assign(r)
  <2>1. req[r].item \in Items /\ req[r].sprint \in Sprints \cup {NoRow}
    BY <1>2, RunningShapes, RequestShapes DEF Assign, Runs
  <2>2. PICK moved \in SUBSET Items :
          row' = [n \in Items |-> IF n \in moved THEN [row[n] EXCEPT !.sprint = req[r].sprint]
                                  ELSE row[n]]
    <3>1. CASE row[req[r].item].state = "erased"
      <4>1. row' = [n \in Items |-> IF n \in {} THEN [row[n] EXCEPT !.sprint = req[r].sprint]
                                    ELSE row[n]]
        <5>1. row' = row  BY <1>2, <3>1 DEF Assign
        <5> QED  BY <1>0, <5>1
      <4>2. {} \in SUBSET Items  OBVIOUS
      <4> QED  BY <4>1, <4>2, Zenon
    <3>2. CASE row[req[r].item].state # "erased"
      <4>1. row' = [row EXCEPT ![req[r].item] = [row[req[r].item] EXCEPT !.sprint = req[r].sprint]]
        BY <1>2, <3>2 DEF Assign
      <4>2. row' = [n \in Items |-> IF n \in {req[r].item}
                                    THEN [row[n] EXCEPT !.sprint = req[r].sprint] ELSE row[n]]
        BY <1>0, <2>1, <4>1
      <4> QED  BY <2>1, <4>2
    <3> QED  BY <3>1, <3>2
  <2>3. row' \in [Items -> Rows] /\ \A n \in Items : row'[n].batch # 0 => row'[n].state = "binned"
    BY <1>1, <2>1, <2>2
  <2> QED  BY <1>0, <1>2, <2>3 DEF Assign, TablesOK, End
<1>3. CASE Start(r)
  <2>1. req[r].sprint \in Sprints  BY <1>3, RunningShapes, RequestShapes DEF Start, Runs
  <2>2. \/ sprint' = sprint
        \/ sprint' = [sprint EXCEPT ![req[r].sprint] = [sprint[req[r].sprint] EXCEPT !.status = "active"]]
    BY <1>3 DEF Start
  <2>3. [sprint[req[r].sprint] EXCEPT !.status = "active"] \in SprintRows
    BY <1>0, <2>1 DEF SprintRows
  <2>4. sprint' \in [Sprints -> SprintRows]  BY <1>0, <2>2, <2>3
  <2> QED  BY <1>0, <1>3, <2>4 DEF Start, TablesOK, End
<1>4. CASE Complete(r)
  <2>1. req[r].sprint \in Sprints  BY <1>4, RunningShapes, RequestShapes DEF Complete, Runs
  <2>2. row' \in [Items -> Rows] /\ \A n \in Items : row'[n].batch # 0 => row'[n].state = "binned"
    <3>1. PICK moved \in SUBSET Items :
            row' = [n \in Items |-> IF n \in moved THEN [row[n] EXCEPT !.sprint = NoRow] ELSE row[n]]
      <4>1. PICK closed : row' = [n \in Items |->
              IF n \in {m \in InSprint(req[r].sprint) : Kind[m] = "task"} \ closed
              THEN [row[n] EXCEPT !.sprint = NoRow] ELSE row[n]]
        BY <1>4 DEF Complete
      <4>2. {m \in InSprint(req[r].sprint) : Kind[m] = "task"} \ closed \in SUBSET Items
        BY DEF InSprint
      <4> QED  BY <4>1, <4>2
    <3> QED  BY <1>1, <3>1
  <2>3. \/ sprint' = sprint
        \/ sprint' = [sprint EXCEPT ![req[r].sprint] = [sprint[req[r].sprint] EXCEPT !.status = "completed"]]
    BY <1>4 DEF Complete
  <2>4. [sprint[req[r].sprint] EXCEPT !.status = "completed"] \in SprintRows
    BY <1>0, <2>1 DEF SprintRows
  <2>5. sprint' \in [Sprints -> SprintRows]  BY <1>0, <2>3, <2>4
  <2> QED  BY <1>0, <1>4, <2>2, <2>5 DEF Complete, TablesOK, End
<1>5. CASE SoftDeleteSprint(r)
  <2>1. req[r].sprint \in Sprints  BY <1>5, RunningShapes, RequestShapes DEF SoftDeleteSprint, Runs
  <2>2. row' = [n \in Items |-> IF n \in req[r].got THEN [row[n] EXCEPT !.sprint = NoRow] ELSE row[n]]
    BY <1>5 DEF SoftDeleteSprint
  <2>3. row' \in [Items -> Rows] /\ \A n \in Items : row'[n].batch # 0 => row'[n].state = "binned"
    <3>1. req[r].got \in SUBSET Items
      BY <1>5, RunningShapes, RequestShapes DEF SoftDeleteSprint, Runs
    <3> QED  BY <1>1, <2>2, <3>1
  <2>4. \/ sprint' = sprint
        \/ sprint' = [sprint EXCEPT ![req[r].sprint] = [sprint[req[r].sprint] EXCEPT !.state = "binned"]]
    BY <1>5 DEF SoftDeleteSprint
  <2>5. [sprint[req[r].sprint] EXCEPT !.state = "binned"] \in SprintRows
    BY <1>0, <2>1 DEF SprintRows, States
  <2>6. sprint' \in [Sprints -> SprintRows]  BY <1>0, <2>4, <2>5
  <2> QED  BY <1>0, <1>5, <2>3, <2>6 DEF SoftDeleteSprint, TablesOK, End
<1>6. CASE PurgeSprint(r)
  <2>1. req[r].sprint \in Sprints  BY <1>6, RunningShapes, RequestShapes DEF PurgeSprint, Runs
  <2>2. /\ sprint' = [sprint EXCEPT ![req[r].sprint] = [state |-> "erased", status |-> "planning"]]
        /\ row' = [n \in Items |-> IF row[n].sprint = req[r].sprint
                                   THEN [row[n] EXCEPT !.sprint = NoRow] ELSE row[n]]
    BY <1>6 DEF PurgeSprint
  <2>3. row' \in [Items -> Rows] /\ \A n \in Items : row'[n].batch # 0 => row'[n].state = "binned"
    <3>1. row' = [n \in Items |-> IF n \in {m \in Items : row[m].sprint = req[r].sprint}
                                   THEN [row[n] EXCEPT !.sprint = NoRow] ELSE row[n]]
      BY <2>2
    <3> QED  BY <1>1, <3>1
  <2>4. sprint' \in [Sprints -> SprintRows]  BY <1>0, <2>2 DEF SprintRows, States
  <2> QED  BY <1>0, <1>6, <2>3, <2>4 DEF PurgeSprint, TablesOK, End
<1>7. CASE CreateInserts(r)
  <2>1. /\ req[r].item \in Items /\ req[r].parent \in Items \cup {NoRow}
        /\ req[r].sprint \in Sprints \cup {NoRow}
    BY <1>7, RunningShapes, RequestShapes DEF CreateInserts, Runs
  <2>2. row' = [row EXCEPT ![req[r].item] =
          [state |-> "live", batch |-> 0, parent |-> req[r].parent, sprint |-> req[r].sprint]]
    BY <1>7 DEF CreateInserts
  <2>3. row' \in [Items -> Rows]  BY <1>0, <2>1, <2>2, RowRecords, MaxBatchType DEF States
  <2>4. \A n \in Items : row'[n].batch # 0 => row'[n].state = "binned"  BY <1>0, <2>1, <2>2
  <2> QED  BY <1>0, <1>7, <2>3, <2>4 DEF CreateInserts, TablesOK, End
<1>8. CASE Move(r)
  <2>1. req[r].item \in Items /\ req[r].parent \in Items \cup {NoRow}
    BY <1>8, RunningShapes, RequestShapes DEF Move, Runs
  <2>2. \/ row' = row
        \/ row' = [row EXCEPT ![req[r].item] = [row[req[r].item] EXCEPT !.parent = req[r].parent]]
    BY <1>8 DEF Move
  <2>3. LET w == [row[req[r].item] EXCEPT !.parent = req[r].parent] IN
          w \in Rows /\ w.batch = row[req[r].item].batch /\ w.state = row[req[r].item].state
    BY <1>0, <2>1 DEF Rows
  <2>4. row' \in [Items -> Rows] /\ \A n \in Items : row'[n].batch # 0 => row'[n].state = "binned"
    BY <1>0, <2>1, <2>2, <2>3
  <2> QED  BY <1>0, <1>8, <2>4 DEF Move, TablesOK, End
<1> QED  BY <1>2, <1>3, <1>4, <1>5, <1>6, <1>7, <1>8

LEMMA SprintRowsAreTyped ==
  ASSUME WorkTypeOK, NEW s \in Sprints, CreateSprint(s) \/ RestoreSprint(s)
  PROVE  TablesOK
<1>1. sprint' = [sprint EXCEPT ![s] = [sprint[s] EXCEPT !.state = "live"]]
  BY DEF CreateSprint, RestoreSprint
<1>2. [sprint[s] EXCEPT !.state = "live"] \in SprintRows  BY DEF WorkTypeOK, SprintRows, States
<1>3. sprint' \in [Sprints -> SprintRows]  BY <1>1, <1>2 DEF WorkTypeOK
<1> QED  BY <1>3 DEF WorkTypeOK, TablesOK, CreateSprint, RestoreSprint

LEMMA WorkTypeStep == WorkTypeOK /\ [WorkNext]_workVars => WorkTypeOK'
<1> SUFFICES ASSUME WorkTypeOK, [WorkNext]_workVars PROVE WorkTypeOK'  OBVIOUS
<1>1. CASE UNCHANGED workVars  BY <1>1 DEF WorkTypeOK, workVars, tables
<1>2. CASE WorkNext
  <2>1. Histories  BY <1>2 DEF WorkNext
  <2>2. ASSUME NEW r \in Requests, TreeStep(r) \/ SprintStep(r) \/ CreateStep(r) \/ RequestFails(r)
        PROVE  WorkTypeOK'
    <3>1. \/ Reading(r) \/ CascadeCommits(r) \/ RestoreBatch(r) \/ Purge(r)
          \/ Assign(r) \/ Start(r) \/ Complete(r) \/ SoftDeleteSprint(r) \/ PurgeSprint(r)
          \/ CreateInserts(r) \/ Move(r)
      BY <2>2 DEF TreeStep, SprintStep, CreateStep, Reading
    <3> QED
      BY <2>1, <3>1, ReadingIsTyped, WritingIsTyped, TreeWritesAreTyped, SprintWritesAreTyped
  <2>3. ASSUME NEW n \in Items, SoftDeleteTask(n) \/ RestoreRow(n) PROVE WorkTypeOK'
    BY <2>1, <2>3, WritingIsTyped, RowWritesAreTyped
  <2>4. ASSUME NEW s \in Sprints, CreateSprint(s) \/ RestoreSprint(s) PROVE WorkTypeOK'
    BY <2>1, <2>4, WritingIsTyped, SprintRowsAreTyped
  <2> QED  BY <1>2, <2>2, <2>3, <2>4 DEF WorkNext, WorkAct
<1> QED  BY <1>1, <1>2

----------------------------------------------------------------------------
(* What a step may do to the rows, the sprints and the requests. *)

ParentFacts ==
  /\ \A n \in Items :
       \/ row'[n].parent \in {row[n].parent, NoRow}
       \/ \E r \in Requests : /\ Hangs(r) /\ req[r].item = n
                              /\ row'[n].parent = req[r].parent
  /\ \A p \in Items : row'[p].state = "binned" /\ row[p].state # "binned" =>
       \/ Kind[p] = "task"
       \/ \E r \in Requests :
            /\ Runs(r, "cascade") /\ req[r].last = {} /\ p \in req[r].got
            /\ \A n \in req[r].got : row'[n].state # "live"
  /\ \A n \in Items : row[n].state = "binned" /\ row'[n].state = "binned" =>
       \/ row'[n].batch = row[n].batch
       \/ \E r \in Requests : Runs(r, "cascade") /\ n \in req[r].got

RequestFacts ==
  \A r \in Requests :
    \/ req'[r] = req[r]
    \/ req'[r] = NoRow
    \/ /\ row' = row
       /\ \/ CascadeReads(r)
          \/ \E n \in Items : CascadeStarts(r, n)
          \/ \E n \in Items, p \in Items \cup {NoRow}, s \in Sprints \cup {NoRow} :
               CreateChecks(r, n, p, s)
          \/ \E n \in Items, p \in Items \cup {NoRow} : MoveChecks(r, n, p)
          \/ req'[r].op \notin {"cascade", "create", "move"}

StepFacts == ParentFacts /\ RequestFacts

LEMMA ReadingFacts ==
  ASSUME WorkTypeOK, NEW r \in Requests, Reading(r)
  PROVE  StepFacts
<1>1. row' = row  BY ReadingReads
<1>2. ParentFacts  BY <1>1 DEF ParentFacts
<1>3. \A q \in Requests \ {r} : req'[q] = req[q]
  <2>1. PICK t \in RequestType \cup {NoRow} : req' = [req EXCEPT ![r] = t]  BY ReadingBegins
  <2>2. DOMAIN req = Requests  BY DEF WorkTypeOK
  <2> QED  BY <2>1, <2>2
<1>4. \/ req'[r] = NoRow
      \/ CascadeReads(r)
      \/ \E n \in Items : CascadeStarts(r, n)
      \/ \E n \in Items, p \in Items \cup {NoRow}, s \in Sprints \cup {NoRow} :
           CreateChecks(r, n, p, s)
      \/ \E n \in Items, p \in Items \cup {NoRow} : MoveChecks(r, n, p)
      \/ req'[r].op \notin {"cascade", "create", "move"}
  <2>0. DOMAIN req = Requests  BY DEF WorkTypeOK
  <2>1. RequestFails(r) => req'[r] = NoRow  BY <2>0 DEF RequestFails, End
  <2>2. \A n \in Items : PurgeChecks(r, n) => req'[r].op = "purge"
    BY <2>0 DEF PurgeChecks, Begin
  <2>3. \A n \in Items, s \in Sprints \cup {NoRow} : AssignReads(r, n, s) => req'[r].op = "assign"
    BY <2>0 DEF AssignReads, Begin
  <2>4. \A b \in 1..MaxBatch : RestoreBatchReads(r, b) => req'[r].op = "restoreAll"
    BY <2>0 DEF RestoreBatchReads, Begin
  <2>5. \A s \in Sprints : StartReads(r, s) \/ CompleteReads(r, s) \/ PurgeSprintChecks(r, s)
                             => req'[r].op \in {"start", "complete", "purgeSprint"}
    BY <2>0 DEF StartReads, CompleteReads, PurgeSprintChecks, Begin
  <2>6. \A s \in Sprints : SoftDeleteSprintReads(r, s) => req'[r].op = "deleteSprint"
    BY <2>0 DEF SoftDeleteSprintReads, Begin
  <2> QED  BY <2>1, <2>2, <2>3, <2>4, <2>5, <2>6 DEF Reading
<1>5. RequestFacts  BY <1>1, <1>3, <1>4 DEF RequestFacts
<1> QED  BY <1>2, <1>5 DEF StepFacts

\* A write frees its request or has none.
LEMMA WritingEnds ==
  ASSUME WorkTypeOK, req' = req \/ \E r \in Requests : req' = [req EXCEPT ![r] = NoRow]
  PROVE  RequestFacts
BY DEF RequestFacts, WorkTypeOK

LEMMA TreeWritesFacts ==
  ASSUME WorkTypeOK, NEW r \in Requests, CascadeCommits(r) \/ RestoreBatch(r) \/ Purge(r)
  PROVE  StepFacts
<1>0. row \in [Items -> Rows]  BY DEF WorkTypeOK
<1>2. RequestFacts  BY WritingEnds DEF CascadeCommits, RestoreBatch, Purge, End
<1>3. CASE CascadeCommits(r)
  <2>1. req[r].got \subseteq Items /\ Runs(r, "cascade") /\ req[r].last = {}
    BY <1>3, RunningShapes, RequestShapes DEF CascadeCommits, Runs
  <2>2. ASSUME NEW n \in Items
        PROVE /\ row'[n].parent = row[n].parent
              /\ n \notin req[r].got => row'[n] = row[n]
              /\ n \in req[r].got => row'[n].state # "live"
    <3>1. row'[n] = IF n \in req[r].got /\ row[n].state # "erased"
                    THEN [row[n] EXCEPT !.state = "binned", !.batch = batches + 1] ELSE row[n]
      BY <1>3 DEF CascadeCommits
    <3>2. LET w == [row[n] EXCEPT !.state = "binned", !.batch = batches + 1] IN
            w.parent = row[n].parent /\ w.state = "binned"
      BY <1>0 DEF Rows
    <3> QED  BY <3>1, <3>2
  <2>3. ParentFacts  BY <2>1, <2>2 DEF ParentFacts
  <2> QED  BY <1>2, <2>3 DEF StepFacts
<1>4. CASE RestoreBatch(r)
  <2>1. ASSUME NEW n \in Items
        PROVE /\ row'[n].parent = row[n].parent
              /\ row'[n] = row[n] \/ row'[n].state = "live"
    <3>1. row'[n] = row[n] \/ row'[n] = [row[n] EXCEPT !.state = "live", !.batch = 0]
      BY <1>4 DEF RestoreBatch
    <3>2. LET w == [row[n] EXCEPT !.state = "live", !.batch = 0] IN
            w.parent = row[n].parent /\ w.state = "live"
      BY <1>0 DEF Rows
    <3> QED  BY <3>1, <3>2
  <2>2. ParentFacts  BY <2>1 DEF ParentFacts
  <2> QED  BY <1>2, <2>2 DEF StepFacts
<1>5. CASE Purge(r)
  <2>1. ASSUME NEW n \in Items
        PROVE /\ row'[n].parent \in {row[n].parent, NoRow}
              /\ \/ row'[n].state = "erased"
                 \/ row'[n].state = row[n].state /\ row'[n].batch = row[n].batch
    <3>1. \/ row'[n] = row[n]
          \/ row'[n] = [state |-> "erased", batch |-> 0, parent |-> NoRow, sprint |-> NoRow]
          \/ row'[n] = [row[n] EXCEPT !.parent = NoRow]
      BY <1>5 DEF Purge
    <3>2. LET w == [row[n] EXCEPT !.parent = NoRow] IN
            w.parent = NoRow /\ w.state = row[n].state /\ w.batch = row[n].batch
      BY <1>0 DEF Rows
    <3>3. CASE row'[n] = [state |-> "erased", batch |-> 0, parent |-> NoRow, sprint |-> NoRow]
      BY <3>3
    <3>4. CASE row'[n] = [row[n] EXCEPT !.parent = NoRow]  BY <3>2, <3>4
    <3>5. CASE row'[n] = row[n]  BY <3>5
    <3> QED  BY <3>1, <3>3, <3>4, <3>5
  <2>2. ParentFacts  BY <2>1 DEF ParentFacts
  <2> QED  BY <1>2, <2>2 DEF StepFacts
<1> QED  BY <1>3, <1>4, <1>5

LEMMA RowWritesFacts ==
  ASSUME WorkTypeOK, NEW n \in Items, SoftDeleteTask(n) \/ RestoreRow(n)
  PROVE  StepFacts
<1>0. row \in [Items -> Rows] /\ req' = req  BY DEF WorkTypeOK, SoftDeleteTask, RestoreRow
<1>1. RequestFacts  BY <1>0, WritingEnds
<1>2. /\ row'[n].parent = row[n].parent
      /\ row'[n].state = "binned" => Kind[n] = "task" /\ row[n].state = "live"
      /\ \A m \in Items \ {n} : row'[m] = row[m]
  <2>1. CASE SoftDeleteTask(n)  BY <1>0, <2>1 DEF SoftDeleteTask, Rows, LiveItem
  <2>2. CASE RestoreRow(n)
    <3>1. row' = [row EXCEPT ![n] = [row[n] EXCEPT !.state = "live", !.batch = 0]]
      BY <1>0, <2>2 DEF RestoreRow, Rows
    <3>2. LET w == [row[n] EXCEPT !.state = "live", !.batch = 0] IN
            w.parent = row[n].parent /\ w.state = "live"
      BY <1>0 DEF Rows
    <3> QED  BY <1>0, <3>1, <3>2
  <2> QED  BY <2>1, <2>2
<1>3. ParentFacts  BY <1>2 DEF ParentFacts
<1> QED  BY <1>1, <1>3 DEF StepFacts

\* A write that at most changes the sprint of items does nothing to the tree.
LEMMA MovingFacts ==
  ASSUME WorkTypeOK, NEW moved, NEW x,
         row' = [n \in Items |-> IF n \in moved THEN [row[n] EXCEPT !.sprint = x] ELSE row[n]]
  PROVE  ParentFacts
<1>0. row \in [Items -> Rows]  BY DEF WorkTypeOK
<1>1. ASSUME NEW n \in Items
      PROVE /\ row'[n].parent = row[n].parent /\ row'[n].state = row[n].state
            /\ row'[n].batch = row[n].batch
  BY <1>0 DEF Rows
<1> QED  BY <1>1 DEF ParentFacts

LEMMA SprintWritesFacts ==
  ASSUME WorkTypeOK,
         NEW r \in Requests,
         Assign(r) \/ Start(r) \/ Complete(r) \/ SoftDeleteSprint(r) \/ PurgeSprint(r)
           \/ CreateInserts(r) \/ Move(r)
  PROVE  StepFacts
<1>0. /\ row \in [Items -> Rows] /\ sprint \in [Sprints -> SprintRows]
      /\ req \in [Requests -> RequestType \cup {NoRow}]
  BY DEF WorkTypeOK
<1>1. RequestFacts
  BY WritingEnds DEF Assign, Start, Complete, SoftDeleteSprint, PurgeSprint, CreateInserts, Move, End
<1>2. CASE Assign(r)
  <2>1. req[r].item \in Items  BY <1>2, RunningShapes, RequestShapes DEF Assign, Runs
  <2>2. ASSUME NEW n \in Items
        PROVE /\ row'[n].parent = row[n].parent /\ row'[n].state = row[n].state
              /\ row'[n].batch = row[n].batch
    BY <1>0, <1>2, <2>1 DEF Assign, Rows
  <2> QED  BY <1>1, <2>2 DEF StepFacts, ParentFacts
<1>3. CASE Start(r)  BY <1>1, <1>3 DEF Start, StepFacts, ParentFacts
<1>4. CASE Complete(r)
  <2>1. PICK moved : row' = [n \in Items |-> IF n \in moved THEN [row[n] EXCEPT !.sprint = NoRow]
                                             ELSE row[n]]
    BY <1>4 DEF Complete
  <2> QED  BY <1>1, <2>1, MovingFacts DEF StepFacts
<1>5. CASE SoftDeleteSprint(r)
  <2>1. row' = [n \in Items |-> IF n \in req[r].got THEN [row[n] EXCEPT !.sprint = NoRow] ELSE row[n]]
    BY <1>5 DEF SoftDeleteSprint
  <2> QED  BY <1>1, <2>1, MovingFacts DEF StepFacts
<1>6. CASE PurgeSprint(r)
  <2>1. row' = [n \in Items |-> IF n \in {m \in Items : row[m].sprint = req[r].sprint}
                                THEN [row[n] EXCEPT !.sprint = NoRow] ELSE row[n]]
    BY <1>6 DEF PurgeSprint
  <2> QED  BY <1>1, <2>1, MovingFacts DEF StepFacts
<1>7. CASE CreateInserts(r)
  <2>1. req[r].item \in Items /\ Hangs(r)
    BY <1>7, RunningShapes, RequestShapes DEF CreateInserts, Runs, Hangs
  <2>2. /\ row[req[r].item].state = "none"
        /\ row'[req[r].item].parent = req[r].parent /\ row'[req[r].item].state = "live"
        /\ \A n \in Items \ {req[r].item} : row'[n] = row[n]
    BY <1>0, <1>7, <2>1 DEF CreateInserts
  <2>3. ParentFacts  BY <2>1, <2>2 DEF ParentFacts
  <2> QED  BY <1>1, <2>3 DEF StepFacts
<1>8. CASE Move(r)
  <2>1. req[r].item \in Items /\ req[r].parent \in Items \cup {NoRow} /\ Hangs(r)
    BY <1>8, RunningShapes, RequestShapes DEF Move, Runs, Hangs
  <2>2. \/ row' = row
        \/ row' = [row EXCEPT ![req[r].item] = [row[req[r].item] EXCEPT !.parent = req[r].parent]]
    BY <1>8 DEF Move
  <2>3. ASSUME NEW n \in Items
        PROVE /\ \/ row'[n].parent = row[n].parent
                 \/ n = req[r].item /\ row'[n].parent = req[r].parent
              /\ row'[n].state = row[n].state /\ row'[n].batch = row[n].batch
    <3>1. LET w == [row[req[r].item] EXCEPT !.parent = req[r].parent] IN
            /\ w.parent = req[r].parent
            /\ w.batch = row[req[r].item].batch /\ w.state = row[req[r].item].state
      BY <1>0, <2>1 DEF Rows
    <3> QED  BY <1>0, <2>1, <2>2, <3>1
  <2>4. ParentFacts  BY <2>1, <2>3 DEF ParentFacts
  <2> QED  BY <1>1, <2>4 DEF StepFacts
<1> QED  BY <1>2, <1>3, <1>4, <1>5, <1>6, <1>7, <1>8

LEMMA SprintRowsFacts ==
  ASSUME WorkTypeOK, NEW s \in Sprints, CreateSprint(s) \/ RestoreSprint(s)
  PROVE  StepFacts
<1>1. UNCHANGED <<row, req>>  BY DEF CreateSprint, RestoreSprint
<1>2. ParentFacts  BY <1>1 DEF ParentFacts
<1> QED  BY <1>1, <1>2, WritingEnds DEF StepFacts

LEMMA WorkFacts == WorkTypeOK /\ WorkNext => StepFacts
<1> SUFFICES ASSUME WorkTypeOK, WorkNext PROVE StepFacts  OBVIOUS
<1>1. ASSUME NEW r \in Requests, TreeStep(r) \/ SprintStep(r) \/ CreateStep(r) \/ RequestFails(r)
      PROVE  StepFacts
  <2>1. \/ Reading(r) \/ CascadeCommits(r) \/ RestoreBatch(r) \/ Purge(r)
        \/ Assign(r) \/ Start(r) \/ Complete(r) \/ SoftDeleteSprint(r) \/ PurgeSprint(r)
        \/ CreateInserts(r) \/ Move(r)
    BY <1>1 DEF TreeStep, SprintStep, CreateStep, Reading
  <2> QED  BY <2>1, ReadingFacts, TreeWritesFacts, SprintWritesFacts
<1> QED  BY <1>1, RowWritesFacts, SprintRowsFacts DEF WorkNext, WorkAct

----------------------------------------------------------------------------
(* The histories. *)

\* Who was beside a cascade, or comes to life or is moved, stays beside it while it runs.
LEMMA ApartIsKept ==
  ASSUME Histories, NEW n \in Items, LiveItem(n)',
         n \in apart \/ ~LiveItem(n) \/ row'[n].parent # row[n].parent,
         \/ \E r \in Requests : Runs(r, "cascade") \/ Runs(r, "cascade")'
         \/ row'[n].parent # NoRow /\ row'[row'[n].parent].state # "live"
  PROVE  n \in apart'
BY DEF Histories, LiveItem

LEMMA RequestsAreFunctions == WorkTypeOK => DOMAIN req = Requests
BY DEF WorkTypeOK

----------------------------------------------------------------------------
(* The parts of the invariant, one step on. *)

LEMMA KindsFitStep ==
  ASSUME WorkInv, WorkTypeOK', WorkNext
  PROVE  KindsFit'
<1>0. StepFacts /\ WorkTypeOK /\ KindsFit  BY WorkFacts DEF WorkInv
<1>1. ASSUME NEW n \in Items, row'[n].parent # NoRow
      PROVE  Kind[row'[n].parent] = ParentKind[Kind[n]]
  BY <1>0, <1>1 DEF StepFacts, ParentFacts, KindsFit
<1>2. ASSUME NEW r \in Requests, Hangs(r)', req'[r].parent # NoRow
      PROVE  Kind[req'[r].parent] = ParentKind[Kind[req'[r].item]]
  <2>0. req'[r] # NoRow /\ req'[r].op \in {"create", "move"}  BY <1>2 DEF Hangs, Runs, Free
  <2>1. CASE req'[r] = req[r]
    <3>1. Hangs(r)  BY <2>0, <2>1 DEF Hangs, Runs, Free
    <3> QED  BY <1>0, <1>2, <2>1, <3>1 DEF KindsFit
  <2>2. ASSUME NEW n \in Items, NEW p \in Items \cup {NoRow}, NEW s \in Sprints \cup {NoRow},
               CreateChecks(r, n, p, s)
        PROVE  Kind[req'[r].parent] = ParentKind[Kind[req'[r].item]]
    <3>1. req'[r] = [op |-> "create", item |-> n, parent |-> p, sprint |-> s]
      BY <1>0, <2>2, RequestsAreFunctions DEF CreateChecks, Begin
    <3> QED  BY <1>2, <2>2, <3>1 DEF CreateChecks
  <2>3. ASSUME NEW n \in Items, NEW p \in Items \cup {NoRow}, MoveChecks(r, n, p)
        PROVE  Kind[req'[r].parent] = ParentKind[Kind[req'[r].item]]
    <3>1. req'[r] = [op |-> "move", item |-> n, parent |-> p]
      BY <1>0, <2>3, RequestsAreFunctions DEF MoveChecks, Begin
    <3> QED  BY <1>2, <2>3, <3>1 DEF MoveChecks
  <2>4. ~CascadeReads(r)
    <3>1. SUFFICES ASSUME CascadeReads(r) PROVE req'[r].op = "cascade"  BY <2>0
    <3>2. req[r] \in [op : {"cascade"}, last : SUBSET Items, got : SUBSET Items]
      BY <1>0, <3>1, RunningShapes, RequestShapes DEF CascadeReads, Runs
    <3> QED  BY <1>0, <3>1, <3>2, RequestsAreFunctions DEF CascadeReads, Begin
  <2>5. ~\E n \in Items : CascadeStarts(r, n)
    BY <1>0, <2>0, RequestsAreFunctions DEF CascadeStarts, Begin
  <2> QED  BY <1>0, <2>0, <2>1, <2>2, <2>3, <2>4, <2>5 DEF StepFacts, RequestFacts
<1> QED  BY <1>1, <1>2 DEF KindsFit

\* How a cascade can be under way after a step.
LEMMA CascadesAfter ==
  ASSUME WorkTypeOK, StepFacts, NEW r \in Requests, Runs(r, "cascade")'
  PROVE  \/ req'[r] = req[r] /\ Runs(r, "cascade")
         \/ /\ row' = row /\ Runs(r, "cascade")
            /\ req'[r].last = ChildrenOf(req[r].last)
            /\ req'[r].got = req[r].got \cup req'[r].last
         \/ /\ row' = row
            /\ \E n \in Items : LiveItem(n) /\ req'[r].last = {n} /\ req'[r].got = {n}
<1>0. req'[r] # NoRow /\ req'[r].op = "cascade"  BY DEF Runs, Free
<1>1. CASE req'[r] = req[r]  BY <1>0, <1>1 DEF Runs, Free
<1>2. CASE CascadeReads(r) /\ row' = row
  <2>1. req[r] \in [op : {"cascade"}, last : SUBSET Items, got : SUBSET Items]
    BY <1>2, RunningShapes, RequestShapes DEF CascadeReads, Runs
  <2> DEFINE next == ChildrenOf(req[r].last)
  <2>2. req'[r] = [req[r] EXCEPT !.last = next, !.got = @ \cup next]
    BY <1>2, RequestsAreFunctions DEF CascadeReads, Begin
  <2>3. req'[r].last = next /\ req'[r].got = req[r].got \cup next
    <3> HIDE DEF next
    <3> QED  BY <2>1, <2>2
  <2> QED  BY <1>2, <2>3 DEF CascadeReads
<1>3. ASSUME NEW n \in Items, CascadeStarts(r, n), row' = row
      PROVE  LiveItem(n) /\ req'[r].last = {n} /\ req'[r].got = {n}
  BY <1>3, RequestsAreFunctions DEF CascadeStarts, Begin
<1>4. \A n \in Items, p \in Items \cup {NoRow} : MoveChecks(r, n, p) => req'[r].op = "move"
  BY RequestsAreFunctions DEF MoveChecks, Begin
<1>5. \A n \in Items, p \in Items \cup {NoRow}, s \in Sprints \cup {NoRow} :
        CreateChecks(r, n, p, s) => req'[r].op = "create"
  BY RequestsAreFunctions DEF CreateChecks, Begin
<1> QED  BY <1>0, <1>1, <1>2, <1>3, <1>4, <1>5 DEF StepFacts, RequestFacts

LEMMA SettledStep ==
  ASSUME WorkInv, WorkNext
  PROVE  SettledUnread'
<1>0. WorkTypeOK /\ StepFacts /\ Histories /\ SettledUnread  BY WorkFacts DEF WorkInv, WorkNext
<1>1. \A n \in settled' : row'[n].state = "binned"  BY <1>0 DEF Histories
<1>2. ASSUME NEW r \in Requests, Runs(r, "cascade")', NEW n \in req'[r].got, n \in settled'
      PROVE  FALSE
  <2>1. n \in Items /\ n \in settled /\ row'[n].state = "binned"
    BY <1>0, <1>2 DEF Histories
  <2>2. Runs(r, "cascade") => n \notin req[r].got  BY <1>0, <2>1 DEF SettledUnread
  <2>3. \A N : n \in ChildrenOf(N) => row[n].state # "binned"  BY DEF ChildrenOf, LiveItem
  <2> QED  BY <1>0, <1>2, <2>1, <2>2, <2>3, CascadesAfter DEF LiveItem
<1> QED  BY <1>1, <1>2 DEF SettledUnread

\* No cascade stamps what is settled in the bin.
LEMMA BatchStep ==
  ASSUME WorkInv, WorkNext
  PROVE  \A n \in settled : row'[n].state = "binned" => row'[n].batch = row[n].batch
<1>1. ParentFacts /\ SettledUnread /\ settled \subseteq Items
  BY WorkFacts DEF WorkInv, StepFacts, WorkTypeOK
<1> QED  BY <1>1 DEF ParentFacts, SettledUnread

LEMMA CascadeCoversStep ==
  ASSUME WorkInv, WorkNext
  PROVE  CascadeCovers'
<1> SUFFICES ASSUME NEW r \in Requests, Runs(r, "cascade")',
                    NEW m \in req'[r].got \ req'[r].last, NEW n \in Items,
                    LiveItem(n)', row'[n].parent = m
             PROVE  n \in req'[r].got \cup apart'
  BY DEF CascadeCovers
<1>0. WorkTypeOK /\ StepFacts /\ Histories  BY WorkFacts DEF WorkInv, WorkNext
<1>1. Runs(r, "cascade") => \A k \in req[r].got \ req[r].last :
        LiveItem(n) /\ row[n].parent = k => n \in req[r].got \cup apart
  BY DEF WorkInv, CascadeCovers
<1>2. ASSUME n \in apart \/ ~LiveItem(n) \/ row'[n].parent # row[n].parent
      PROVE n \in apart'
  BY <1>0, <1>2, ApartIsKept
<1>3. CASE req'[r] = req[r] /\ Runs(r, "cascade")
  <2>1. CASE LiveItem(n) /\ row[n].parent = m  BY <1>1, <1>2, <1>3, <2>1
  <2>2. CASE ~LiveItem(n) \/ row[n].parent # m  BY <1>2, <2>2
  <2> QED  BY <2>1, <2>2
<1>4. CASE /\ row' = row /\ Runs(r, "cascade")
           /\ req'[r].last = ChildrenOf(req[r].last)
           /\ req'[r].got = req[r].got \cup req'[r].last
  <2>1. LiveItem(n) /\ row[n].parent = m  BY <1>4 DEF LiveItem
  <2>2. CASE m \in req[r].last  BY <1>4, <2>1, <2>2 DEF ChildrenOf
  <2>3. CASE m \notin req[r].last  BY <1>1, <1>2, <1>4, <2>1, <2>3
  <2> QED  BY <2>2, <2>3
<1>5. ~\E k \in Items : req'[r].last = {k} /\ req'[r].got = {k}  OBVIOUS
<1> QED  BY <1>0, <1>3, <1>4, <1>5, CascadesAfter

LEMMA NobodyStep ==
  ASSUME WorkInv, WorkTypeOK', WorkNext
  PROVE  NobodyIsLeftBehind'
<1> SUFFICES ASSUME NEW n \in Items, LiveItem(n)', row'[n].parent # NoRow,
                    row'[row'[n].parent].state = "binned"
             PROVE  n \in apart'
  BY DEF NobodyIsLeftBehind
<1> DEFINE p == row'[n].parent
<1>0. WorkTypeOK /\ StepFacts /\ Histories /\ p \in Items
  BY WorkFacts, RowShapes DEF WorkInv, WorkNext, WorkTypeOK, Rows
<1>1. CASE n \in apart \/ ~LiveItem(n) \/ row'[n].parent # row[n].parent
  BY <1>0, <1>1, ApartIsKept
<1>2. CASE LiveItem(n) /\ n \notin apart /\ row'[n].parent = row[n].parent
  <2>1. row[n].parent = p  BY <1>2
  <2>2. row[p].state # "binned"
    BY <1>2, <2>1 DEF WorkInv, NobodyIsLeftBehind
  <2>3. Kind[p] # "task"
    <3>1. Kind[p] = ParentKind[Kind[n]]  BY <2>1 DEF WorkInv, KindsFit
    <3>2. Kind[n] \in Kinds  BY KindType
    <3> QED  BY <3>1, <3>2 DEF ParentKind, Kinds
  <2>4. PICK r \in Requests : /\ Runs(r, "cascade") /\ req[r].last = {} /\ p \in req[r].got
                              /\ \A k \in req[r].got : row'[k].state # "live"
    BY <1>0, <2>2, <2>3 DEF StepFacts, ParentFacts
  <2>5. n \in req[r].got \cup apart  BY <1>2, <2>1, <2>4 DEF WorkInv, CascadeCovers
  <2> QED  BY <1>2, <2>4, <2>5 DEF LiveItem
<1> QED  BY <1>1, <1>2

LEMMA WorkInvStep == WorkInv /\ [WorkNext]_workVars => WorkInv'
<1> SUFFICES ASSUME WorkInv, [WorkNext]_workVars PROVE WorkInv'  OBVIOUS
<1>1. CASE WorkNext
  <2>1. WorkTypeOK'  BY <1>1, WorkTypeStep DEF WorkInv
  <2> QED
    BY <1>1, <2>1, KindsFitStep, CascadeCoversStep, SettledStep, NobodyStep DEF WorkInv
<1>2. CASE UNCHANGED workVars
  <2> USE <1>2 DEF workVars, tables, WorkInv
  <2>1. WorkTypeOK'  BY DEF WorkTypeOK
  <2>2. KindsFit'  BY DEF KindsFit, Hangs, Runs, Free
  <2>3. CascadeCovers'  BY DEF CascadeCovers, Runs, Free, LiveItem
  <2>4. SettledUnread'  BY DEF SettledUnread, Runs, Free
  <2>5. NobodyIsLeftBehind'  BY DEF NobodyIsLeftBehind, LiveItem
  <2> QED  BY <2>1, <2>2, <2>3, <2>4, <2>5
<1> QED  BY <1>1, <1>2

LEMMA WorkInvHolds == WorkSpec => []WorkInv
BY WorkInvInit, WorkInvStep, PTL DEF WorkSpec

----------------------------------------------------------------------------
\* Rows, sprints and requests keep their types, and nothing alive carries a batch.
THEOREM WorkTypeCorrect == WorkSpec => []WorkTypeOK
<1>1. WorkInv => WorkTypeOK  BY DEF WorkInv
<1> QED  BY <1>1, WorkInvHolds, PTL

\* What has settled in the bin is never stamped with a later batch, for any tree of items
\* and any requests beside it, moves and restores included (workItemDeletionService.js,
\* the descendants' queries and the UPDATE by id).
THEOREM BatchesAreHonest == WorkSpec => BatchTakesOnlyTheLiving
<1>1. ASSUME WorkInv, [WorkNext]_workVars
      PROVE  [\A n \in settled : row'[n].state = "binned" => row'[n].batch = row[n].batch]_workVars
  BY <1>1, BatchStep
<1> QED  BY <1>1, WorkInvHolds, PTL DEF WorkSpec, BatchTakesOnlyTheLiving

\* A live item hangs below a binned parent only if it came to life there, or was moved
\* there, beside a deletion: what a cascade has read covers the rest of the subtree
\* (softDeleteEpic and its siblings).
THEOREM SubtreesGoTogether == WorkSpec => []NobodyIsLeftBehind
<1>1. WorkInv => NobodyIsLeftBehind  BY DEF WorkInv
<1> QED  BY <1>1, WorkInvHolds, PTL

----------------------------------------------------------------------------
(* A permanent delete, when nothing it has checked is restored meanwhile.  *)

\* From the bin an item is restored or erased, from there nowhere; what lives is only
\* ever erased by a permanent delete of that item.
StateFacts ==
  \A n \in Items :
    /\ row[n].state = "binned" => row'[n].state \in {"binned", "live", "erased"}
    /\ row[n].state = "erased" => row'[n].state = "erased"
    /\ row[n].state = "live" /\ row'[n].state = "erased" =>
         \E r \in Requests : Runs(r, "purge") /\ req[r].item = n

LEMMA StatesStep ==
  ASSUME WorkTypeOK, [WorkNext]_workVars
  PROVE  StateFacts
<1>0. /\ row \in [Items -> Rows] /\ \A n \in Items : row[n] \in Rows
      /\ \A w \in Rows : /\ \A b : [w EXCEPT !.state = "live", !.batch = b].state = "live"
                         /\ \A b : [w EXCEPT !.state = "binned", !.batch = b].state = "binned"
                         /\ [w EXCEPT !.state = "binned"].state = "binned"
                         /\ \A s : [w EXCEPT !.sprint = s].state = w.state
                         /\ \A p : [w EXCEPT !.parent = p].state = w.state
  BY DEF WorkTypeOK, Rows
<1>1. ASSUME row' = row PROVE StateFacts  BY <1>1 DEF StateFacts
<1>2. ASSUME NEW r \in Requests, CascadeCommits(r) PROVE StateFacts
  <2>1. \A n \in Items : \/ row'[n] = row[n]
                         \/ row[n].state # "erased" /\ row'[n].state = "binned"
    BY <1>0, <1>2 DEF CascadeCommits
  <2> QED  BY <2>1 DEF StateFacts
<1>3. ASSUME NEW r \in Requests, RestoreBatch(r) PROVE StateFacts
  <2>1. \A n \in Items : \/ row'[n] = row[n]
                         \/ row[n].state # "erased" /\ row'[n].state = "live"
    BY <1>0, <1>3 DEF RestoreBatch
  <2> QED  BY <2>1 DEF StateFacts
<1>4. ASSUME NEW r \in Requests, Purge(r) PROVE StateFacts
  <2>1. /\ Runs(r, "purge")
        /\ \A n \in Items : /\ n = req[r].item => row'[n].state = "erased"
                            /\ n # req[r].item => row'[n].state = row[n].state
    BY <1>0, <1>4 DEF Purge
  <2> QED  BY <2>1 DEF StateFacts
<1>5. ASSUME NEW r \in Requests,
             Assign(r) \/ Start(r) \/ Complete(r) \/ SoftDeleteSprint(r) \/ PurgeSprint(r)
      PROVE  StateFacts
  <2>1. \A n \in Items : row'[n].state = row[n].state
    <3>1. CASE Assign(r)  BY <1>0, <3>1 DEF Assign
    <3>2. CASE Start(r)  BY <3>2 DEF Start
    <3>3. CASE Complete(r)  BY <1>0, <3>3 DEF Complete
    <3>4. CASE SoftDeleteSprint(r)  BY <1>0, <3>4 DEF SoftDeleteSprint
    <3>5. CASE PurgeSprint(r)  BY <1>0, <3>5 DEF PurgeSprint
    <3> QED  BY <1>5, <3>1, <3>2, <3>3, <3>4, <3>5
  <2> QED  BY <2>1 DEF StateFacts
<1>6. ASSUME NEW r \in Requests, CreateInserts(r) PROVE StateFacts
  <2>1. \A n \in Items : \/ row'[n] = row[n]
                         \/ row[n].state = "none" /\ row'[n].state = "live"
    BY <1>0, <1>6 DEF CreateInserts
  <2> QED  BY <2>1 DEF StateFacts
<1>11. ASSUME NEW r \in Requests, Move(r) PROVE StateFacts
  <2>1. \A n \in Items : row'[n].state = row[n].state  BY <1>0, <1>11 DEF Move
  <2> QED  BY <2>1 DEF StateFacts
<1>7. ASSUME NEW m \in Items, SoftDeleteTask(m) \/ RestoreRow(m) PROVE StateFacts
  <2>1. \A n \in Items : \/ row'[n] = row[n]
                         \/ row[n].state = "live" /\ row'[n].state = "binned"
                         \/ row[n].state = "binned" /\ row'[n].state = "live"
    <3>1. CASE SoftDeleteTask(m)  BY <1>0, <3>1 DEF SoftDeleteTask, LiveItem
    <3>2. CASE RestoreRow(m)  BY <1>0, <3>2 DEF RestoreRow
    <3> QED  BY <1>7, <3>1, <3>2
  <2> QED  BY <2>1 DEF StateFacts
<1>8. ASSUME NEW r \in Requests, TreeStep(r) \/ SprintStep(r) \/ CreateStep(r) \/ RequestFails(r)
      PROVE  StateFacts
  <2>1. \/ Reading(r) \/ CascadeCommits(r) \/ RestoreBatch(r) \/ Purge(r)
        \/ Assign(r) \/ Start(r) \/ Complete(r) \/ SoftDeleteSprint(r) \/ PurgeSprint(r)
        \/ CreateInserts(r) \/ Move(r)
    BY <1>8 DEF TreeStep, SprintStep, CreateStep, Reading
  <2> QED  BY <1>1, <1>2, <1>3, <1>4, <1>5, <1>6, <1>11, <2>1, ReadingReads
<1>9. ASSUME NEW s \in Sprints, CreateSprint(s) \/ RestoreSprint(s) PROVE StateFacts
  BY <1>1, <1>9 DEF CreateSprint, RestoreSprint
<1>10. UNCHANGED workVars => row' = row  BY DEF workVars, tables
<1> QED  BY <1>1, <1>7, <1>8, <1>9, <1>10 DEF WorkNext, WorkAct

\* What a permanent delete has checked is still in the bin, or erased by another one.
PurgeHolds ==
  \A r \in Requests : Runs(r, "purge") => row[req[r].item].state \in {"binned", "erased"}

\* Nobody restores what a permanent delete has checked before its DELETE has run.
NotRestored ==
  \A r \in Requests : Runs(r, "purge") =>
    ~(row[req[r].item].state = "binned" /\ row'[req[r].item].state = "live")

LEMMA PurgeBegins ==
  ASSUME WorkTypeOK, [WorkNext]_workVars, NEW r \in Requests, Runs(r, "purge")'
  PROVE  \/ req'[r] = req[r]
         \/ row[req'[r].item].state = "binned" /\ row' = row
<1>1. CASE UNCHANGED workVars  BY <1>1 DEF workVars
<1>2. CASE \E q \in Requests : Reading(q)
  <2>1. PICK q \in Requests : Reading(q)  BY <1>2
  <2>2. row' = row  BY <2>1, ReadingReads
  <2>3. CASE q # r
    <3>1. \E t : req' = [req EXCEPT ![q] = t]  BY <2>1, ReadingBegins
    <3> QED  BY <2>3, <3>1 DEF WorkTypeOK
  <2>4. CASE q = r
    <3>0. DOMAIN req = Requests /\ req'[r] # NoRow /\ req'[r].op = "purge"
      BY DEF WorkTypeOK, Runs, Free
    <3> HIDE DEF Runs, Free
    <3>1. ~RequestFails(r)  BY <3>0 DEF RequestFails, End
    <3>2. ~CascadeReads(r)
      <4> SUFFICES ASSUME CascadeReads(r) PROVE FALSE  OBVIOUS
      <4>1. req[r].op = "cascade" /\ req[r] \in RequestType
        BY RunningShapes DEF CascadeReads, Runs
      <4>2. req[r] \in [op : {"cascade"}, last : SUBSET Items, got : SUBSET Items]
        BY <4>1, RequestShapes
      <4> QED  BY <3>0, <4>2 DEF CascadeReads, Begin
    <3>3. \A n \in Items : ~CascadeStarts(r, n)  BY <3>0 DEF CascadeStarts, Begin
    <3>4. \A n \in Items, p \in Items \cup {NoRow}, s \in Sprints \cup {NoRow} :
            ~CreateChecks(r, n, p, s)
      BY <3>0 DEF CreateChecks, Begin
    <3>5. /\ \A n \in Items, s \in Sprints \cup {NoRow} : ~AssignReads(r, n, s)
          /\ \A n \in Items, p \in Items \cup {NoRow} : ~MoveChecks(r, n, p)
      BY <3>0 DEF AssignReads, MoveChecks, Begin
    <3>6. \A b \in 1..MaxBatch : ~RestoreBatchReads(r, b)  BY <3>0 DEF RestoreBatchReads, Begin
    <3>7. \A s \in Sprints : ~StartReads(r, s) /\ ~CompleteReads(r, s) /\ ~PurgeSprintChecks(r, s)
      BY <3>0 DEF StartReads, CompleteReads, PurgeSprintChecks, Begin
    <3>8. \A s \in Sprints : ~SoftDeleteSprintReads(r, s)
      BY <3>0 DEF SoftDeleteSprintReads, Begin
    <3>9. PICK n \in Items : PurgeChecks(r, n)
      BY <2>1, <2>4, <3>1, <3>2, <3>3, <3>4, <3>5, <3>6, <3>7, <3>8 DEF Reading
    <3> QED  BY <2>2, <3>0, <3>9 DEF PurgeChecks, Begin
  <2> QED  BY <2>3, <2>4
<1>3. CASE WorkNext /\ ~\E q \in Requests : Reading(q)
  <2>1. req' = req \/ \E q \in Requests : req' = [req EXCEPT ![q] = NoRow]
    BY ZenonT(40), <1>3 DEF WorkNext, WorkAct, TreeStep, SprintStep, CreateStep, Reading, CascadeCommits,
       RestoreBatch, Purge, Assign, Start, Complete, SoftDeleteSprint, PurgeSprint,
       CreateInserts, Move, SoftDeleteTask, RestoreRow, CreateSprint, RestoreSprint, End
  <2> QED  BY <2>1 DEF WorkTypeOK, Runs, Free
<1> QED  BY <1>1, <1>2, <1>3

LEMMA PurgeStep ==
  ASSUME WorkTypeOK, PurgeHolds, [WorkNext]_workVars, NotRestored
  PROVE  PurgeHolds' /\ \A n \in Items : LiveItem(n) => row'[n].state # "erased"
<1>1. StateFacts  BY StatesStep
<1>2. ASSUME NEW r \in Requests, Runs(r, "purge")'
      PROVE  row'[req'[r].item].state \in {"binned", "erased"}
  <2>1. CASE req'[r] = req[r]
    <3>1. Runs(r, "purge") /\ req[r].item \in Items
      <4>1. Runs(r, "purge")  BY <1>2, <2>1 DEF Runs, Free
      <4> QED  BY <4>1, RunningShapes, RequestShapes DEF Runs
    <3>2. row[req[r].item].state \in {"binned", "erased"}  BY <3>1 DEF PurgeHolds
    <3> QED  BY <1>1, <2>1, <3>1, <3>2 DEF StateFacts, NotRestored
  <2>2. CASE row[req'[r].item].state = "binned" /\ row' = row  BY <2>2
  <2> QED  BY <1>2, <2>1, <2>2, PurgeBegins
<1>3. \A n \in Items : LiveItem(n) => row'[n].state # "erased"
  BY <1>1 DEF StateFacts, PurgeHolds, LiveItem
<1> QED  BY <1>2, <1>3 DEF PurgeHolds

\* The race that the run work_purge shows is the only one: with nothing restored between
\* the check of a permanent delete and its DELETE (assertSoftDeleted and what follows it),
\* no live item is ever erased, whatever cascades, moves and other deletes run beside it.
THEOREM PurgesAreSafe ==
  WorkSpec /\ [][NotRestored]_workVars => PurgeOnlyWhatIsBinned
<1>1. WorkInit => PurgeHolds  BY DEF WorkInit, PurgeHolds, Runs, Free
<1>2. ASSUME WorkInv, PurgeHolds, [WorkNext]_workVars, [NotRestored]_workVars
      PROVE  PurgeHolds' /\ [\A n \in Items : LiveItem(n) => row'[n].state # "erased"]_workVars
  <2>1. CASE UNCHANGED workVars
    BY <1>2, <2>1 DEF workVars, tables, PurgeHolds, Runs, Free
  <2>2. CASE NotRestored  BY <1>2, <2>2, PurgeStep DEF WorkInv
  <2> QED  BY <1>2, <2>1, <2>2
<1> QED
  BY <1>1, <1>2, WorkInvHolds, PTL DEF WorkSpec, PurgeOnlyWhatIsBinned
=============================================================================
