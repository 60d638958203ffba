----------------------------- MODULE WorkItems -----------------------------
(***************************************************************************)
(* The work items and the sprints of ONE project, and its recycle bin      *)
(* (workItemDeletionService.js, sprintService.js and the handlers that call  *)
(* them).  Epics, features, user stories and tasks are items of one table   *)
(* here, told apart by their kind.                                         *)
(*                                                                         *)
(* A request is a sequence of queries under READ COMMITTED: what one query   *)
(* has read may be changed before the next one writes.  A transaction's      *)
(* writes appear at once, when it commits.  Two writes of one row wait for   *)
(* each other; a transaction that fails leaves nothing.                      *)
(***************************************************************************)
EXTENDS Naturals, FiniteSets

CONSTANTS
  Items,      \* ids of epics, features, user stories and tasks
  Sprints,    \* ids of sprints
  Requests,   \* requests under way at once
  Kind,       \* the table each item is in
  NoRow,      \* SQL NULL; no request
  MaxBatch    \* bound: cascades

Kinds == {"epic", "feature", "story", "task"}
ParentKind == [epic |-> "none", feature |-> "epic", story |-> "feature", task |-> "story"]

ASSUME KindType == Kind \in [Items -> Kinds]
ASSUME NoRowIsNone == NoRow \notin Items \cup Sprints
ASSUME MaxBatchType == MaxBatch \in Nat

VARIABLES
  row,      \* the items: deleted_at, deleted_batch_id, parent and sprint
  sprint,   \* the sprints: deleted_at and status
  req,      \* what each request has read so far
  batches,  \* cascades that have committed
  apart,    \* history: items that came to life, or below a parent, beside a deletion
  settled   \* history: items that went into the bin unread by any cascade under way

tables == <<row, sprint, batches>>
workVars == <<tables, req, apart, settled>>

States == {"none", "live", "binned", "erased"}
Rows == [state : States, batch : 0..MaxBatch, parent : Items \cup {NoRow},
         sprint : Sprints \cup {NoRow}]
SprintRows == [state : States, status : {"planning", "active", "completed"}]

LiveItem(n) == row[n].state = "live"
LiveSprint(s) == sprint[s].state = "live"
ChildrenOf(N) == {n \in Items : LiveItem(n) /\ row[n].parent \in N}
InSprint(s) == {n \in Items : row[n].sprint = s /\ row[n].state \in {"live", "binned"}}
MayHaveSprint(n) == Kind[n] \in {"story", "task"}

Free(r) == req[r] = NoRow
Runs(r, op) == ~Free(r) /\ req[r].op = op
Begin(r, t) == req' = [req EXCEPT ![r] = t]
End(r) == req' = [req EXCEPT ![r] = NoRow]

RequestType ==
  [op : {"cascade"}, last : SUBSET Items, got : SUBSET Items]
    \cup [op : {"restoreAll"}, batch : 1..MaxBatch, got : SUBSET Items]
    \cup [op : {"deleteSprint"}, sprint : Sprints, got : SUBSET Items]
    \cup [op : {"start", "complete", "purgeSprint"}, sprint : Sprints]
    \cup [op : {"assign"}, item : Items, sprint : Sprints \cup {NoRow}]
    \cup [op : {"create"}, item : Items, parent : Items \cup {NoRow}, sprint : Sprints \cup {NoRow}]
    \cup [op : {"move"}, item : Items, parent : Items \cup {NoRow}]
    \cup [op : {"purge"}, item : Items]

WorkInit ==
  /\ row = [n \in Items |-> [state |-> "none", batch |-> 0, parent |-> NoRow, sprint |-> NoRow]]
  /\ sprint = [s \in Sprints |-> [state |-> "none", status |-> "planning"]]
  /\ req = [r \in Requests |-> NoRow]
  /\ batches = 0
  /\ apart = {} /\ settled = {}

\* Any request may be refused or fail between two queries.
RequestFails(r) ==
  /\ ~Free(r) /\ End(r)
  /\ UNCHANGED tables

-----------------------------------------------------------------------------
(* Creating items and sprints, and moving an item below another parent.    *)

\* assertUserStoryBelongsToProject and assertSprintBelongsToProject.
CreateChecks(r, n, p, s) ==
  /\ Free(r) /\ row[n].state = "none"
  /\ p # NoRow => LiveItem(p) /\ Kind[p] = ParentKind[Kind[n]]
  /\ s # NoRow => LiveSprint(s) /\ MayHaveSprint(n)
  /\ Begin(r, [op |-> "create", item |-> n, parent |-> p, sprint |-> s])
  /\ UNCHANGED tables

\* The INSERT: the foreign keys want a row, deleted or not.
CreateInserts(r) ==
  /\ Runs(r, "create")
  /\ LET n == req[r].item  p == req[r].parent  s == req[r].sprint IN
       /\ row[n].state = "none"
       /\ p # NoRow => row[p].state # "erased"
       /\ s # NoRow => sprint[s].state # "erased"
       /\ row' = [row EXCEPT ![n] =
            [state |-> "live", batch |-> 0, parent |-> p, sprint |-> s]]
  /\ End(r)
  /\ UNCHANGED <<sprint, batches>>

\* updateFeature and updateUserStory: the item and the new parent are read.
MoveChecks(r, n, p) ==
  /\ Free(r) /\ LiveItem(n) /\ Kind[n] \in {"feature", "story"}
  /\ p # NoRow => LiveItem(p) /\ Kind[p] = ParentKind[Kind[n]]
  /\ Begin(r, [op |-> "move", item |-> n, parent |-> p])
  /\ UNCHANGED tables

\* The UPDATE asks for the id only.
Move(r) ==
  /\ Runs(r, "move")
  /\ LET n == req[r].item  p == req[r].parent IN
       /\ p # NoRow => row[p].state # "erased"
       /\ row' = IF row[n].state = "erased" THEN row ELSE [row EXCEPT ![n].parent = p]
  /\ End(r)
  /\ UNCHANGED <<sprint, batches>>

CreateSprint(s) ==
  /\ sprint[s].state = "none"
  /\ sprint' = [sprint EXCEPT ![s].state = "live"]
  /\ UNCHANGED <<row, batches, req>>

-----------------------------------------------------------------------------
(* Moving items to the bin and back.                                       *)

\* softDeleteEpic, softDeleteFeature, softDeleteUserStory: the root is read.
CascadeStarts(r, n) ==
  /\ Free(r) /\ LiveItem(n) /\ Kind[n] # "task"
  /\ Begin(r, [op |-> "cascade", last |-> {n}, got |-> {n}])
  /\ UNCHANGED tables

\* A bug: a descendants' query without "AND deleted_at IS NULL".
CascadeReadsAll(r) ==
  /\ Runs(r, "cascade") /\ req[r].last # {}
  /\ LET next == {n \in Items : row[n].state \in {"live", "binned"}
                                /\ row[n].parent \in req[r].last} IN
       Begin(r, [req[r] EXCEPT !.last = next, !.got = @ \cup next])
  /\ UNCHANGED tables

\* One level of descendants: what hangs, live, below the level read before.
CascadeReads(r) ==
  /\ Runs(r, "cascade") /\ req[r].last # {}
  /\ LET next == ChildrenOf(req[r].last) IN
       Begin(r, [req[r] EXCEPT !.last = next, !.got = @ \cup next])
  /\ UNCHANGED tables

\* A bug: a level of descendants is left out.
CascadeCommitsEarly(r) ==
  /\ Runs(r, "cascade") /\ batches < MaxBatch /\ \A n \in req[r].last : Kind[n] = "story"
  /\ batches' = batches + 1
  /\ row' = [n \in Items |->
       IF n \in req[r].got /\ row[n].state # "erased"
       THEN [row[n] EXCEPT !.state = "binned", !.batch = batches + 1] ELSE row[n]]
  /\ End(r)
  /\ UNCHANGED sprint

\* Every row that was read is stamped, in whatever state it is by now.
CascadeCommits(r) ==
  /\ Runs(r, "cascade") /\ req[r].last = {} /\ batches < MaxBatch
  /\ batches' = batches + 1
  /\ row' = [n \in Items |->
       IF n \in req[r].got /\ row[n].state # "erased"
       THEN [row[n] EXCEPT !.state = "binned", !.batch = batches + 1] ELSE row[n]]
  /\ End(r)
  /\ UNCHANGED sprint

SoftDeleteTask(n) ==
  /\ LiveItem(n) /\ Kind[n] = "task"
  /\ row' = [row EXCEPT ![n].state = "binned"]
  /\ UNCHANGED <<sprint, batches, req>>

RestoreRow(n) ==
  /\ row[n].state = "binned"
  /\ row' = [row EXCEPT ![n].state = "live", ![n].batch = 0]
  /\ UNCHANGED <<sprint, batches, req>>

\* getBatchMembership; the permissions are checked on what it found.
RestoreBatchReads(r, b) ==
  /\ Free(r)
  /\ LET members == {n \in Items : row[n].batch = b /\ row[n].state = "binned"} IN
       /\ members # {}
       /\ Begin(r, [op |-> "restoreAll", batch |-> b, got |-> members])
  /\ UNCHANGED tables

RestoreBatch(r) ==
  /\ Runs(r, "restoreAll")
  /\ row' = [n \in Items |->
       IF n \in req[r].got /\ row[n].batch = req[r].batch /\ row[n].state # "erased"
       THEN [row[n] EXCEPT !.state = "live", !.batch = 0] ELSE row[n]]
  /\ End(r)
  /\ UNCHANGED <<sprint, batches>>

\* assertSoftDeleted.
PurgeChecks(r, n) ==
  /\ Free(r) /\ row[n].state = "binned"
  /\ Begin(r, [op |-> "purge", item |-> n])
  /\ UNCHANGED tables

\* The DELETE asks for the id only; the children's foreign keys become NULL.
Purge(r) ==
  /\ Runs(r, "purge")
  /\ row' = [n \in Items |->
       IF n = req[r].item
       THEN [state |-> "erased", batch |-> 0, parent |-> NoRow, sprint |-> NoRow]
       ELSE IF row[n].parent = req[r].item THEN [row[n] EXCEPT !.parent = NoRow]
       ELSE row[n]]
  /\ End(r)
  /\ UNCHANGED <<sprint, batches>>

-----------------------------------------------------------------------------
(* Sprints.                                                                *)

\* assignTaskToSprint and assignUserStoryToSprint read the item and the sprint.
AssignReads(r, n, s) ==
  /\ Free(r) /\ LiveItem(n) /\ MayHaveSprint(n) /\ row[n].sprint # s
  /\ s # NoRow => LiveSprint(s)
  /\ Begin(r, [op |-> "assign", item |-> n, sprint |-> s])
  /\ UNCHANGED tables

Assign(r) ==
  /\ Runs(r, "assign")
  /\ LET n == req[r].item  s == req[r].sprint IN
       /\ s # NoRow => sprint[s].state # "erased"
       /\ row' = IF row[n].state = "erased" THEN row ELSE [row EXCEPT ![n].sprint = s]
  /\ End(r)
  /\ UNCHANGED <<sprint, batches>>

\* The handler's check and startSprint's own.
StartReads(r, s) ==
  /\ Free(r) /\ LiveSprint(s) /\ sprint[s].status = "planning"
  /\ ~\E t \in Sprints \ {s} : LiveSprint(t) /\ sprint[t].status = "active"
  /\ Begin(r, [op |-> "start", sprint |-> s])
  /\ UNCHANGED tables

\* uq_one_active_sprint_per_project counts the sprints in the bin too.
Start(r) ==
  /\ Runs(r, "start")
  /\ LET s == req[r].sprint IN
       IF sprint[s].status # "planning" \/ sprint[s].state = "erased"
       THEN UNCHANGED sprint
       ELSE /\ \A t \in Sprints \ {s} :
                 sprint[t].state # "erased" => sprint[t].status # "active"
            /\ sprint' = [sprint EXCEPT ![s].status = "active"]
  /\ End(r)
  /\ UNCHANGED <<row, batches>>

CompleteReads(r, s) ==
  /\ Free(r) /\ LiveSprint(s) /\ sprint[s].status = "active"
  /\ Begin(r, [op |-> "complete", sprint |-> s])
  /\ UNCHANGED tables

\* The tasks that are not closed go back to the backlog, binned or not.
Complete(r) ==
  /\ Runs(r, "complete")
  /\ LET s == req[r].sprint  tasks == {n \in InSprint(s) : Kind[n] = "task"} IN
       /\ \E closed \in SUBSET tasks :
            row' = [n \in Items |-> IF n \in tasks \ closed
                                    THEN [row[n] EXCEPT !.sprint = NoRow] ELSE row[n]]
       /\ sprint' = IF sprint[s].state = "erased" THEN sprint
                    ELSE [sprint EXCEPT ![s].status = "completed"]
  /\ End(r)
  /\ UNCHANGED batches

\* softDeleteSprint reads the status and what is live in the sprint.
SoftDeleteSprintReads(r, s) ==
  /\ Free(r) /\ LiveSprint(s) /\ sprint[s].status # "active"
  /\ Begin(r, [op |-> "deleteSprint", sprint |-> s,
               got |-> {n \in InSprint(s) : LiveItem(n)}])
  /\ UNCHANGED tables

\* What was read goes back to the backlog, the sprint into the bin.
SoftDeleteSprint(r) ==
  /\ Runs(r, "deleteSprint")
  /\ LET s == req[r].sprint IN
       /\ row' = [n \in Items |->
            IF n \in req[r].got THEN [row[n] EXCEPT !.sprint = NoRow] ELSE row[n]]
       /\ sprint' = IF sprint[s].state = "erased" THEN sprint
                    ELSE [sprint EXCEPT ![s].state = "binned"]
  /\ End(r)
  /\ UNCHANGED batches

RestoreSprint(s) ==
  /\ sprint[s].state = "binned"
  /\ sprint' = [sprint EXCEPT ![s].state = "live"]
  /\ UNCHANGED <<row, batches, req>>

PurgeSprintChecks(r, s) ==
  /\ Free(r) /\ sprint[s].state = "binned"
  /\ Begin(r, [op |-> "purgeSprint", sprint |-> s])
  /\ UNCHANGED tables

\* fk_tasks_sprint: ON DELETE SET NULL.
PurgeSprint(r) ==
  /\ Runs(r, "purgeSprint")
  /\ LET s == req[r].sprint IN
       /\ sprint' = [sprint EXCEPT ![s] = [state |-> "erased", status |-> "planning"]]
       /\ row' = [n \in Items |-> IF row[n].sprint = s
                                  THEN [row[n] EXCEPT !.sprint = NoRow] ELSE row[n]]
  /\ End(r)
  /\ UNCHANGED batches

-----------------------------------------------------------------------------
\* The histories follow from what a step does to the rows.  An item came to life or
\* below its parent beside a deletion if the parent is not live, or a cascade is under way.
Histories ==
  LET Cascading == \E r \in Requests : Runs(r, "cascade") IN
  /\ apart' = {n \in Items :
       /\ LiveItem(n)' /\ (n \in apart \/ ~LiveItem(n) \/ row'[n].parent # row[n].parent)
       /\ \/ Cascading \/ Cascading'
          \/ row'[n].parent # NoRow /\ row'[row'[n].parent].state # "live"}
  /\ settled' = {n \in Items :
       /\ row'[n].state = "binned"
       /\ \/ n \in settled
          \/ /\ row[n].state # "binned"
             /\ \A r \in Requests : Runs(r, "cascade")' => n \notin req'[r].got}

TreeStep(r) ==
  \/ \E n \in Items : CascadeStarts(r, n) \/ PurgeChecks(r, n)
  \/ \E b \in 1..MaxBatch : RestoreBatchReads(r, b)
  \/ CascadeReads(r) \/ CascadeCommits(r) \/ RestoreBatch(r) \/ Purge(r)

SprintStep(r) ==
  \/ \E s \in Sprints :
       StartReads(r, s) \/ CompleteReads(r, s) \/ SoftDeleteSprintReads(r, s)
         \/ PurgeSprintChecks(r, s)
  \/ \E n \in Items, s \in Sprints \cup {NoRow} : AssignReads(r, n, s)
  \/ Assign(r) \/ Start(r) \/ Complete(r) \/ SoftDeleteSprint(r) \/ PurgeSprint(r)

CreateStep(r) ==
  \/ \E n \in Items, p \in Items \cup {NoRow}, s \in Sprints \cup {NoRow} : CreateChecks(r, n, p, s)
  \/ \E n \in Items, p \in Items \cup {NoRow} : MoveChecks(r, n, p)
  \/ CreateInserts(r) \/ Move(r)

WorkAct ==
  \/ \E r \in Requests : TreeStep(r) \/ SprintStep(r) \/ CreateStep(r) \/ RequestFails(r)
  \/ \E n \in Items : SoftDeleteTask(n) \/ RestoreRow(n)
  \/ \E s \in Sprints : CreateSprint(s) \/ RestoreSprint(s)

WorkNext == WorkAct /\ Histories
WorkSpec == WorkInit /\ [][WorkNext]_workVars

-----------------------------------------------------------------------------
\* Every variable has its type; what is live carries no batch, what is erased
\* nothing at all.
WorkTypeOK ==
  /\ row \in [Items -> Rows] /\ sprint \in [Sprints -> SprintRows]
  /\ \A n \in Items : row[n].batch # 0 => row[n].state = "binned"
  /\ req \in [Requests -> RequestType \cup {NoRow}]
  /\ batches \in 0..MaxBatch
  /\ apart \subseteq Items /\ settled \subseteq Items

\* What lies in the bin keeps the batch it went there with, so that "Restore All" of a
\* later cascade never brings it back (the "AND deleted_at IS NULL" of the descendants'
\* queries).  What went there between a cascade's query and its UPDATE, which asks for
\* the ids only, is not meant: it is stamped, and comes back with the others.
BatchTakesOnlyTheLiving ==
  [][\A n \in settled : row'[n].state = "binned" => row'[n].batch = row[n].batch]_workVars

\* A live item hangs below a parent in the bin only if it was restored by itself, or
\* came to life or was moved there while a cascade was between its queries
\* (softDeleteEpic and its siblings take the whole subtree along).
NobodyIsLeftBehind ==
  \A n \in Items :
    LiveItem(n) /\ row[n].parent # NoRow /\ row[row[n].parent].state = "binned"
      => n \in apart

\* "Never permanently deletes something still active/visible": a live item is never
\* erased in one step (workItemDeletionService.js, PERMANENT DELETE).
PurgeOnlyWhatIsBinned ==
  [][\A n \in Items : LiveItem(n) => row'[n].state # "erased"]_workVars
=============================================================================
