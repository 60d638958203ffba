--------------------------- MODULE SmartSheetSync ---------------------------
(***************************************************************************)
(* Everybody who has the spreadsheet open: one editor tab per user         *)
(* (SmartSheetEditor.jsx), its synchronisation controller                  *)
(* (smartSheetSession.js), its save queue (smartSheetSync.js, in detail in *)
(* SaveQueue), the wire and the server (SmartSheetServer).                 *)
(*                                                                         *)
(* A tab's `sync` is where its controller stands: "off" before start(),    *)
(* "due" when an attempt is to begin (a backoff counts as part of it),     *)
(* then joining the room, draining the save queue, fetching (the request   *)
(* is out), reading (the server has read the revision, not yet the cells), *)
(* mounting (the state is on its way back), "live", or "revoked".          *)
(***************************************************************************)
EXTENDS SmartSheetServer

CONSTANTS
  CellItems,  \* the items that are cells: a pending edit of one is protected
  Rejoin      \* the number of a join sent by the save queue, not by the controller

ASSUME CellItemsAreItems == CellItems \subseteq Items
ASSUME RejoinIsAJoin == Rejoin \in Joins
ASSUME AttemptsStart == 1 \in Attempts

VARIABLES
  tab,   \* the editor tab of each user
  fate,  \* history: what each change's author has been told of it
  typed  \* history: what each user typed, in order

tabVars == <<tab, fate, typed>>
syncVars == <<serverVars, tabVars>>

Phases == {"off", "due", "joining", "draining", "fetching", "reading", "mounting",
           "live", "revoked"}

Tabs == [
  sync : Phases, joinNo : Joins,
  rerun : BOOLEAN,     \* a connect came while a synchronisation was running
  first : BOOLEAN,     \* firstSyncDone
  buffered : SUBSET [type : {"op"}, op : Ops, rev : Nat],
  snap : Nat,          \* revision of the state being fetched
  cells : [Items -> Ops \cup {Blank}],  \* and its content
  granted : BOOLEAN,   \* its permission is "edit"
  editable : BOOLEAN,  \* permissionAllowsEdit
  shut : BOOLEAN,      \* the access-revoked overlay
  online : BOOLEAN,    \* the queue's connected flag
  unsaved : Seq(Ops), sender : {"idle", "waiting", "pausing"}, att : Attempts,
  screen : [Items -> Ops \cup {Blank}]]

SyncInit ==
  /\ ServerInit
  /\ tab = [u \in Users |->
       [sync |-> "off", joinNo |-> Rejoin, rerun |-> FALSE, first |-> FALSE,
        buffered |-> {}, snap |-> 0, cells |-> [i \in Items |-> Blank],
        granted |-> FALSE, editable |-> FALSE,
        shut |-> FALSE, online |-> FALSE, unsaved |-> << >>, sender |-> "idle",
        att |-> 1, screen |-> [i \in Items |-> Blank]]]
  /\ fate = [o \in Ops |-> "untyped"]
  /\ typed = [u \in Users |-> << >>]

----------------------------------------------------------------------------
(* The wire, seen from a tab.                                              *)

Sends(u, m) ==
  /\ inbox' = Emit(inbox, u, m)
  /\ UNCHANGED <<dbVars, lineVars, conn, room, joined, joining, outbox, evicting>>

Message(u) == Head(outbox[u])

Gets(u, kind) ==
  /\ outbox[u] # << >>
  /\ Message(u).type = kind
  /\ outbox' = [outbox EXCEPT ![u] = Tail(@)]
  /\ UNCHANGED <<dbVars, lineVars, conn, room, joined, joining, evicting>>

\* A join that has not been answered: the next one needs another number.
Outstanding(u, n) ==
  \/ \E k \in DOMAIN inbox[u] : inbox[u][k] = [type |-> "join", n |-> n]
  \/ \E j \in joining : j.user = u /\ j.n = n
  \/ \E k \in DOMAIN outbox[u] : outbox[u][k].type = "joined" /\ outbox[u][k].n = n

----------------------------------------------------------------------------
(* The save queue.                                                         *)

Pending(t, i) == i \in CellItems /\ \E k \in DOMAIN t.unsaved : ItemOf[t.unsaved[k]] = i

UnsavedHead(u) == Head(tab[u].unsaved)

SettledBehind(t) == [t EXCEPT !.unsaved = Tail(@), !.sender = "idle", !.att = 0]

\* The head is confirmed or given up.
Settled(t) == [t EXCEPT !.unsaved = Tail(@), !.sender = "idle", !.att = 1]

\* Typing shows the change at once and queues it.
Type(u, o) ==
  /\ tab[u].sync = "live" /\ tab[u].editable /\ ~tab[u].shut
  /\ AuthorOf[o] = u /\ fate[o] = "untyped"
  /\ tab' = [tab EXCEPT ![u].screen[ItemOf[o]] = o, ![u].unsaved = Append(@, o)]
  /\ fate' = [fate EXCEPT ![o] = "pending"]
  /\ typed' = [typed EXCEPT ![u] = Append(@, o)]
  /\ UNCHANGED serverVars

SendHead(u) ==
  /\ tab[u].online /\ tab[u].sender = "idle" /\ tab[u].unsaved # << >>
  /\ Sends(u, [type |-> "op", op |-> UnsavedHead(u), att |-> tab[u].att])
  /\ tab' = [tab EXCEPT ![u].sender = "waiting"]
  /\ UNCHANGED <<fate, typed>>

\* What an unsuccessful answer does, or none: try again later, or give up.  Which
\* of the two, and when, is SaveQueue's; here any answer may be the last.
RetryOrGiveUp(u, retried) ==
  \/ tab' = [tab EXCEPT ![u] = retried] /\ UNCHANGED fate
  \/ /\ tab' = [tab EXCEPT ![u] = Settled(@)]
     /\ fate' = [fate EXCEPT ![UnsavedHead(u)] = "rejected"]

\* The connection is up but the answer takes longer than ACK_TIMEOUT_MS.
AckTimeout(u) ==
  /\ tab[u].sender = "waiting"
  /\ tab[u].att + 1 \in Attempts
  /\ RetryOrGiveUp(u, [tab[u] EXCEPT !.sender = "pausing", !.att = @ + 1])
  /\ UNCHANGED <<serverVars, typed>>

PauseOver(u) ==
  /\ tab[u].sender = "pausing"
  /\ tab' = [tab EXCEPT ![u].sender = "idle"]
  /\ UNCHANGED <<serverVars, fate, typed>>

ReceiveAck(u) ==
  LET t == tab[u]
      m == Message(u)
      awaited == t.sender = "waiting" /\ m.op = UnsavedHead(u) /\ m.att = t.att IN
    /\ Gets(u, "ack")
    /\ CASE ~awaited -> UNCHANGED <<tab, fate, inbox>>
         [] awaited /\ m.code = "OK" ->
              /\ tab' = [tab EXCEPT ![u] = Settled(@)]
              /\ fate' = [fate EXCEPT ![m.op] = "confirmed"]
              /\ UNCHANGED inbox
         \* (bounded: one rejoin of a tab at a time)
         [] awaited /\ m.code = "NOT_JOINED" ->
              /\ ~Outstanding(u, Rejoin)
              /\ tab' = [tab EXCEPT ![u].sender = "idle"]
              /\ inbox' = Emit(inbox, u, [type |-> "join", n |-> Rejoin])
              /\ UNCHANGED fate
         [] awaited /\ m.code \in {"SERVER_ERROR", "RATE_LIMITED"} ->
              /\ RetryOrGiveUp(u, [t EXCEPT !.sender = "pausing"])
              /\ UNCHANGED inbox
         [] OTHER ->
              /\ tab' = [tab EXCEPT ![u] = Settled(@)]
              /\ fate' = [fate EXCEPT ![m.op] = "rejected"]
              /\ UNCHANGED inbox
    /\ UNCHANGED typed

----------------------------------------------------------------------------
(* The synchronisation controller.                                         *)

Open(u) ==
  /\ tab[u].sync = "off" /\ u \in conn
  /\ tab' = [tab EXCEPT ![u].sync = "due"]
  /\ UNCHANGED <<serverVars, fate, typed>>

\* One attempt of attemptLoop: hold live changes back, close the gate, join.
Attempt(u) ==
  /\ tab[u].sync = "due" /\ u \in conn
  /\ \E n \in Joins \ {Rejoin} :
       /\ ~Outstanding(u, n)
       /\ Sends(u, [type |-> "join", n |-> n])
       /\ tab' = [tab EXCEPT ![u].sync = "joining", ![u].joinNo = n, ![u].buffered = {}]
  /\ UNCHANGED <<fate, typed>>

JoinTimeout(u) ==
  /\ tab[u].sync = "joining"
  /\ tab' = [tab EXCEPT ![u].sync = "due"]
  /\ UNCHANGED <<serverVars, fate, typed>>

\* The answer to the attempt's join; a late one, or a rejoin's, changes nothing.
ReceiveJoined(u) ==
  LET m == Message(u)
      again == [tab[u] EXCEPT !.sync = "due", !.rerun = FALSE] IN
    /\ Gets(u, "joined")
    /\ IF tab[u].sync = "joining" /\ m.n = tab[u].joinNo
       THEN tab' = [tab EXCEPT ![u] =
              CASE m.code = "OK" ->
                     [@ EXCEPT !.online = TRUE,
                               !.sync = IF tab[u].unsaved = << >> THEN "fetching"
                                                                  ELSE "draining"]
                [] m.code = "SERVER_ERROR" -> [@ EXCEPT !.sync = "due"]
                [] m.code = "NOT_FOUND" /\ @.rerun -> [again EXCEPT !.shut = TRUE]
                [] OTHER -> [@ EXCEPT !.sync = "revoked", !.shut = TRUE, !.first = TRUE]]
       ELSE UNCHANGED tab
    /\ UNCHANGED <<inbox, fate, typed>>

Drained(u) ==
  /\ tab[u].sync = "draining" /\ tab[u].unsaved = << >>
  /\ tab' = [tab EXCEPT ![u].sync = "fetching"]
  /\ UNCHANGED <<serverVars, fate, typed>>

DrainTimeoutProceeds(u) ==
  /\ tab[u].sync = "draining" /\ tab[u].unsaved # << >>
  /\ tab' = [tab EXCEPT ![u].sync = "fetching"]
  /\ UNCHANGED <<serverVars, fate, typed>>

DrainTimeoutOnline(u) ==
  /\ tab[u].sync = "draining" /\ tab[u].unsaved # << >> /\ tab[u].online
  /\ tab' = [tab EXCEPT ![u].sync = "due"]
  /\ UNCHANGED <<serverVars, fate, typed>>

\* A queue that does not empty in time: "stale", and another attempt.
DrainTimeout(u) ==
  /\ tab[u].sync = "draining" /\ tab[u].unsaved # << >>
  /\ tab' = [tab EXCEPT ![u].sync = "due"]
  /\ UNCHANGED <<serverVars, fate, typed>>

\* getWorkbook reads the access and the revision first ...
FetchRow(u) ==
  /\ tab[u].sync = "fetching"
  /\ Access(u) # "none"
  /\ tab' = [tab EXCEPT ![u].sync = "reading", ![u].snap = Len(log),
                        ![u].granted = Access(u) = "edit"]
  /\ UNCHANGED <<serverVars, fate, typed>>

\* ... and the cells after it; the answer is on its way.
FetchCells(u) ==
  /\ tab[u].sync = "reading"
  /\ tab' = [tab EXCEPT ![u].sync = "mounting", ![u].cells = content]
  /\ UNCHANGED <<serverVars, fate, typed>>

\* The request is refused, fails or is cut off: "stale", and another attempt.
FetchFails(u) ==
  /\ tab[u].sync \in {"fetching", "reading", "mounting"}
  /\ tab' = [tab EXCEPT ![u].sync = "due"]
  /\ UNCHANGED <<serverVars, fate, typed>>

MissedOne(t) == {m \in t.buffered : m.rev > t.snap + 1}

\* The held-back changes newer than the state, in the order of their revisions.
Missed(t) == {m \in t.buffered : m.rev > t.snap}

Replay(t) ==
  [i \in Items |->
     LET late == {m \in Missed(t) : ItemOf[m.op] = i} IN
       IF late = {} THEN t.cells[i]
       ELSE (CHOOSE m \in late : \A n \in late : n.rev <= m.rev).op]

\* The workbook is replaced and editing opens, unless a connect came meanwhile:
\* then everything begins again at once.
Mount(u) ==
  /\ tab[u].sync = "mounting"
  /\ tab' = [tab EXCEPT ![u].screen = Replay(tab[u]), ![u].buffered = {},
                        ![u].cells = [i \in Items |-> Blank],
                        ![u].editable = tab[u].granted, ![u].rerun = FALSE,
                        ![u].sync = IF tab[u].rerun THEN "due" ELSE "live",
                        ![u].first = @ \/ ~tab[u].rerun]
  /\ UNCHANGED <<serverVars, fate, typed>>

ApplyOpOver(t, m) == [t EXCEPT !.screen[ItemOf[m.op]] = m.op]

\* applyRemoteOp: a cell with an unsaved edit is left alone.
ApplyOp(t, m) ==
  IF Pending(t, ItemOf[m.op]) THEN t ELSE [t EXCEPT !.screen[ItemOf[m.op]] = m.op]

\* A change of somebody else: applied when in step, held back otherwise.
ReceiveOp(u) ==
  /\ Gets(u, "op")
  /\ tab' = [tab EXCEPT ![u] =
               CASE @.sync = "live" -> ApplyOp(@, Message(u))
                 [] @.sync \in {"off", "due", "revoked"} -> @
                 [] OTHER -> [@ EXCEPT !.buffered = tab[u].buffered \cup {Message(u)}]]
  /\ UNCHANGED <<inbox, fate, typed>>

ReceiveRevokedMild(u) ==
  /\ Gets(u, "access-revoked")
  /\ tab' = [tab EXCEPT ![u].online = FALSE]
  /\ UNCHANGED <<inbox, fate, typed>>

\* The overlay goes up and the queue stops.
ReceiveRevoked(u) ==
  /\ Gets(u, "access-revoked")
  /\ tab' = [tab EXCEPT ![u].shut = TRUE, ![u].online = FALSE]
  /\ UNCHANGED <<inbox, fate, typed>>

ReceiveChanged(u) ==
  /\ Gets(u, "access-changed")
  /\ tab' = [tab EXCEPT ![u].editable = Message(u).permission = "edit"]
  /\ UNCHANGED <<inbox, fate, typed>>

----------------------------------------------------------------------------
(* Connections come and go.                                                *)

TabConnectsOnce(u) ==
  /\ Connect(u)
  /\ tab' = [tab EXCEPT ![u].sync = IF tab[u].sync = "live" THEN "due" ELSE @]
  /\ UNCHANGED <<fate, typed>>

\* The connect event: synchronise, or once more after the one that is running.
\* Before the first synchronisation is done it is ignored.
TabConnects(u) ==
  /\ Connect(u)
  /\ tab' = [tab EXCEPT ![u] =
               CASE ~@.first -> @
                 [] @.first /\ @.sync \in {"live", "revoked"} -> [@ EXCEPT !.sync = "due"]
                 [] OTHER -> [@ EXCEPT !.rerun = TRUE]]
  /\ UNCHANGED <<fate, typed>>

CutShuffles(t) ==
  [t EXCEPT !.online = FALSE, !.att = 1,
            !.sync = IF @ = "joining" THEN "due" ELSE @,
            !.unsaved = IF t.sender = "waiting" THEN Append(Tail(@), Head(@)) ELSE @,
            !.sender = IF @ = "waiting" THEN "idle" ELSE @]

\* The disconnect event: the queue stops, whatever awaited an answer fails.
Cut(t) ==
  [t EXCEPT !.online = FALSE, !.att = 1,
            !.sync = IF @ = "joining" THEN "due" ELSE @,
            !.sender = IF @ = "waiting" THEN "idle" ELSE @]

TabDisconnects(u) ==
  /\ Disconnect(u)
  /\ \/ tab' = [tab EXCEPT ![u] = Cut(@)] /\ UNCHANGED fate
     \/ /\ tab[u].sender = "waiting"
        /\ tab' = [tab EXCEPT ![u] = Cut(Settled(@))]
        /\ fate' = [fate EXCEPT ![UnsavedHead(u)] = "rejected"]
  /\ UNCHANGED typed

\* A restart cuts every tab off and the requests under way with them.
TabsRestart ==
  /\ Restart
  /\ \E givingUp \in SUBSET {u \in Users : tab[u].sender = "waiting"} :
       /\ tab' = [u \in Users |->
            LET t == Cut(IF u \in givingUp THEN Settled(tab[u]) ELSE tab[u]) IN
              [t EXCEPT !.sync = IF @ \in {"fetching", "reading"} THEN "due" ELSE @]]
       /\ fate' = [o \in Ops |->
            IF \E u \in givingUp : UnsavedHead(u) = o THEN "rejected" ELSE fate[o]]
  /\ UNCHANGED typed

----------------------------------------------------------------------------
QueueStep(u) ==
  \/ SendHead(u) \/ PauseOver(u) \/ ReceiveAck(u)

ControllerStep(u) ==
  \/ Attempt(u) \/ Drained(u) \/ DrainTimeout(u)
  \/ FetchRow(u) \/ FetchCells(u) \/ FetchFails(u) \/ Mount(u)
  \/ ReceiveJoined(u) \/ ReceiveOp(u) \/ ReceiveRevoked(u) \/ ReceiveChanged(u)

\* What happens by itself, to the tabs and on the server.
SyncStep ==
  \/ \E u \in Users : QueueStep(u) \/ ControllerStep(u)
  \/ ServerStep /\ UNCHANGED tabVars

UserStep ==
  \E u \in Users :
    Open(u) \/ TabConnects(u) \/ \E o \in Ops : Type(u, o)

SyncFaults ==
  \/ TabsRestart
  \/ \E u \in Users : TabDisconnects(u) \/ AckTimeout(u) \/ JoinTimeout(u)
  \/ /\ \/ \E o \in Ops : Forget(o)
        \/ \E i \in DOMAIN line : OpCommitLost(i)
     /\ UNCHANGED tabVars

SyncNext == SyncStep \/ UserStep \/ SyncFaults \/ (Management /\ UNCHANGED tabVars)

SyncSpec == SyncInit /\ [][SyncNext]_syncVars

\* What moves a tab, and the server, on: nothing fails and nobody is put off.  A
\* queue that was cut off while draining is waited for until the timer runs out.
TabProgress(u) ==
  \/ ~tab[u].online /\ DrainTimeout(u)
  \/ QueueStep(u) \/ Attempt(u) \/ Drained(u)
  \/ FetchRow(u) \/ FetchCells(u) \/ Mount(u)
  \/ ReceiveJoined(u) \/ ReceiveOp(u) \/ ReceiveRevoked(u) \/ ReceiveChanged(u)

ServerProgress ==
  /\ \/ \E u \in Users : JoinArrives(u) \/ LeaveArrives(u) \/ OpArrives(u)
     \/ \E j \in joining : JoinStep(j)
     \/ \E i \in DOMAIN line :
          OpDuplicate(i) \/ OpAuthorize(i) \/ OpReadOnly(i) \/ OpNotFound(i)
            \/ OpCommit(i) \/ OpNotWritable(i) \/ OpAnnounce(i)
     \/ \E e \in evicting : Evict(e)
  /\ UNCHANGED tabVars

----------------------------------------------------------------------------
(* Properties.                                                             *)

\* Every tab keeps its shape.
SyncTypeOK ==
  /\ ServerTypeOK
  /\ tab \in [Users -> Tabs]
  /\ fate \in [Ops -> {"untyped", "pending", "confirmed", "rejected"}]
  /\ typed \in [Users -> Seq(Ops)]

Quiet ==
  /\ line = << >> /\ joining = {} /\ evicting = {}
  /\ \A u \in Users : inbox[u] = << >> /\ outbox[u] = << >> /\ tab[u].unsaved = << >>

InTouch(u) == u \in conn /\ tab[u].sync = "live" /\ ~tab[u].shut

\* The last-write-wins rule (SMART_SHEETS.md): once nothing is on its way, every
\* screen shows the value stored in the database.  A change reported as not saved
\* stays on its author's screen until the sheet is reloaded, and is excepted.
Converged ==
  Quiet => \A u \in Users : InTouch(u) => \A i \in Items :
    \/ tab[u].screen[i] = content[i]
    \/ \E o \in Ops : tab[u].screen[i] = o /\ AuthorOf[o] = u /\ fate[o] = "rejected"

\* smartSheetSession.js, 2: the workbook is never replaced under an unsaved edit.
MountDiscardsNothing ==
  \A u \in Users : tab[u].sync \in {"fetching", "reading", "mounting"} => tab[u].unsaved = << >>

\* smartSheetSession.js, 3 and 4: a tab that lets its user type and shows no
\* warning is in the room and its queue is sending, or is about to hear that the
\* access is gone.
LiveIsInStep ==
  \A u \in Users : InTouch(u) =>
    \/ tab[u].online /\ u \in room /\ u \in joined
    \/ \E k \in DOMAIN outbox[u] : outbox[u][k].type = "access-revoked"

\* Edits are saved in the order they were typed, across reconnects: one is saved
\* only if those typed before it are saved already or were reported as lost.
SavedInOrderTyped ==
  \A u \in Users : \A l \in DOMAIN typed[u] : \A k \in 1..(l - 1) :
    \A q \in DOMAIN log : log[q] = typed[u][l] =>
      \/ fate[typed[u][k]] = "rejected"
      \/ \E p \in 1..(q - 1) : log[p] = typed[u][k]

\* smartSheetSession.js, 4: a tab that is out of step keeps trying until it is in
\* step again or the access is gone.
KeepsTrying ==
  \A u \in Users : (tab[u].sync = "due") ~> (tab[u].sync \in {"live", "revoked"})

\* What is typed does not stay unsaved and unreported for ever.
TypedIsSettled ==
  \A o \in Ops : (fate[o] = "pending") ~> (fate[o] \in {"confirmed", "rejected"})

\* smartSheetSync.js, SAFE RETRIES: a repeat is never applied again, so it cannot
\* overwrite what somebody else has written in between.
SavedOnce == \A k, l \in DOMAIN log : log[k] = log[l] => k = l

\* What the whole promises its users is SharedSheet.
Shared == INSTANCE SharedSheet WITH saved <- log, value <- content
ImplementsSharedSheet == Shared!SharedSpec
=============================================================================
