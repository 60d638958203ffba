-------------------------- MODULE SmartSheetServer --------------------------
(***************************************************************************)
(* The server side of ONE live spreadsheet: the Socket.IO handlers join,   *)
(* leave and op (smartSheetRealtime.js), the service and store they call   *)
(* (smartSheetService.js, smartSheetStore.js), the REST calls that change   *)
(* who may see the sheet (smartSheetController.js), and the faults a Node   *)
(* process meets: a dropped socket, a restart, a failed save.               *)
(*                                                                         *)
(* A change ("op") is a model value.  It writes itself into one item of    *)
(* the workbook (a cell, a tab's name, a column's width), so the value of  *)
(* an item is the op that wrote it last, or Blank.  An op belongs to the   *)
(* user whose editor made its opId.  Every user has one socket.            *)
(***************************************************************************)
EXTENDS Naturals, Sequences, FiniteSets, SequencesExt

CONSTANTS
  Users,      \* people who may open the sheet, one browser tab each
  Admins,     \* the admin tier among them, at first
  Ops,        \* changes, identified by their opId
  Items,      \* cells, tab names, widths: what a change replaces as a whole
  Blank,      \* the value of an item nobody has written
  ItemOf,     \* the item a change replaces
  AuthorOf,   \* the user whose editor made the change
  Attempts,   \* numbers of the emits of one change
  Joins,      \* numbers of the joins one socket may have in progress
  MaxWire,    \* bound: unhandled messages per direction of a connection
  MaxRevision \* bound: changes saved or on their way to be saved

ASSUME AdminsAreUsers == Admins \subseteq Users
ASSUME BlankIsNoOp == Blank \notin Ops
ASSUME ItemOfType == ItemOf \in [Ops -> Items]
ASSUME AuthorOfType == AuthorOf \in [Ops -> Users]

VARIABLES
  log,         \* the committed changes; the revision of log[i] is i
  content,     \* what the database holds for each item
  status,      \* smart_sheets.status and deleted_at
  assignment,  \* smart_sheet_access: the permission of each user, or "none"
  account,     \* users.role, system_access and employment_status
  dedupe,      \* opIds the process remembers, with their revision (0: none)
  line,        \* the sheet's runExclusive queue, the running task at its head
  conn,        \* users whose socket is connected
  room,        \* users whose socket is in the sheet's Socket.IO room
  joined,      \* users whose socket handlers have the sheet in `joined`
  joining,     \* join handlers between two of their awaits
  inbox,       \* what a client has emitted and the server has not handled
  outbox,      \* what the server has emitted and the client has not received
  evicting,    \* evictions owed after a committed REST change
  forgotten    \* history: saved changes the process may no longer remember

dbVars == <<log, content, status, assignment, account>>
lineVars == <<dedupe, line, forgotten>>
socketVars == <<conn, room, joined, joining, inbox, outbox>>
serverVars == <<dbVars, lineVars, socketVars, evicting>>

Permissions == {"none", "view", "edit"}
Accounts == {"admin", "member", "inactive"}
Codes == {"OK", "NOT_JOINED", "RATE_LIMITED", "NOT_FOUND", "READ_ONLY",
          "SHEET_NOT_WRITABLE", "SERVER_ERROR", "REFUSED"}
JoinCodes == {"OK", "NOT_FOUND", "SERVER_ERROR"}

\* A save that does not go through: a query failed (or ran into another one), or
\* the change itself is invalid or would make the sheet too large.
FailureCodes == {"SERVER_ERROR", "REFUSED"}

ClientMessages ==
  [type : {"join"}, n : Joins] \cup [type : {"leave"}]
    \cup [type : {"op"}, op : Ops, att : Attempts]

ServerMessages ==
  [type : {"op"}, op : Ops, rev : Nat]
    \cup [type : {"ack"}, op : Ops, att : Attempts, code : Codes, rev : Nat]
    \cup [type : {"joined"}, n : Joins, code : JoinCodes]
    \cup [type : {"access-revoked"}]
    \cup [type : {"access-changed"}, permission : {"view", "edit"}]

\* `alive` is false once the socket the request came on has gone.
Tasks == [user : Users, op : Ops, att : Attempts, alive : BOOLEAN,
          stage : {"waiting", "authorized", "committed"}, rev : Nat]
JoinHandlers == [user : Users, n : Joins,
                 stage : {"checking", "entering", "rechecking", "answering"}]

----------------------------------------------------------------------------
(* Access: resolveAccess, always on fresh rows.                            *)

Access(u) ==
  CASE account[u] = "inactive" \/ status = "deleted" -> "none"
    [] account[u] = "admin" /\ status # "deleted" -> IF status = "active" THEN "edit" ELSE "view"
    [] account[u] = "member" /\ status # "deleted" ->
         IF status = "active" THEN assignment[u] ELSE "none"

(* Messages.                                                               *)

Emit(box, u, m) == [box EXCEPT ![u] = Append(@, m)]
Broadcast(box, receivers, m) ==
  [u \in Users |-> IF u \in receivers THEN Append(box[u], m) ELSE box[u]]

Ack(t, code, rev) ==
  [type |-> "ack", op |-> t.op, att |-> t.att, code |-> code, rev |-> rev]

\* A reply goes to the socket the request came on, and nowhere once it died.
Reply(box, t, m) == IF t.alive THEN Emit(box, t.user, m) ELSE box

----------------------------------------------------------------------------
ServerInit ==
  /\ log = << >>
  /\ content = [i \in Items |-> Blank]
  /\ status = "active"
  /\ assignment = [u \in Users |-> "none"]
  /\ account = [u \in Users |-> IF u \in Admins THEN "admin" ELSE "member"]
  /\ dedupe = [o \in Ops |-> 0]
  /\ line = << >>
  /\ conn = {} /\ room = {} /\ joined = {} /\ joining = {}
  /\ inbox = [u \in Users |-> << >>]
  /\ outbox = [u \in Users |-> << >>]
  /\ evicting = {}
  /\ forgotten = {}

----------------------------------------------------------------------------
(* Sockets.                                                                *)

\* The handshake lets no inactive account in (io.use).
Connect(u) ==
  /\ u \notin conn /\ account[u] # "inactive"
  /\ conn' = conn \cup {u}
  /\ UNCHANGED <<dbVars, lineVars, room, joined, joining, inbox, outbox,
                 evicting>>

\* The socket goes: what is on the wire is lost both ways, its handlers keep
\* running but reach nobody, and a later connection starts with a new socket.
Disconnect(u) ==
  /\ u \in conn
  /\ conn' = conn \ {u}
  /\ room' = room \ {u}
  /\ joined' = joined \ {u}
  /\ joining' = {j \in joining : j.user # u}
  /\ inbox' = [inbox EXCEPT ![u] = << >>]
  /\ outbox' = [outbox EXCEPT ![u] = << >>]
  /\ line' = [i \in DOMAIN line |->
                [line[i] EXCEPT !.alive = @ /\ line[i].user # u]]
  /\ UNCHANGED <<dbVars, dedupe, evicting, forgotten>>

\* A deploy or a crash: everything in the process's memory is gone.
Restart ==
  /\ dedupe' = [o \in Ops |-> 0]
  /\ line' = << >>
  /\ conn' = {} /\ room' = {} /\ joined' = {} /\ joining' = {}
  /\ inbox' = [u \in Users |-> << >>]
  /\ outbox' = [u \in Users |-> << >>]
  /\ evicting' = {}
  /\ forgotten' = ToSet(log)
  /\ UNCHANGED dbVars

\* An opId older than ten minutes, or pushed out by 20,000 newer ones.
Forget(o) ==
  /\ dedupe[o] # 0
  /\ dedupe' = [dedupe EXCEPT ![o] = 0]
  /\ forgotten' = forgotten \cup {o}
  /\ UNCHANGED <<dbVars, line, socketVars, evicting>>

----------------------------------------------------------------------------
(* smartsheet:join and smartsheet:leave.                                   *)

Arrives(u, kind) ==
  /\ u \in conn
  /\ inbox[u] # << >>
  /\ Head(inbox[u]).type = kind
  /\ inbox' = [inbox EXCEPT ![u] = Tail(@)]

Joined(j, code) == [type |-> "joined", n |-> j.n, code |-> code]

\* It forgets a sheet the socket was put out of before it counts the open ones.
JoinArrives(u) ==
  /\ Arrives(u, "join")
  /\ joining' = joining \cup
       {[user |-> u, n |-> Head(inbox[u]).n, stage |-> "checking"]}
  /\ joined' = IF u \in room THEN joined ELSE joined \ {u}
  /\ UNCHANGED <<dbVars, lineVars, conn, room, outbox, evicting>>

Proceeds(j, stage) == joining' = (joining \ {j}) \cup {[j EXCEPT !.stage = stage]}

Leaves(u) == room' = room \ {u} /\ joined' = joined \ {u}

AnswersJoin(j, code) ==
  joining' = joining \ {j} /\ outbox' = Emit(outbox, j.user, Joined(j, code))

\* The first authorizeJoin reads who may see the sheet ...
JoinCheck(j) ==
  /\ j.stage = "checking"
  /\ IF Access(j.user) # "none"
     THEN Proceeds(j, "entering") /\ UNCHANGED outbox
     ELSE AnswersJoin(j, "NOT_FOUND")
  /\ UNCHANGED <<dbVars, lineVars, conn, room, joined, inbox, evicting>>

\* ... and what it has read lets the socket in, whatever has happened since.
JoinEnters(j) ==
  /\ j.stage = "entering"
  /\ room' = room \cup {j.user}
  /\ joined' = joined \cup {j.user}
  /\ Proceeds(j, "rechecking")
  /\ UNCHANGED <<dbVars, lineVars, conn, inbox, outbox, evicting>>

JoinRecheckTrusts(j) ==
  /\ j.stage = "rechecking"
  /\ Proceeds(j, "answering")
  /\ UNCHANGED <<dbVars, lineVars, conn, room, joined, inbox, outbox, evicting>>

\* The second authorizeJoin: access lost in between puts the socket out again.
JoinRecheck(j) ==
  /\ j.stage = "rechecking"
  /\ IF Access(j.user) # "none"
     THEN Proceeds(j, "answering") /\ UNCHANGED <<room, joined, outbox>>
     ELSE AnswersJoin(j, "NOT_FOUND") /\ Leaves(j.user)
  /\ UNCHANGED <<dbVars, lineVars, conn, inbox, evicting>>

\* Everybody is told who is present, and the tab that it is in.
JoinAnswers(j) ==
  /\ j.stage = "answering"
  /\ AnswersJoin(j, "OK")
  /\ UNCHANGED <<dbVars, lineVars, conn, room, joined, inbox, evicting>>

\* Either query fails; after the second one the socket leaves the room again.
JoinFails(j) ==
  /\ AnswersJoin(j, "SERVER_ERROR")
  /\ \/ j.stage = "checking" /\ UNCHANGED <<room, joined>>
     \/ j.stage = "rechecking" /\ Leaves(j.user)
  /\ UNCHANGED <<dbVars, lineVars, conn, inbox, evicting>>

LeaveArrives(u) ==
  /\ Arrives(u, "leave")
  /\ joined' = joined \ {u}
  /\ room' = IF u \in joined THEN room \ {u} ELSE room
  /\ UNCHANGED <<dbVars, lineVars, conn, joining, outbox, evicting>>

----------------------------------------------------------------------------
(* smartsheet:op.                                                          *)

Request(u, m) == [user |-> u, op |-> m.op, att |-> m.att, alive |-> TRUE,
                  stage |-> "waiting", rev |-> 0]

OpArrives(u) ==
  /\ Arrives(u, "op")
  /\ LET t == Request(u, Head(inbox[u])) IN
       IF u \in joined /\ u \in room
       THEN line' = Append(line, t) /\ UNCHANGED outbox
       ELSE outbox' = Emit(outbox, u, Ack(t, "NOT_JOINED", 0)) /\ UNCHANGED line
  /\ UNCHANGED <<dbVars, dedupe, forgotten, conn, room, joined, joining, evicting>>

\* The socket's or the user's allowance is used up.
OpRateLimited(u) ==
  /\ Arrives(u, "op")
  /\ u \in joined /\ u \in room
  /\ outbox' = Emit(outbox, u, Ack(Request(u, Head(inbox[u])), "RATE_LIMITED", 0))
  /\ UNCHANGED <<dbVars, lineVars, conn, room, joined, joining, evicting>>

MayRunAlways(i) == TRUE

\* runExclusive: a task starts when the one before it has settled.
MayRun(i) == i = 1

\* A repeat of an opId that was saved: the original answer, nothing redone.
OpDuplicate(i) ==
  /\ MayRun(i)
  /\ line[i].stage = "waiting"
  /\ dedupe[line[i].op] # 0
  /\ line' = RemoveAt(line, i)
  /\ outbox' = Reply(outbox, line[i], Ack(line[i], "OK", dedupe[line[i].op]))
  /\ UNCHANGED <<dbVars, dedupe, forgotten, conn, room, joined, joining, inbox, evicting>>

OpAuthorizeNoDedupe(i) ==
  /\ MayRun(i)
  /\ line[i].stage = "waiting"
  /\ Access(line[i].user) = "edit"
  /\ line' = [line EXCEPT ![i].stage = "authorized"]
  /\ UNCHANGED <<dbVars, dedupe, forgotten, socketVars, evicting>>

OpAuthorizeRemembers(i) ==
  /\ MayRun(i)
  /\ line[i].stage = "waiting"
  /\ dedupe[line[i].op] = 0
  /\ Access(line[i].user) = "edit"
  /\ line' = [line EXCEPT ![i].stage = "authorized"]
  /\ dedupe' = [dedupe EXCEPT ![line[i].op] = Len(log) + 1]
  /\ UNCHANGED <<dbVars, forgotten, socketVars, evicting>>

OpAuthorize(i) ==
  /\ MayRun(i)
  /\ line[i].stage = "waiting"
  /\ dedupe[line[i].op] = 0
  /\ Access(line[i].user) = "edit"
  /\ line' = [line EXCEPT ![i].stage = "authorized"]
  /\ UNCHANGED <<dbVars, dedupe, forgotten, socketVars, evicting>>

OpReadOnly(i) ==
  /\ MayRun(i)
  /\ line[i].stage = "waiting"
  /\ dedupe[line[i].op] = 0
  /\ Access(line[i].user) = "view"
  /\ line' = RemoveAt(line, i)
  /\ outbox' = Reply(outbox, line[i], Ack(line[i], "READ_ONLY", 0))
  /\ UNCHANGED <<dbVars, dedupe, forgotten, conn, room, joined, joining, inbox, evicting>>

\* Access is gone: the socket leaves the room and the editor is told.
OpNotFound(i) ==
  /\ MayRun(i)
  /\ line[i].stage = "waiting"
  /\ dedupe[line[i].op] = 0
  /\ Access(line[i].user) = "none"
  /\ line' = RemoveAt(line, i)
  /\ LET t == line[i] IN
       /\ outbox' = Reply(Reply(outbox, t, [type |-> "access-revoked"]), t,
                          Ack(t, "NOT_FOUND", 0))
       /\ joined' = IF t.alive THEN joined \ {t.user} ELSE joined
       /\ room' = IF t.alive /\ t.user \in joined THEN room \ {t.user} ELSE room
  /\ UNCHANGED <<dbVars, dedupe, forgotten, conn, joining, inbox, evicting>>

Saved(o) ==
  /\ log' = Append(log, o)
  /\ content' = [content EXCEPT ![ItemOf[o]] = o]

OpCommitUnchecked(i) ==
  /\ MayRun(i)
  /\ line[i].stage = "authorized"
  /\ Saved(line[i].op)
  /\ line' = [line EXCEPT ![i].stage = "committed", ![i].rev = Len(log) + 1]
  /\ UNCHANGED <<status, assignment, account, dedupe, forgotten, socketVars, evicting>>

\* The transaction: it locks the sheet's row and takes the next revision.
OpCommit(i) ==
  /\ MayRun(i)
  /\ line[i].stage = "authorized"
  /\ status = "active"
  /\ Saved(line[i].op)
  /\ line' = [line EXCEPT ![i].stage = "committed", ![i].rev = Len(log) + 1]
  /\ UNCHANGED <<status, assignment, account, dedupe, forgotten, socketVars, evicting>>

OpNotWritable(i) ==
  /\ MayRun(i)
  /\ line[i].stage = "authorized"
  /\ status # "active"
  /\ line' = RemoveAt(line, i)
  /\ outbox' = Reply(outbox, line[i], Ack(line[i], "SHEET_NOT_WRITABLE", 0))
  /\ UNCHANGED <<dbVars, dedupe, forgotten, conn, room, joined, joining, inbox, evicting>>

\* The access query, the validation or the transaction fails: nothing is kept.
OpFails(i) ==
  /\ MayRun(i)
  /\ line[i].stage # "committed"
  /\ dedupe[line[i].op] = 0
  /\ line' = RemoveAt(line, i)
  /\ \E code \in FailureCodes :
       outbox' = Reply(outbox, line[i], Ack(line[i], code, 0))
  /\ UNCHANGED <<dbVars, dedupe, forgotten, conn, room, joined, joining, inbox, evicting>>

\* The COMMIT takes effect but its answer is lost on the way back: the caller
\* sees a failed save, so nothing is remembered and nothing is announced.
OpCommitLost(i) ==
  /\ MayRun(i)
  /\ line[i].stage = "authorized"
  /\ status = "active"
  /\ Saved(line[i].op)
  /\ line' = RemoveAt(line, i)
  /\ outbox' = Reply(outbox, line[i], Ack(line[i], "SERVER_ERROR", 0))
  /\ forgotten' = forgotten \cup {line[i].op}
  /\ UNCHANGED <<status, assignment, account, dedupe, conn, room, joined, joining, inbox,
                 evicting>>

\* After the commit: remember the opId, tell the others, answer the author.
OpAnnounce(i) ==
  /\ MayRun(i)
  /\ line[i].stage = "committed"
  /\ LET t == line[i]
         others == IF t.alive THEN room \ {t.user} ELSE room IN
       /\ dedupe' = [dedupe EXCEPT ![t.op] = t.rev]
       /\ outbox' = Reply(Broadcast(outbox, others,
                            [type |-> "op", op |-> t.op, rev |-> t.rev]),
                          t, Ack(t, "OK", t.rev))
       /\ line' = RemoveAt(line, i)
  /\ UNCHANGED <<dbVars, forgotten, conn, room, joined, joining, inbox,
                 evicting>>

----------------------------------------------------------------------------
(* REST: an admin assigns, unassigns, archives, reopens or deletes.  The   *)
(* database change commits first, the live room is updated after it.       *)

Assign(u, p) ==
  /\ status # "deleted"
  /\ assignment' = [assignment EXCEPT ![u] = p]
  /\ outbox' = IF u \in conn
               THEN Emit(outbox, u, [type |-> "access-changed", permission |-> p])
               ELSE outbox
  /\ UNCHANGED <<log, content, status, account, lineVars, conn, room, joined, joining,
                 inbox, evicting>>

Unassign(u) ==
  /\ status # "deleted"
  /\ assignment[u] # "none"
  /\ assignment' = [assignment EXCEPT ![u] = "none"]
  /\ evicting' = evicting \cup {{u}}
  /\ UNCHANGED <<log, content, status, account, lineVars, socketVars>>

SetStatus(s) ==
  /\ status # "deleted"
  /\ status' = s
  /\ evicting' = IF s = "active" THEN evicting ELSE evicting \cup {Users}
  /\ UNCHANGED <<log, content, assignment, account, lineVars, socketVars>>

\* An account is promoted, demoted, deactivated or reactivated, by pages that know nothing of
\* Smart Sheets: nobody is evicted (SMART_SHEETS.md, Operations notes).
SetAccount(u, a) ==
  /\ account' = [account EXCEPT ![u] = a]
  /\ UNCHANGED <<log, content, status, assignment, lineVars, socketVars, evicting>>

\* evictUser tells every tab of the user, evictAll everybody in the room.
Evict(e) ==
  /\ evicting' = evicting \ {e}
  /\ room' = room \ e
  /\ outbox' = Broadcast(outbox, IF e = Users THEN room ELSE e \cap conn,
                         [type |-> "access-revoked"])
  /\ UNCHANGED <<dbVars, lineVars, conn, joined, joining, inbox>>

----------------------------------------------------------------------------
OpStep(i) ==
  \/ OpDuplicate(i) \/ OpAuthorize(i) \/ OpReadOnly(i) \/ OpNotFound(i)
  \/ OpCommit(i) \/ OpNotWritable(i) \/ OpFails(i) \/ OpAnnounce(i)

JoinStep(j) == JoinCheck(j) \/ JoinEnters(j) \/ JoinRecheck(j) \/ JoinAnswers(j)

Arrival(u) ==
  JoinArrives(u) \/ LeaveArrives(u) \/ OpArrives(u) \/ OpRateLimited(u)

Management ==
  \/ \E u \in Users : Unassign(u) \/ \E p \in {"view", "edit"} : Assign(u, p)
  \/ \E s \in {"active", "archived", "deleted"} : SetStatus(s)
  \/ \E u \in Users, a \in Accounts : SetAccount(u, a)

\* Everything but the clients, the admins and the faults.
ServerStep ==
  \/ \E u \in Users : Arrival(u)
  \/ \E j \in joining : JoinStep(j) \/ JoinFails(j)
  \/ \E i \in DOMAIN line : OpStep(i)
  \/ \E e \in evicting : Evict(e)

ServerFaults ==
  \/ Restart
  \/ \E u \in Users : Disconnect(u)
  \/ \E o \in Ops : Forget(o)
  \/ \E i \in DOMAIN line : OpCommitLost(i)

----------------------------------------------------------------------------
(* The server on its own: clients that emit anything at any time.          *)

OpsOnTheWay ==
  Cardinality({p \in Users \X (1..MaxWire) :
                 p[2] \in DOMAIN inbox[p[1]] /\ inbox[p[1]][p[2]].type = "op"})
    + Len(line)

MayEmit(u, m) ==
  CASE m.type = "op" -> /\ AuthorOf[m.op] = u
                        /\ Len(log) + OpsOnTheWay < MaxRevision
    [] m.type = "join" -> /\ \A j \in joining : j.user # u \/ j.n # m.n
                          /\ \A k \in DOMAIN inbox[u] : inbox[u][k] # m
    [] OTHER -> TRUE

ClientEmits(u, m) ==
  /\ u \in conn
  /\ Len(inbox[u]) < MaxWire /\ Len(outbox[u]) < MaxWire
  /\ MayEmit(u, m)
  /\ inbox' = Emit(inbox, u, m)
  /\ UNCHANGED <<dbVars, lineVars, conn, room, joined, joining, outbox,
                 evicting>>

ClientReceives(u) ==
  /\ outbox[u] # << >>
  /\ outbox' = [outbox EXCEPT ![u] = Tail(@)]
  /\ UNCHANGED <<dbVars, lineVars, conn, room, joined, joining, inbox,
                 evicting>>

\* Bounded: an admin waits until the last change has reached everybody.
BoundedManagement ==
  /\ \A u \in Users : Len(outbox[u]) < MaxWire
  /\ Management

ServerNext ==
  \/ ServerStep
  \/ ServerFaults
  \/ BoundedManagement
  \/ \E u \in Users : Connect(u) \/ ClientReceives(u)
  \/ \E u \in Users : \E m \in ClientMessages : ClientEmits(u, m)

ServerSpec == ServerInit /\ [][ServerNext]_serverVars

----------------------------------------------------------------------------
(* Properties.                                                             *)

\* Every variable keeps its shape.
ServerTypeOK ==
  /\ log \in Seq(Ops)
  /\ content \in [Items -> Ops \cup {Blank}]
  /\ status \in {"active", "archived", "deleted"}
  /\ assignment \in [Users -> Permissions] /\ account \in [Users -> Accounts]
  /\ dedupe \in [Ops -> Nat]
  /\ line \in Seq(Tasks)
  /\ conn \subseteq Users /\ room \subseteq Users /\ joined \subseteq Users
  /\ joining \subseteq JoinHandlers
  /\ inbox \in [Users -> Seq(ClientMessages)]
  /\ outbox \in [Users -> Seq(ServerMessages)]
  /\ evicting \subseteq SUBSET Users
  /\ forgotten \subseteq Ops

\* Rule 5 of smartSheetRealtime.js: a change that is about to be announced is
\* the newest one in the database, so nobody has been told of a later one and
\* the announcements leave in commit order.
AnnouncedIsNewest ==
  \A i \in DOMAIN line : line[i].stage = "committed" =>
    /\ line[i].rev = Len(log)
    /\ line[i].rev \in DOMAIN log /\ log[line[i].rev] = line[i].op

\* "Saved" is never a lie: an OK answer on the wire, a first one or one given
\* from memory, names a revision at which the database saved that very change;
\* so does every announcement.
Truthful(m, saved) ==
  m.type = "op" \/ (m.type = "ack" /\ m.code = "OK") =>
    m.rev \in DOMAIN saved /\ saved[m.rev] = m.op

SavedMeansSaved ==
  /\ \A o \in Ops : dedupe[o] # 0 => dedupe[o] \in DOMAIN log /\ log[dedupe[o]] = o
  /\ \A u \in Users : \A k \in DOMAIN outbox[u] : Truthful(outbox[u][k], log)

\* Rule 4c: as long as the process remembers, a retried change is saved once,
\* however its repeats are queued, answered or cut off.
SavedOnceWhileRemembered ==
  \A k, l \in DOMAIN log : log[k] = log[l] /\ k # l => log[k] \in forgotten

\* In the room without access, and nobody is about to put u out: no eviction is due, and
\* no join has its second check to come.
Lingers(u) ==
  /\ u \in room /\ Access(u) = "none"
  /\ \A e \in evicting : u \notin e
  /\ \A j \in joining : j.user = u => j.stage # "rechecking"

\* Rules 2 and 6: nobody comes to linger in the room, however joins, leaves, assignments,
\* archivings, evictions and failures cross, except by the loss of an account, which
\* evicts nobody.
NobodyLingers ==
  [][\A u \in Users : Lingers(u)' => Lingers(u) \/ account'[u] # account[u]]_serverVars

\* Archived means read-only: a change authorized before the archiving is still
\* refused by the transaction.
ArchivedIsReadOnly ==
  [][log' # log => status = "active"]_serverVars
=============================================================================
