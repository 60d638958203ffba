----------------------- MODULE SmartSheetServerProofs -----------------------
(***************************************************************************)
(* Proofs about SmartSheetServer, for every set of users, changes and      *)
(* items and every bound, and about FeatureGate beside it, for any          *)
(* callers, Owners, cache lifetime and time of a query.                    *)
(***************************************************************************)
EXTENDS SmartSheetServer, FeatureGate, SequenceTheorems, TLAPS

(* Sequences. *)

\* Taking one element out of a sequence leaves the others, each from a place of
\* its own in the original.
LEMMA RemoveAtFacts ==
  ASSUME NEW S, NEW s \in Seq(S), NEW i \in DOMAIN s
  PROVE  /\ RemoveAt(s, i) \in Seq(S)
         /\ Len(RemoveAt(s, i)) = Len(s) - 1
         /\ \A k \in DOMAIN RemoveAt(s, i) :
              RemoveAt(s, i)[k] = s[IF k < i THEN k ELSE k + 1]
<1> DEFINE before == SubSeq(s, 1, i - 1)
           after == SubSeq(s, i + 1, Len(s))
<1>0. /\ Len(s) \in Nat /\ i \in 1..Len(s)
      /\ \A n \in 1..Len(s) : s[n] \in S
  BY LenProperties
<1>1. /\ before \in Seq(S) /\ Len(before) = i - 1
      /\ \A n \in 1..(i - 1) : before[n] = s[n]
  <2>1. \A n \in 1..(i - 1) : s[n] \in S
    BY <1>0
  <2>2. i - 1 \in Int /\ 1 \in Int
    BY <1>0
  <2>3. QED
    BY <1>0, <2>1, <2>2, SubSeqProperties
<1>2. /\ after \in Seq(S) /\ Len(after) = Len(s) - i
      /\ \A n \in 1..(Len(s) - i) : after[n] = s[n + i]
  <2>1. \A n \in (i + 1)..Len(s) : s[n] \in S
    BY <1>0
  <2>2. i + 1 \in Int /\ Len(s) \in Int
    BY <1>0
  <2>3. QED
    BY <1>0, <2>1, <2>2, SubSeqProperties
<1>3. RemoveAt(s, i) = before \o after
  BY DEF RemoveAt
<1> HIDE DEF before, after
<1>4. /\ RemoveAt(s, i) \in Seq(S)
      /\ Len(RemoveAt(s, i)) = Len(s) - 1
      /\ \A n \in 1..(Len(s) - 1) : RemoveAt(s, i)[n] =
           IF n <= i - 1 THEN before[n] ELSE after[n - (i - 1)]
  <2>1. /\ before \o after \in Seq(S)
        /\ Len(before \o after) = Len(before) + Len(after)
        /\ \A n \in 1..(Len(before) + Len(after)) : (before \o after)[n] =
             IF n <= Len(before) THEN before[n] ELSE after[n - Len(before)]
    <3>1. before \in Seq(S) /\ after \in Seq(S)
      BY <1>1, <1>2
    <3>2. QED
      BY <3>1, ConcatProperties
  <2>2. Len(before) + Len(after) = Len(s) - 1 /\ Len(before) = i - 1
    BY <1>0, <1>1, <1>2
  <2>3. QED
    BY <1>3, <2>1, <2>2
<1>5. DOMAIN RemoveAt(s, i) = 1..(Len(s) - 1)
  BY <1>4, LenProperties
<1>6. ASSUME NEW n \in 1..(Len(s) - 1)
      PROVE  RemoveAt(s, i)[n] = s[IF n < i THEN n ELSE n + 1]
  <2>1. CASE n < i
    BY <1>0, <1>1, <1>4, <2>1
  <2>2. CASE ~(n < i)
    <3>1. n - (i - 1) \in 1..(Len(s) - i)
      BY <1>0, <2>2
    <3>2. after[n - (i - 1)] = s[n - (i - 1) + i]
      BY <1>2, <3>1
    <3>3. QED
      BY <1>0, <1>4, <2>2, <3>2
  <2>3. QED
    BY <2>1, <2>2
<1>7. QED
  BY <1>4, <1>5, <1>6

----------------------------------------------------------------------------
(* What may happen to a server, whatever its clients are. *)

\* A client sends, receives, or answers what it receives in the same step.
ClientMoves(u) ==
  /\ inbox' = inbox \/ \E m \in ClientMessages : inbox' = Emit(inbox, u, m)
  /\ outbox' = outbox \/ (outbox[u] # << >> /\ outbox' = [outbox EXCEPT ![u] = Tail(@)])
  /\ UNCHANGED <<dbVars, lineVars, conn, room, joined, joining, evicting>>

ServerMoves ==
  \/ ServerStep \/ ServerFaults \/ Management
  \/ \E u \in Users : Connect(u) \/ ClientMoves(u)

LEMMA NextMoves == [ServerNext]_serverVars => [ServerMoves]_serverVars
<1>1. \A u \in Users, m \in ClientMessages : ClientEmits(u, m) => ClientMoves(u)
  BY DEF ClientEmits, ClientMoves
<1>2. \A u \in Users : ClientReceives(u) => ClientMoves(u)
  BY DEF ClientReceives, ClientMoves
<1> QED
  BY <1>1, <1>2 DEF ServerNext, ServerMoves, BoundedManagement

----------------------------------------------------------------------------
(* The wire to the clients. *)

\* What the invariant says of the messages on their way to the clients.
BoxOK(box, saved) ==
  /\ box \in [Users -> Seq(ServerMessages)]
  /\ \A u \in Users : \A k \in DOMAIN box[u] : Truthful(box[u][k], saved)

LEMMA EmitOK ==
  ASSUME NEW box, NEW saved, BoxOK(box, saved), NEW u \in Users,
         NEW m \in ServerMessages, Truthful(m, saved)
  PROVE  BoxOK(Emit(box, u, m), saved)
<1> DEFINE new == Emit(box, u, m)
<1>1. new \in [Users -> Seq(ServerMessages)]
  BY AppendProperties DEF Emit, BoxOK
<1>2. ASSUME NEW v \in Users, NEW k \in DOMAIN new[v]
      PROVE  Truthful(new[v][k], saved)
  <2>1. CASE v = u
    <3>1. new[v] = Append(box[u], m)
      BY <2>1 DEF Emit, BoxOK
    <3>2. CASE k = Len(box[u]) + 1
      BY <3>1, <3>2, AppendProperties DEF BoxOK
    <3>3. CASE k # Len(box[u]) + 1
      <4>1. k \in DOMAIN box[u] /\ new[v][k] = box[u][k]
        BY <3>1, <3>3, AppendProperties DEF BoxOK
      <4>2. QED
        BY <4>1 DEF BoxOK
    <3>4. QED
      BY <3>2, <3>3
  <2>2. CASE v # u
    BY <2>2 DEF Emit, BoxOK
  <2>3. QED
    BY <2>1, <2>2
<1>3. QED
  BY <1>1, <1>2 DEF BoxOK

LEMMA BroadcastOK ==
  ASSUME NEW box, NEW saved, BoxOK(box, saved), NEW receivers,
         NEW m \in ServerMessages, Truthful(m, saved)
  PROVE  BoxOK(Broadcast(box, receivers, m), saved)
<1> DEFINE new == Broadcast(box, receivers, m)
<1>1. new \in [Users -> Seq(ServerMessages)]
  BY AppendProperties DEF Broadcast, BoxOK
<1>2. ASSUME NEW v \in Users, NEW k \in DOMAIN new[v]
      PROVE  Truthful(new[v][k], saved)
  <2>1. CASE v \in receivers
    <3>1. new[v] = Append(box[v], m)
      BY <2>1 DEF Broadcast
    <3>2. CASE k = Len(box[v]) + 1
      BY <3>1, <3>2, AppendProperties DEF BoxOK
    <3>3. CASE k # Len(box[v]) + 1
      <4>1. k \in DOMAIN box[v] /\ new[v][k] = box[v][k]
        BY <3>1, <3>3, AppendProperties DEF BoxOK
      <4>2. QED
        BY <4>1 DEF BoxOK
    <3>4. QED
      BY <3>2, <3>3
  <2>2. CASE v \notin receivers
    BY <2>2 DEF Broadcast, BoxOK
  <2>3. QED
    BY <2>1, <2>2
<1>3. QED
  BY <1>1, <1>2 DEF BoxOK

LEMMA ReplyOK ==
  ASSUME NEW box, NEW saved, BoxOK(box, saved), NEW t \in Tasks,
         NEW m \in ServerMessages, Truthful(m, saved)
  PROVE  BoxOK(Reply(box, t, m), saved)
BY EmitOK DEF Reply, Tasks

\* A refusal is a message, and says nothing that could be untrue.
LEMMA RefusalOK ==
  ASSUME NEW t \in Tasks, NEW saved, NEW code \in Codes, code # "OK"
  PROVE  Ack(t, code, 0) \in ServerMessages /\ Truthful(Ack(t, code, 0), saved)
BY DEF Ack, ServerMessages, Truthful, Tasks

\* The same messages stay true when the database saves one more change.
LEMMA BoxGrows ==
  ASSUME NEW box, NEW saved \in Seq(Ops), BoxOK(box, saved), NEW o \in Ops
  PROVE  BoxOK(box, Append(saved, o))
<1>1. \A n \in DOMAIN saved :
        n \in DOMAIN Append(saved, o) /\ Append(saved, o)[n] = saved[n]
  BY AppendProperties
<1>2. QED
  BY <1>1 DEF BoxOK, Truthful

----------------------------------------------------------------------------
(* Type correctness. *)

LEMMA TasksLeave ==
  ASSUME line \in Seq(Tasks), NEW i \in DOMAIN line
  PROVE  RemoveAt(line, i) \in Seq(Tasks) /\ line[i] \in Tasks
BY RemoveAtFacts, LenProperties

LEMMA BoxTypes ==
  ASSUME NEW box \in [Users -> Seq(ServerMessages)], NEW m \in ServerMessages
  PROVE  /\ \A u \in Users : Emit(box, u, m) \in [Users -> Seq(ServerMessages)]
         /\ \A r : Broadcast(box, r, m) \in [Users -> Seq(ServerMessages)]
         /\ \A t \in Tasks : Reply(box, t, m) \in [Users -> Seq(ServerMessages)]
BY AppendProperties DEF Emit, Broadcast, Reply, Tasks

LEMMA MessageTypes ==
  /\ \A t \in Tasks, code \in Codes, rev \in Nat : Ack(t, code, rev) \in ServerMessages
  /\ \A j \in JoinHandlers, code \in JoinCodes : Joined(j, code) \in ServerMessages
  /\ [type |-> "access-revoked"] \in ServerMessages
  /\ \A p \in {"view", "edit"} : [type |-> "access-changed", permission |-> p] \in ServerMessages
  /\ \A o \in Ops, r \in Nat : [type |-> "op", op |-> o, rev |-> r] \in ServerMessages
BY DEF Ack, Joined, ServerMessages, Tasks, JoinHandlers

LEMMA ArrivalTypes ==
  ASSUME ServerTypeOK, NEW u \in Users, NEW kind, Arrives(u, kind)
  PROVE  /\ inbox' \in [Users -> Seq(ClientMessages)]
         /\ Head(inbox[u]) \in ClientMessages
         /\ kind = "join" => Head(inbox[u]).n \in Joins
         /\ kind = "op" => Request(u, Head(inbox[u])) \in Tasks
<1>1. /\ Head(inbox[u]) \in ClientMessages
      /\ Tail(inbox[u]) \in Seq(ClientMessages)
  BY HeadTailProperties DEF Arrives, ServerTypeOK
<1>2. inbox' \in [Users -> Seq(ClientMessages)]
  BY <1>1 DEF Arrives, ServerTypeOK
<1>3. /\ kind = "join" => Head(inbox[u]).n \in Joins
      /\ kind = "op" => /\ Head(inbox[u]).op \in Ops
                        /\ Head(inbox[u]).att \in Attempts
  BY <1>1 DEF Arrives, ClientMessages
<1>4. QED
  BY <1>1, <1>2, <1>3 DEF Request, Tasks

LEMMA TypeStep ==
  ASSUME ServerTypeOK, [ServerMoves]_serverVars
  PROVE  ServerTypeOK'
<1> USE DEF dbVars, lineVars, socketVars, serverVars
<1>1. CASE UNCHANGED serverVars
  BY <1>1 DEF ServerTypeOK
<1>2. ASSUME NEW u \in Users, Connect(u) PROVE ServerTypeOK'
  BY <1>2 DEF Connect, ServerTypeOK
<1>3. ASSUME NEW u \in Users, Disconnect(u) PROVE ServerTypeOK'
  <2>1. line' \in Seq(Tasks)
    <3>1. Len(line) \in Nat /\ DOMAIN line = 1..Len(line)
      BY LenProperties DEF ServerTypeOK
    <3>2. \A i \in 1..Len(line) :
            [line[i] EXCEPT !.alive = @ /\ line[i].user # u] \in Tasks
      <4>1. \A i \in 1..Len(line) : line[i] \in Tasks
        BY <3>1, LenProperties DEF ServerTypeOK
      <4>2. QED
        BY <4>1 DEF Tasks
    <3>3. line' \in [1..Len(line) -> Tasks]
      BY <1>3, <3>1, <3>2 DEF Disconnect
    <3>4. QED
      BY <3>1, <3>3, SeqDef
  <2>2. << >> \in Seq(ClientMessages) /\ << >> \in Seq(ServerMessages)
    BY EmptySeq
  <2>3. QED
    BY <1>3, <2>1, <2>2 DEF Disconnect, ServerTypeOK
<1>4. ASSUME Restart PROVE ServerTypeOK'
  <2>1. << >> \in Seq(ClientMessages) /\ << >> \in Seq(ServerMessages)
        /\ << >> \in Seq(Tasks)
    BY EmptySeq
  <2>2. ToSet(log) \subseteq Ops
    BY LenProperties DEF ToSet, ServerTypeOK
  <2>3. QED
    BY <1>4, <2>1, <2>2 DEF Restart, ServerTypeOK
<1>5. ASSUME NEW o \in Ops, Forget(o) PROVE ServerTypeOK'
  BY <1>5 DEF Forget, ServerTypeOK
<1>6. ASSUME NEW u \in Users, JoinArrives(u) PROVE ServerTypeOK'
  <2>1. joining' \subseteq JoinHandlers
    BY <1>6, ArrivalTypes DEF JoinArrives, JoinHandlers, ServerTypeOK
  <2>2. QED
    BY <1>6, <2>1, ArrivalTypes DEF JoinArrives, ServerTypeOK
<1>7. ASSUME NEW j \in joining
      PROVE  /\ j \in JoinHandlers /\ j.user \in Users
             /\ \A stage \in {"entering", "rechecking", "answering"} :
                  Proceeds(j, stage) => joining' \subseteq JoinHandlers
             /\ \A code \in JoinCodes : AnswersJoin(j, code) =>
                  /\ joining' \subseteq JoinHandlers
                  /\ outbox' \in [Users -> Seq(ServerMessages)]
  <2>1. j \in JoinHandlers /\ j.user \in Users /\ joining \subseteq JoinHandlers
    BY DEF ServerTypeOK, JoinHandlers
  <2>2. \A stage \in {"entering", "rechecking", "answering"} :
          [j EXCEPT !.stage = stage] \in JoinHandlers
    BY <2>1 DEF JoinHandlers
  <2>3. \A code \in JoinCodes : Joined(j, code) \in ServerMessages
    BY <2>1, MessageTypes
  <2>4. \A code \in JoinCodes :
          Emit(outbox, j.user, Joined(j, code)) \in [Users -> Seq(ServerMessages)]
    BY <2>1, <2>3, BoxTypes DEF ServerTypeOK
  <2>5. QED
    BY <2>1, <2>2, <2>4 DEF Proceeds, AnswersJoin
<1>8. ASSUME NEW j \in joining, JoinStep(j) \/ JoinFails(j) PROVE ServerTypeOK'
  <2>1. /\ j.user \in Users
        /\ "OK" \in JoinCodes /\ "NOT_FOUND" \in JoinCodes /\ "SERVER_ERROR" \in JoinCodes
    BY <1>7 DEF JoinCodes
  <2>2. CASE JoinCheck(j)
    BY <1>7, <2>1, <2>2 DEF JoinCheck, ServerTypeOK
  <2>3. CASE JoinEnters(j)
    BY <1>7, <2>1, <2>3 DEF JoinEnters, ServerTypeOK
  <2>4. CASE JoinRecheck(j)
    BY <1>7, <2>1, <2>4 DEF JoinRecheck, Leaves, ServerTypeOK
  <2>5. CASE JoinAnswers(j)
    BY <1>7, <2>1, <2>5 DEF JoinAnswers, ServerTypeOK
  <2>6. CASE JoinFails(j)
    BY <1>7, <2>1, <2>6 DEF JoinFails, Leaves, ServerTypeOK
  <2>7. QED
    BY <1>8, <2>2, <2>3, <2>4, <2>5, <2>6 DEF JoinStep
<1>9. ASSUME NEW u \in Users, LeaveArrives(u) PROVE ServerTypeOK'
  BY <1>9, ArrivalTypes DEF LeaveArrives, ServerTypeOK
<1>10. ASSUME NEW u \in Users, OpArrives(u) PROVE ServerTypeOK'
  <2> DEFINE t == Request(u, Head(inbox[u]))
  <2>1. t \in Tasks /\ inbox' \in [Users -> Seq(ClientMessages)]
    BY <1>10, ArrivalTypes DEF OpArrives
  <2>2. Ack(t, "NOT_JOINED", 0) \in ServerMessages
    BY <2>1, MessageTypes DEF Codes
  <2> HIDE DEF t
  <2>3. line' \in Seq(Tasks) /\ outbox' \in [Users -> Seq(ServerMessages)]
    <3>1. Append(line, t) \in Seq(Tasks)
      BY <2>1, AppendProperties DEF ServerTypeOK
    <3>2. Emit(outbox, u, Ack(t, "NOT_JOINED", 0)) \in [Users -> Seq(ServerMessages)]
      BY <2>2, BoxTypes DEF ServerTypeOK
    <3>3. QED
      BY <1>10, <3>1, <3>2 DEF OpArrives, ServerTypeOK, t
  <2>4. QED
    BY <1>10, <2>1, <2>3 DEF OpArrives, ServerTypeOK
<1>11. ASSUME NEW u \in Users, OpRateLimited(u) PROVE ServerTypeOK'
  <2> DEFINE t == Request(u, Head(inbox[u]))
  <2>1. t \in Tasks /\ inbox' \in [Users -> Seq(ClientMessages)]
    BY <1>11, ArrivalTypes DEF OpRateLimited
  <2>2. Ack(t, "RATE_LIMITED", 0) \in ServerMessages
    BY <2>1, MessageTypes DEF Codes
  <2>3. outbox' \in [Users -> Seq(ServerMessages)]
    BY <1>11, <2>2, BoxTypes DEF OpRateLimited, ServerTypeOK
  <2>4. QED
    BY <1>11, <2>1, <2>3 DEF OpRateLimited, ServerTypeOK
<1>12. ASSUME NEW i \in DOMAIN line, OpStep(i) \/ OpCommitLost(i)
       PROVE  ServerTypeOK'
  <2>1. line[i] \in Tasks /\ RemoveAt(line, i) \in Seq(Tasks)
    BY TasksLeave DEF ServerTypeOK
  <2>2. line[i].op \in Ops /\ line[i].user \in Users /\ line[i].rev \in Nat
    BY <2>1 DEF Tasks
  <2>3. \A code \in Codes, rev \in Nat :
          Reply(outbox, line[i], Ack(line[i], code, rev)) \in [Users -> Seq(ServerMessages)]
    BY <2>1, BoxTypes, MessageTypes DEF ServerTypeOK
  <2>4. 0 \in Nat /\ {"OK", "READ_ONLY", "SHEET_NOT_WRITABLE", "SERVER_ERROR",
                      "NOT_FOUND"} \subseteq Codes
    BY DEF Codes
  <2>5. CASE OpDuplicate(i)
    <3>1. dedupe[line[i].op] \in Nat
      BY <2>2 DEF ServerTypeOK
    <3>2. outbox' \in [Users -> Seq(ServerMessages)]
      BY <2>3, <2>4, <2>5, <3>1 DEF OpDuplicate
    <3>3. QED
      BY <2>1, <2>5, <3>2 DEF OpDuplicate, ServerTypeOK
  <2>6. CASE OpAuthorize(i)
    <3>1. [line EXCEPT ![i].stage = "authorized"] \in Seq(Tasks)
      <4>1. [line[i] EXCEPT !.stage = "authorized"] \in Tasks
        BY <2>1 DEF Tasks
      <4>2. QED
        BY <4>1, ExceptSeq, LenProperties DEF ServerTypeOK
    <3>2. QED
      BY <2>6, <3>1 DEF OpAuthorize, ServerTypeOK
  <2>7. CASE OpReadOnly(i)
    <3>1. outbox' \in [Users -> Seq(ServerMessages)]
      BY <2>3, <2>4, <2>7 DEF OpReadOnly
    <3>2. QED
      BY <2>1, <2>7, <3>1 DEF OpReadOnly, ServerTypeOK
  <2>8. CASE OpNotFound(i)
    <3>1. outbox' \in [Users -> Seq(ServerMessages)]
      <4>1. Reply(outbox, line[i], [type |-> "access-revoked"])
              \in [Users -> Seq(ServerMessages)]
        BY <2>1, BoxTypes, MessageTypes DEF ServerTypeOK
      <4>2. Ack(line[i], "NOT_FOUND", 0) \in ServerMessages
        BY <2>1, <2>4, MessageTypes
      <4>3. QED
        BY <2>1, <2>8, <4>1, <4>2, BoxTypes DEF OpNotFound
    <3>2. room' \subseteq Users /\ joined' \subseteq Users
      BY <2>8 DEF OpNotFound, ServerTypeOK
    <3>3. QED
      BY <2>1, <2>8, <3>1, <3>2 DEF OpNotFound, ServerTypeOK
  <2>9. CASE OpCommit(i)
    <3>1. line' \in Seq(Tasks)
      <4>1. Len(log) + 1 \in Nat
        BY LenProperties DEF ServerTypeOK
      <4>2. [line[i] EXCEPT !.stage = "committed", !.rev = Len(log) + 1] \in Tasks
        BY <2>1, <4>1 DEF Tasks
      <4>3. line' = [line EXCEPT ![i] =
                       [line[i] EXCEPT !.stage = "committed", !.rev = Len(log) + 1]]
        <5>1. \A n \in DOMAIN line : n = i \/ n # i
          OBVIOUS
        <5>2. QED
          BY <2>9, <2>1, LenProperties DEF OpCommit, ServerTypeOK, Tasks
      <4>4. QED
        BY <4>2, <4>3, ExceptSeq, LenProperties DEF ServerTypeOK
    <3>2. log' \in Seq(Ops) /\ content' \in [Items -> Ops \cup {Blank}]
      BY <2>2, <2>9, AppendProperties, ItemOfType DEF OpCommit, Saved, ServerTypeOK
    <3>3. QED
      BY <2>9, <3>1, <3>2 DEF OpCommit, ServerTypeOK
  <2>10. CASE OpNotWritable(i)
    <3>1. outbox' \in [Users -> Seq(ServerMessages)]
      BY <2>3, <2>4, <2>10 DEF OpNotWritable
    <3>2. QED
      BY <2>1, <2>10, <3>1 DEF OpNotWritable, ServerTypeOK
  <2>11. CASE OpFails(i)
    <3>1. outbox' \in [Users -> Seq(ServerMessages)]
      BY <2>3, <2>4, <2>11 DEF OpFails, FailureCodes, Codes
    <3>2. QED
      BY <2>1, <2>11, <3>1 DEF OpFails, ServerTypeOK
  <2>12. CASE OpAnnounce(i)
    <3>1. outbox' \in [Users -> Seq(ServerMessages)]
      <4>1. /\ [type |-> "op", op |-> line[i].op, rev |-> line[i].rev] \in ServerMessages
            /\ Ack(line[i], "OK", line[i].rev) \in ServerMessages
        BY <2>1, <2>2, <2>4, MessageTypes
      <4>2. QED
        BY <2>1, <2>12, <4>1, BoxTypes DEF OpAnnounce, ServerTypeOK
    <3>2. dedupe' \in [Ops -> Nat]
      BY <2>2, <2>12 DEF OpAnnounce, ServerTypeOK
    <3>3. QED
      BY <2>1, <2>12, <3>1, <3>2 DEF OpAnnounce, ServerTypeOK
  <2>13. CASE OpCommitLost(i)
    <3>1. outbox' \in [Users -> Seq(ServerMessages)]
      BY <2>3, <2>4, <2>13 DEF OpCommitLost
    <3>2. log' \in Seq(Ops) /\ content' \in [Items -> Ops \cup {Blank}]
      BY <2>2, <2>13, AppendProperties, ItemOfType DEF OpCommitLost, Saved, ServerTypeOK
    <3>3. QED
      BY <2>1, <2>2, <2>13, <3>1, <3>2 DEF OpCommitLost, ServerTypeOK
  <2>14. QED
    BY <1>12, <2>5, <2>6, <2>7, <2>8, <2>9, <2>10, <2>11, <2>12, <2>13 DEF OpStep
<1>13. ASSUME NEW u \in Users, NEW p \in {"view", "edit"}, Assign(u, p)
       PROVE  ServerTypeOK'
  <2>1. outbox' \in [Users -> Seq(ServerMessages)]
    BY <1>13, BoxTypes, MessageTypes DEF Assign, ServerTypeOK
  <2>2. QED
    BY <1>13, <2>1 DEF Assign, ServerTypeOK, Permissions
<1>14. ASSUME NEW u \in Users, Unassign(u) PROVE ServerTypeOK'
  BY <1>14 DEF Unassign, ServerTypeOK, Permissions
<1>15. ASSUME NEW s \in {"active", "archived", "deleted"}, SetStatus(s)
       PROVE  ServerTypeOK'
  BY <1>15 DEF SetStatus, ServerTypeOK
<1>16. ASSUME NEW e \in evicting, Evict(e) PROVE ServerTypeOK'
  <2>1. outbox' \in [Users -> Seq(ServerMessages)]
    BY <1>16, BoxTypes, MessageTypes DEF Evict, ServerTypeOK
  <2>2. QED
    BY <1>16, <2>1 DEF Evict, ServerTypeOK
<1>17. ASSUME NEW u \in Users, ClientMoves(u) PROVE ServerTypeOK'
  <2>1. inbox' \in [Users -> Seq(ClientMessages)]
    <3>1. ASSUME NEW m \in ClientMessages
          PROVE  Emit(inbox, u, m) \in [Users -> Seq(ClientMessages)]
      BY <3>1, AppendProperties DEF Emit, ServerTypeOK
    <3>2. QED
      BY <1>17, <3>1 DEF ClientMoves, ServerTypeOK
  <2>2. outbox' \in [Users -> Seq(ServerMessages)]
    <3>1. outbox[u] # << >> => Tail(outbox[u]) \in Seq(ServerMessages)
      BY HeadTailProperties DEF ServerTypeOK
    <3>2. QED
      BY <1>17, <3>1 DEF ClientMoves, ServerTypeOK
  <2>3. QED
    BY <1>17, <2>1, <2>2 DEF ClientMoves, ServerTypeOK
<1>18. ASSUME NEW u \in Users, NEW a \in Accounts, SetAccount(u, a) PROVE ServerTypeOK'
  BY <1>18 DEF SetAccount, ServerTypeOK
<1>19. QED
  BY <1>1, <1>2, <1>3, <1>4, <1>5, <1>6, <1>7, <1>8, <1>9, <1>10, <1>11,
     <1>12, <1>13, <1>14, <1>15, <1>16, <1>17, <1>18
     DEF ServerMoves, ServerStep, ServerFaults, Management, Arrival,
         JoinStep

\* Every variable keeps its shape, whatever the clients, the admins and the
\* faults do.
THEOREM TypeCorrect == ServerSpec => []ServerTypeOK
<1>1. ServerInit => ServerTypeOK
  <2>1. << >> \in Seq(ClientMessages) /\ << >> \in Seq(ServerMessages)
        /\ << >> \in Seq(Tasks) /\ << >> \in Seq(Ops)
    BY EmptySeq
  <2>2. QED
    BY <2>1 DEF ServerInit, ServerTypeOK, Permissions, Accounts
<1>2. ServerTypeOK /\ [ServerNext]_serverVars => ServerTypeOK'
  BY TypeStep, NextMoves
<1>3. QED
  BY <1>1, <1>2, PTL DEF ServerSpec

----------------------------------------------------------------------------
(* The inductive invariant. *)

\* Only the head of the queue has started, and what it is saving is not yet
\* remembered: it would have been answered from memory.
HeadOnly ==
  \A i \in DOMAIN line : line[i].stage # "waiting" =>
    i = 1 /\ dedupe[line[i].op] = 0

\* A saved change that was never forgotten is remembered, or is the one the
\* head of the queue is about to announce.
Remembered ==
  \A k \in DOMAIN log : log[k] \notin forgotten =>
    \/ dedupe[log[k]] = k
    \/ /\ 1 \in DOMAIN line
       /\ line[1].stage = "committed" /\ line[1].op = log[k] /\ line[1].rev = k

ServerInv ==
  /\ ServerTypeOK
  /\ AnnouncedIsNewest
  /\ SavedMeansSaved
  /\ HeadOnly
  /\ Remembered

\* SavedMeansSaved in the two parts a step can disturb.
LEMMA SavedParts ==
  ServerTypeOK =>
    (SavedMeansSaved <=>
       /\ \A o \in Ops : dedupe[o] # 0 => dedupe[o] \in DOMAIN log /\ log[dedupe[o]] = o
       /\ BoxOK(outbox, log))
BY DEF SavedMeansSaved, BoxOK, ServerTypeOK

\* A step that touches neither the database nor the queue.
LEMMA QueueUntouched ==
  ASSUME ServerInv, ServerTypeOK', UNCHANGED <<log, dedupe, line, forgotten>>,
         BoxOK(outbox', log)
  PROVE  ServerInv'
<1>1. SavedMeansSaved'
  BY DEF ServerInv, SavedMeansSaved, BoxOK
<1>2. AnnouncedIsNewest' /\ HeadOnly' /\ Remembered'
  BY DEF ServerInv, AnnouncedIsNewest, HeadOnly, Remembered
<1>3. QED
  BY <1>1, <1>2 DEF ServerInv

\* Once the head has gone, nobody in the queue has started.
LEMMA RestWaits ==
  ASSUME ServerTypeOK, HeadOnly, NEW i \in DOMAIN line, i = 1
  PROVE  \A k \in DOMAIN RemoveAt(line, i) : RemoveAt(line, i)[k].stage = "waiting"
<1>1. /\ Len(line) \in Nat /\ DOMAIN line = 1..Len(line)
      /\ \A k \in DOMAIN line : line[k] \in Tasks
  BY LenProperties DEF ServerTypeOK
<1>2. /\ RemoveAt(line, i) \in Seq(Tasks) /\ Len(RemoveAt(line, i)) = Len(line) - 1
      /\ \A k \in DOMAIN RemoveAt(line, i) :
           RemoveAt(line, i)[k] = line[IF k < i THEN k ELSE k + 1]
  BY RemoveAtFacts DEF ServerTypeOK
<1>3. DOMAIN RemoveAt(line, i) = 1..(Len(line) - 1)
  BY <1>2, LenProperties
<1>4. ASSUME NEW k \in 1..(Len(line) - 1)
      PROVE  RemoveAt(line, i)[k].stage = "waiting"
  <2>1. k + 1 \in DOMAIN line /\ k + 1 # 1 /\ RemoveAt(line, i)[k] = line[k + 1]
    BY <1>1, <1>2, <1>3
  <2>2. line[k + 1].stage = "waiting"
    BY <2>1 DEF HeadOnly
  <2>3. QED
    BY <2>1, <2>2
<1>5. QED
  BY <1>3, <1>4

\* The head is answered without anything having been saved.
LEMMA HeadAnswered ==
  ASSUME ServerInv, ServerTypeOK', UNCHANGED <<log, dedupe, forgotten>>,
         NEW i \in DOMAIN line, i = 1, line[i].stage # "committed",
         line' = RemoveAt(line, i), BoxOK(outbox', log)
  PROVE  ServerInv'
<1>1. \A k \in DOMAIN line' : line'[k].stage = "waiting"
  BY RestWaits DEF ServerInv
<1>2. AnnouncedIsNewest' /\ HeadOnly'
  BY <1>1 DEF AnnouncedIsNewest, HeadOnly
<1>3. SavedMeansSaved'
  BY DEF ServerInv, SavedMeansSaved, BoxOK
<1>4. \A k \in DOMAIN log : log[k] \notin forgotten => dedupe[log[k]] = k
  BY DEF ServerInv, Remembered
<1>5. Remembered'
  BY <1>4 DEF Remembered
<1>6. QED
  BY <1>2, <1>3, <1>5 DEF ServerInv

----------------------------------------------------------------------------
(* One lemma per kind of step. *)

LEMMA SocketStep ==
  ASSUME ServerInv, ServerTypeOK',
         \/ \E u \in Users : \/ Connect(u) \/ Arrival(u) \/ Unassign(u)
                             \/ ClientMoves(u)
                             \/ \E p \in {"view", "edit"} : Assign(u, p)
                             \/ \E a \in Accounts : SetAccount(u, a)
         \/ \E j \in joining : JoinStep(j) \/ JoinFails(j)
         \/ \E s \in {"active", "archived", "deleted"} : SetStatus(s)
         \/ \E e \in evicting : Evict(e),
         UNCHANGED line
  PROVE  ServerInv'
<1> USE DEF dbVars, lineVars, socketVars, serverVars
<1>0. BoxOK(outbox, log)
  BY SavedParts DEF ServerInv
<1>1. UNCHANGED <<log, dedupe, forgotten>>
  BY DEF Connect, Arrival, JoinArrives, LeaveArrives, OpArrives, OpRateLimited,
         Unassign, ClientMoves, Assign, JoinStep, JoinCheck, JoinEnters,
         JoinRecheck, JoinAnswers, JoinFails, SetStatus, SetAccount, Evict
<1>2. BoxOK(outbox', log)
  <2>1. ASSUME NEW u \in Users, OpArrives(u) \/ OpRateLimited(u)
        PROVE  BoxOK(outbox', log)
    <3> DEFINE t == Request(u, Head(inbox[u]))
    <3>1. t \in Tasks
      BY <2>1, ArrivalTypes DEF OpArrives, OpRateLimited, ServerInv
    <3>2. \A code \in {"NOT_JOINED", "RATE_LIMITED"} :
            BoxOK(Emit(outbox, u, Ack(t, code, 0)), log)
      <4>1. \A code \in {"NOT_JOINED", "RATE_LIMITED"} :
              Ack(t, code, 0) \in ServerMessages /\ Truthful(Ack(t, code, 0), log)
        BY <3>1, RefusalOK DEF Codes
      <4>2. QED
        BY <1>0, <4>1, EmitOK
    <3>3. QED
      BY <1>0, <2>1, <3>2 DEF OpArrives, OpRateLimited
  <2>2. ASSUME NEW j \in joining, JoinStep(j) \/ JoinFails(j)
        PROVE  BoxOK(outbox', log)
    <3>1. j \in JoinHandlers /\ j.user \in Users
      BY DEF ServerInv, ServerTypeOK, JoinHandlers
    <3>2. ASSUME NEW code \in JoinCodes
          PROVE  BoxOK(Emit(outbox, j.user, Joined(j, code)), log)
      <4>1. Joined(j, code) \in ServerMessages
        BY <3>1, MessageTypes
      <4>2. Truthful(Joined(j, code), log)
        BY DEF Truthful, Joined
      <4>3. QED
        BY <1>0, <3>1, <4>1, <4>2, EmitOK
    <3>3. QED
      BY <1>0, <2>2, <3>2
         DEF JoinStep, JoinCheck, JoinEnters, JoinRecheck, JoinAnswers, JoinFails,
             AnswersJoin, JoinCodes
  <2>3. ASSUME NEW u \in Users, NEW p \in {"view", "edit"}, Assign(u, p)
        PROVE  BoxOK(outbox', log)
    <3> DEFINE m == [type |-> "access-changed", permission |-> p]
    <3>1. m \in ServerMessages
      BY MessageTypes
    <3>2. Truthful(m, log)
      BY DEF Truthful
    <3>3. BoxOK(Emit(outbox, u, m), log)
      BY <1>0, <3>1, <3>2, EmitOK
    <3>4. QED
      BY <1>0, <2>3, <3>3 DEF Assign
  <2>4. ASSUME NEW e \in evicting, Evict(e) PROVE BoxOK(outbox', log)
    <3>1. [type |-> "access-revoked"] \in ServerMessages
      BY MessageTypes
    <3>2. Truthful([type |-> "access-revoked"], log)
      BY DEF Truthful
    <3>3. QED
      BY <1>0, <2>4, <3>1, <3>2, BroadcastOK DEF Evict
  <2>5. ASSUME NEW u \in Users, ClientMoves(u), outbox' # outbox PROVE BoxOK(outbox', log)
    <3>1. outbox[u] \in Seq(ServerMessages) /\ outbox[u] # << >>
      BY <2>5 DEF ClientMoves, ServerInv, ServerTypeOK
    <3>2. /\ Tail(outbox[u]) \in Seq(ServerMessages)
          /\ Len(Tail(outbox[u])) = Len(outbox[u]) - 1
          /\ \A k \in 1..Len(Tail(outbox[u])) : Tail(outbox[u])[k] = outbox[u][k + 1]
      BY <3>1, HeadTailProperties
    <3>3. Len(outbox[u]) \in Nat /\ DOMAIN outbox[u] = 1..Len(outbox[u])
          /\ DOMAIN Tail(outbox[u]) = 1..Len(Tail(outbox[u]))
      BY <3>1, <3>2, LenProperties
    <3>4. \A k \in DOMAIN Tail(outbox[u]) :
            k + 1 \in DOMAIN outbox[u] /\ Tail(outbox[u])[k] = outbox[u][k + 1]
      BY <3>2, <3>3
    <3>5. \A k \in DOMAIN Tail(outbox[u]) : Truthful(Tail(outbox[u])[k], log)
      BY <1>0, <3>4 DEF BoxOK
    <3>6. QED
      BY <1>0, <2>5, <3>2, <3>5 DEF ClientMoves, BoxOK
  <2>6. QED
    BY <1>0, <2>1, <2>2, <2>3, <2>4, <2>5
       DEF Connect, Arrival, JoinArrives, LeaveArrives, Unassign, SetStatus, SetAccount
<1>3. QED
  BY <1>1, <1>2, QueueUntouched

LEMMA OpQueuesUp ==
  ASSUME ServerInv, ServerTypeOK', NEW t \in Tasks, t.stage = "waiting",
         line' = Append(line, t), UNCHANGED <<log, dedupe, forgotten, outbox>>
  PROVE  ServerInv'
<1>1. /\ Len(line) \in Nat /\ DOMAIN line = 1..Len(line)
      /\ DOMAIN line' = 1..(Len(line) + 1)
      /\ line'[Len(line) + 1] = t
      /\ \A k \in DOMAIN line : line'[k] = line[k]
  BY AppendProperties, LenProperties DEF ServerInv, ServerTypeOK
<1>2. \A k \in DOMAIN line' : k \in DOMAIN line \/ line'[k].stage = "waiting"
  BY <1>1
<1>3. AnnouncedIsNewest'
  BY <1>1, <1>2 DEF ServerInv, AnnouncedIsNewest
<1>4. HeadOnly'
  BY <1>1, <1>2 DEF ServerInv, HeadOnly
<1>5. Remembered'
  BY <1>1 DEF ServerInv, Remembered
<1>6. SavedMeansSaved'
  BY DEF ServerInv, SavedMeansSaved
<1>7. QED
  BY <1>3, <1>4, <1>5, <1>6 DEF ServerInv

LEMMA DisconnectStep ==
  ASSUME ServerInv, ServerTypeOK', NEW u \in Users, Disconnect(u)
  PROVE  ServerInv'
<1> USE DEF dbVars
<1>1. /\ DOMAIN line' = DOMAIN line
      /\ \A k \in DOMAIN line :
           /\ line'[k].stage = line[k].stage
           /\ line'[k].op = line[k].op /\ line'[k].rev = line[k].rev
  <2>1. \A k \in DOMAIN line : line[k] \in Tasks
    BY LenProperties DEF ServerInv, ServerTypeOK
  <2>2. QED
    BY <2>1 DEF Disconnect, Tasks
<1>2. AnnouncedIsNewest' /\ HeadOnly' /\ Remembered'
  BY <1>1 DEF Disconnect, ServerInv, AnnouncedIsNewest, HeadOnly, Remembered
<1>3. \A v \in Users : \A k \in DOMAIN outbox'[v] :
        k \in DOMAIN outbox[v] /\ outbox'[v][k] = outbox[v][k]
  BY DEF Disconnect, ServerInv, ServerTypeOK
<1>4. SavedMeansSaved'
  BY <1>3 DEF Disconnect, ServerInv, SavedMeansSaved
<1>5. QED
  BY <1>2, <1>4 DEF ServerInv

LEMMA RestartStep ==
  ASSUME ServerInv, ServerTypeOK', Restart
  PROVE  ServerInv'
<1> USE DEF dbVars
<1>1. DOMAIN line' = {} /\ \A u \in Users : DOMAIN outbox'[u] = {}
  BY DEF Restart
<1>2. \A o \in Ops : dedupe'[o] = 0
  BY DEF Restart
<1>3. \A k \in DOMAIN log : log[k] \in forgotten'
  BY DEF Restart, ToSet
<1>4. AnnouncedIsNewest' /\ HeadOnly' /\ SavedMeansSaved'
  BY <1>1, <1>2 DEF AnnouncedIsNewest, HeadOnly, SavedMeansSaved
<1>5. Remembered'
  BY <1>3 DEF Restart, Remembered
<1>6. QED
  BY <1>4, <1>5 DEF ServerInv

LEMMA ForgetStep ==
  ASSUME ServerInv, ServerTypeOK', NEW o \in Ops, Forget(o)
  PROVE  ServerInv'
<1> USE DEF dbVars, socketVars
<1>1. /\ \A q \in Ops : dedupe'[q] = IF q = o THEN 0 ELSE dedupe[q]
      /\ forgotten' = forgotten \cup {o}
      /\ UNCHANGED <<log, line, outbox>>
  BY DEF Forget, ServerInv, ServerTypeOK
<1>2. /\ \A k \in DOMAIN log : log[k] \in Ops
      /\ \A k \in DOMAIN line : line[k].op \in Ops
  <2>1. \A k \in DOMAIN log : log[k] \in Ops
    BY LenProperties DEF ServerInv, ServerTypeOK
  <2>2. \A k \in DOMAIN line : line[k] \in Tasks
    BY TasksLeave DEF ServerInv, ServerTypeOK
  <2>3. QED
    BY <2>1, <2>2 DEF Tasks
<1>3. AnnouncedIsNewest' /\ HeadOnly' /\ SavedMeansSaved' /\ Remembered'
  BY <1>1, <1>2
     DEF ServerInv, AnnouncedIsNewest, HeadOnly, SavedMeansSaved, Remembered
<1>4. QED
  BY <1>3 DEF ServerInv

LEMMA AuthorizeStep ==
  ASSUME ServerInv, ServerTypeOK', NEW i \in DOMAIN line, OpAuthorize(i)
  PROVE  ServerInv'
<1> USE DEF dbVars, socketVars
<1>1. /\ i = 1 /\ dedupe[line[i].op] = 0 /\ line[i].stage = "waiting"
      /\ line' = [line EXCEPT ![i].stage = "authorized"]
      /\ UNCHANGED <<log, dedupe, forgotten, outbox>>
  BY DEF OpAuthorize, MayRun
<1>2. \A k \in DOMAIN line : line[k] \in Tasks
  BY LenProperties DEF ServerInv, ServerTypeOK
<1>3. /\ DOMAIN line' = DOMAIN line
      /\ line'[i].stage = "authorized" /\ line'[i].op = line[i].op
      /\ \A k \in DOMAIN line : k # i => line'[k] = line[k]
  BY <1>1, <1>2 DEF Tasks
<1>4. AnnouncedIsNewest'
  BY <1>1, <1>3 DEF ServerInv, AnnouncedIsNewest
<1>5. HeadOnly'
  BY <1>1, <1>3 DEF ServerInv, HeadOnly
<1>6. Remembered'
  BY <1>1 DEF ServerInv, Remembered
<1>7. SavedMeansSaved'
  BY <1>1 DEF ServerInv, SavedMeansSaved
<1>8. QED
  BY <1>4, <1>5, <1>6, <1>7 DEF ServerInv

\* What a commit does to the part of the invariant that speaks of the log.
LEMMA LogGrows ==
  ASSUME ServerInv, NEW o \in Ops, log' = Append(log, o)
  PROVE  /\ DOMAIN log' = DOMAIN log \cup {Len(log) + 1}
         /\ Len(log') = Len(log) + 1 /\ log'[Len(log) + 1] = o
         /\ \A k \in DOMAIN log : log'[k] = log[k]
         /\ Len(log) + 1 \notin DOMAIN log
BY AppendProperties, LenProperties DEF ServerInv, ServerTypeOK

LEMMA CommitStep ==
  ASSUME ServerInv, ServerTypeOK', NEW i \in DOMAIN line, OpCommit(i)
  PROVE  ServerInv'
<1> USE DEF socketVars
<1> DEFINE o == line[i].op
<1>1. /\ i = 1 /\ line[i].stage = "authorized" /\ log' = Append(log, o)
      /\ line' = [line EXCEPT ![i].stage = "committed", ![i].rev = Len(log) + 1]
      /\ UNCHANGED <<dedupe, forgotten, outbox>>
  BY DEF OpCommit, MayRun, Saved
<1>2. \A k \in DOMAIN line : line[k] \in Tasks
  BY LenProperties DEF ServerInv, ServerTypeOK
<1>3. /\ DOMAIN line' = DOMAIN line
      /\ line'[i].stage = "committed" /\ line'[i].op = o
      /\ line'[i].rev = Len(log) + 1
      /\ \A k \in DOMAIN line : k # i => line'[k] = line[k]
  BY ZenonT(40), <1>1, <1>2 DEF Tasks
<1>4. /\ o \in Ops /\ dedupe[o] = 0
      /\ \A k \in DOMAIN line : k # i => line[k].stage = "waiting"
  BY <1>1, <1>2 DEF ServerInv, HeadOnly, Tasks
<1>5. /\ DOMAIN log' = DOMAIN log \cup {Len(log) + 1}
      /\ Len(log') = Len(log) + 1 /\ log'[Len(log) + 1] = o
      /\ \A k \in DOMAIN log : log'[k] = log[k]
  BY <1>1, <1>4, LogGrows
<1> HIDE DEF o
<1>6. AnnouncedIsNewest'
  BY <1>3, <1>4, <1>5 DEF AnnouncedIsNewest
<1>7. HeadOnly'
  BY <1>1, <1>3, <1>4 DEF HeadOnly
<1>8. Remembered'
  <2>1. ASSUME NEW k \in DOMAIN log, log[k] \notin forgotten
        PROVE  dedupe[log[k]] = k
    BY <1>1, <2>1 DEF ServerInv, Remembered
  <2>2. QED
    BY <1>1, <1>3, <1>5, <2>1 DEF Remembered
<1>9. SavedMeansSaved'
  <2>1. BoxOK(outbox, log')
    <3>1. BoxOK(outbox, log) /\ log \in Seq(Ops)
      BY SavedParts DEF ServerInv, ServerTypeOK
    <3>2. QED
      BY <1>1, <1>4, <3>1, BoxGrows
  <2>2. \A q \in Ops : dedupe[q] # 0 => dedupe[q] \in DOMAIN log' /\ log'[dedupe[q]] = q
    BY <1>5 DEF ServerInv, SavedMeansSaved
  <2>3. QED
    BY <1>1, <2>1, <2>2 DEF SavedMeansSaved, BoxOK
<1>10. QED
  BY <1>6, <1>7, <1>8, <1>9 DEF ServerInv

LEMMA CommitLostStep ==
  ASSUME ServerInv, ServerTypeOK', NEW i \in DOMAIN line, OpCommitLost(i)
  PROVE  ServerInv'
<1> DEFINE t == line[i]
<1>1. /\ i = 1 /\ t.stage = "authorized" /\ log' = Append(log, t.op)
      /\ line' = RemoveAt(line, i)
      /\ outbox' = Reply(outbox, t, Ack(t, "SERVER_ERROR", 0))
      /\ forgotten' = forgotten \cup {t.op} /\ UNCHANGED dedupe
  BY DEF OpCommitLost, MayRun, Saved
<1>2. t \in Tasks /\ t.op \in Ops
  <2>1. t \in Tasks
    BY TasksLeave DEF ServerInv, ServerTypeOK
  <2>2. QED
    BY <2>1 DEF Tasks
<1> HIDE DEF t
<1>3. /\ DOMAIN log' = DOMAIN log \cup {Len(log) + 1}
      /\ log'[Len(log) + 1] = t.op
      /\ \A k \in DOMAIN log : log'[k] = log[k]
  BY <1>1, <1>2, LogGrows
<1>4. \A k \in DOMAIN line' : line'[k].stage = "waiting"
  BY <1>1, RestWaits DEF ServerInv
<1>5. AnnouncedIsNewest' /\ HeadOnly'
  BY <1>4 DEF AnnouncedIsNewest, HeadOnly
<1>6. Remembered'
  <2>1. ASSUME NEW k \in DOMAIN log, log[k] \notin forgotten
        PROVE  dedupe[log[k]] = k
    BY <1>1, <2>1 DEF ServerInv, Remembered, t
  <2>2. QED
    BY <1>1, <1>3, <2>1 DEF Remembered
<1>7. SavedMeansSaved'
  <2>1. BoxOK(outbox', log')
    <3>1. BoxOK(outbox, log) /\ log \in Seq(Ops)
      BY SavedParts DEF ServerInv, ServerTypeOK
    <3>2. BoxOK(outbox, log')
      BY <1>1, <1>2, <3>1, BoxGrows
    <3>3. Ack(t, "SERVER_ERROR", 0) \in ServerMessages
          /\ Truthful(Ack(t, "SERVER_ERROR", 0), log')
      BY <1>2, RefusalOK DEF Codes
    <3>4. QED
      BY <1>1, <1>2, <3>2, <3>3, ReplyOK
  <2>2. \A q \in Ops : dedupe[q] # 0 => dedupe[q] \in DOMAIN log' /\ log'[dedupe[q]] = q
    BY <1>3 DEF ServerInv, SavedMeansSaved
  <2>3. QED
    BY <1>1, <2>1, <2>2 DEF SavedMeansSaved, BoxOK
<1>8. QED
  BY <1>5, <1>6, <1>7 DEF ServerInv

LEMMA AnnounceStep ==
  ASSUME ServerInv, ServerTypeOK', NEW i \in DOMAIN line, OpAnnounce(i)
  PROVE  ServerInv'
<1> USE DEF dbVars
<1> DEFINE t == line[i]
           m == [type |-> "op", op |-> t.op, rev |-> t.rev]
<1>1. /\ i = 1 /\ t.stage = "committed" /\ line' = RemoveAt(line, i)
      /\ dedupe' = [dedupe EXCEPT ![t.op] = t.rev] /\ UNCHANGED <<log, forgotten>>
      /\ \E others : outbox' = Reply(Broadcast(outbox, others, m), t, Ack(t, "OK", t.rev))
  BY DEF OpAnnounce, MayRun
<1>2. t \in Tasks /\ t.op \in Ops /\ t.rev \in Nat
  <2>1. t \in Tasks
    BY TasksLeave DEF ServerInv, ServerTypeOK
  <2>2. QED
    BY <2>1 DEF Tasks
<1>3. t.rev \in DOMAIN log /\ log[t.rev] = t.op
  BY <1>1 DEF ServerInv, AnnouncedIsNewest
<1>4. \A k \in DOMAIN line' : line'[k].stage = "waiting"
  BY <1>1, RestWaits DEF ServerInv
<1>5. AnnouncedIsNewest' /\ HeadOnly'
  BY <1>4 DEF AnnouncedIsNewest, HeadOnly
<1>6. \A q \in Ops : dedupe'[q] = IF q = t.op THEN t.rev ELSE dedupe[q]
  BY <1>1, <1>2 DEF ServerInv, ServerTypeOK
<1>7. Remembered'
  <2>1. \A k \in DOMAIN log : log[k] \in Ops
    BY LenProperties DEF ServerInv, ServerTypeOK
  <2>2. dedupe[t.op] = 0 /\ \A k \in DOMAIN log : k # 0
    BY <1>1, LenProperties DEF ServerInv, HeadOnly, ServerTypeOK
  <2>3. QED
    BY <1>1, <1>6, <2>1, <2>2 DEF ServerInv, Remembered
<1>8. SavedMeansSaved'
  <2>1. BoxOK(outbox', log)
    <3>1. m \in ServerMessages /\ Ack(t, "OK", t.rev) \in ServerMessages
      BY <1>2, MessageTypes DEF Codes
    <3>2. Truthful(m, log) /\ Truthful(Ack(t, "OK", t.rev), log)
      BY <1>3 DEF Truthful, Ack
    <3>3. BoxOK(outbox, log)
      BY SavedParts DEF ServerInv
    <3>4. QED
      BY <1>1, <1>2, <3>1, <3>2, <3>3, BroadcastOK, ReplyOK
  <2>2. \A q \in Ops : dedupe'[q] # 0 => dedupe'[q] \in DOMAIN log /\ log[dedupe'[q]] = q
    BY <1>3, <1>6 DEF ServerInv, SavedMeansSaved
  <2>3. QED
    BY <1>1, <2>1, <2>2 DEF SavedMeansSaved, BoxOK
<1>9. QED
  BY <1>5, <1>7, <1>8 DEF ServerInv

LEMMA OpStepOK ==
  ASSUME ServerInv, ServerTypeOK', NEW i \in DOMAIN line,
         OpStep(i) \/ OpCommitLost(i)
  PROVE  ServerInv'
<1> USE DEF dbVars, socketVars
<1>1. line[i] \in Tasks /\ line[i].op \in Ops /\ BoxOK(outbox, log)
  <2>1. line[i] \in Tasks
    BY TasksLeave DEF ServerInv, ServerTypeOK
  <2>2. QED
    BY <2>1, SavedParts DEF ServerInv, Tasks
<1>2. ASSUME NEW code \in Codes, code # "OK"
      PROVE  BoxOK(Reply(outbox, line[i], Ack(line[i], code, 0)), log)
  BY <1>1, <1>2, RefusalOK, ReplyOK
<1>3. CASE OpDuplicate(i)
  <2>1. /\ dedupe[line[i].op] \in Nat /\ dedupe[line[i].op] \in DOMAIN log
        /\ log[dedupe[line[i].op]] = line[i].op
    BY <1>1, <1>3 DEF OpDuplicate, ServerInv, ServerTypeOK, SavedMeansSaved
  <2>2. /\ Ack(line[i], "OK", dedupe[line[i].op]) \in ServerMessages
        /\ Truthful(Ack(line[i], "OK", dedupe[line[i].op]), log)
    BY <1>1, <2>1, MessageTypes DEF Codes, Truthful, Ack
  <2>3. BoxOK(outbox', log)
    BY <1>1, <1>3, <2>2, ReplyOK DEF OpDuplicate
  <2>4. QED
    BY <1>3, <2>3, HeadAnswered DEF OpDuplicate, MayRun
<1>4. CASE OpReadOnly(i)
  <2>1. BoxOK(outbox', log)
    BY <1>2, <1>4 DEF OpReadOnly, Codes
  <2>2. QED
    BY <1>4, <2>1, HeadAnswered DEF OpReadOnly, MayRun
<1>5. CASE OpNotFound(i)
  <2>1. BoxOK(Reply(outbox, line[i], [type |-> "access-revoked"]), log)
    <3>1. Truthful([type |-> "access-revoked"], log)
      BY DEF Truthful
    <3>2. QED
      BY <1>1, <3>1, MessageTypes, ReplyOK
  <2>2. BoxOK(outbox', log)
    <3>1. /\ Ack(line[i], "NOT_FOUND", 0) \in ServerMessages
          /\ Truthful(Ack(line[i], "NOT_FOUND", 0), log)
      BY <1>1, RefusalOK DEF Codes
    <3>2. QED
      BY <1>1, <1>5, <2>1, <3>1, ReplyOK DEF OpNotFound
  <2>3. QED
    BY <1>5, <2>2, HeadAnswered DEF OpNotFound, MayRun
<1>6. CASE OpNotWritable(i)
  <2>1. BoxOK(outbox', log)
    BY <1>2, <1>6 DEF OpNotWritable, Codes
  <2>2. QED
    BY <1>6, <2>1, HeadAnswered DEF OpNotWritable, MayRun
<1>7. CASE OpFails(i)
  <2>1. BoxOK(outbox', log)
    BY <1>2, <1>7 DEF OpFails, FailureCodes, Codes
  <2>2. QED
    BY <1>7, <2>1, HeadAnswered DEF OpFails, MayRun
<1>8. QED
  BY <1>3, <1>4, <1>5, <1>6, <1>7, AuthorizeStep, CommitStep, CommitLostStep,
     AnnounceStep DEF OpStep

LEMMA ServerInvInit == ServerInit => ServerInv
<1> SUFFICES ASSUME ServerInit PROVE ServerInv
  OBVIOUS
<1>1. ServerTypeOK
  <2>1. << >> \in Seq(ClientMessages) /\ << >> \in Seq(ServerMessages)
        /\ << >> \in Seq(Tasks) /\ << >> \in Seq(Ops)
    BY EmptySeq
  <2>2. QED
    BY <2>1 DEF ServerInit, ServerTypeOK, Permissions, Accounts
<1>2. DOMAIN line = {} /\ DOMAIN log = {} /\ \A u \in Users : DOMAIN outbox[u] = {}
  BY DEF ServerInit
<1>3. QED
  BY <1>1, <1>2 DEF ServerInit, ServerInv, AnnouncedIsNewest, SavedMeansSaved,
                    HeadOnly, Remembered

LEMMA ServerInvStep ==
  ASSUME ServerInv, [ServerMoves]_serverVars
  PROVE  ServerInv'
<1> USE DEF dbVars, lineVars, socketVars, serverVars
<1>1. ServerTypeOK'
  BY TypeStep DEF ServerInv
<1>2. CASE UNCHANGED serverVars
  BY <1>1, <1>2, SavedParts, QueueUntouched DEF ServerInv
<1>3. ASSUME NEW u \in Users, OpArrives(u), line' # line
      PROVE  ServerInv'
  <2>1. Request(u, Head(inbox[u])) \in Tasks
    BY <1>3, ArrivalTypes DEF OpArrives, ServerInv
  <2>2. Request(u, Head(inbox[u])).stage = "waiting"
    BY DEF Request
  <2>3. QED
    BY <1>1, <1>3, <2>1, <2>2, OpQueuesUp DEF OpArrives
<1>4. ASSUME NEW u \in Users,
             \/ Connect(u) \/ JoinArrives(u) \/ LeaveArrives(u) \/ OpRateLimited(u)
             \/ Unassign(u) \/ ClientMoves(u)
             \/ \E p \in {"view", "edit"} : Assign(u, p)
             \/ \E a \in Accounts : SetAccount(u, a)
             \/ OpArrives(u) /\ line' = line
      PROVE  ServerInv'
  <2>1. UNCHANGED line
    BY <1>4 DEF Connect, JoinArrives, LeaveArrives, OpRateLimited, Unassign,
                ClientMoves, Assign, SetAccount
  <2>2. QED
    BY <1>1, <1>4, <2>1, SocketStep DEF Arrival
<1>5. ASSUME \/ \E j \in joining : JoinStep(j) \/ JoinFails(j)
             \/ \E s \in {"active", "archived", "deleted"} : SetStatus(s)
             \/ \E e \in evicting : Evict(e)
      PROVE  ServerInv'
  <2>1. UNCHANGED line
    BY <1>5 DEF JoinStep, JoinCheck, JoinEnters, JoinRecheck, JoinAnswers, JoinFails,
                SetStatus, Evict
  <2>2. QED
    BY <1>1, <1>5, <2>1, SocketStep
<1>6. ASSUME Restart \/ (\E u \in Users : Disconnect(u)) \/ (\E o \in Ops : Forget(o))
      PROVE  ServerInv'
  BY <1>1, <1>6, RestartStep, DisconnectStep, ForgetStep
<1>7. ASSUME NEW i \in DOMAIN line, OpStep(i) \/ OpCommitLost(i)
      PROVE  ServerInv'
  BY <1>1, <1>7, OpStepOK
<1>8. QED
  BY <1>2, <1>3, <1>4, <1>5, <1>6, <1>7
     DEF ServerMoves, ServerStep, ServerFaults, Management, Arrival,
         JoinStep

----------------------------------------------------------------------------
(* The theorems. *)

LEMMA Invariance == ServerSpec => []ServerInv
<1>1. ServerInv /\ [ServerNext]_serverVars => ServerInv'
  BY ServerInvStep, NextMoves
<1>2. QED
  BY <1>1, ServerInvInit, PTL DEF ServerSpec

\* Announcements leave in commit order (rule 5 of smartSheetRealtime.js).
THEOREM AnnouncementsInOrder == ServerSpec => []AnnouncedIsNewest
<1>1. ServerInv => AnnouncedIsNewest
  BY DEF ServerInv
<1>2. QED
  BY <1>1, Invariance, PTL

\* No editor is told "saved" of a change the database does not hold, whatever
\* restarts, disconnections and lost answers come in between.
THEOREM AnswersAreTrue == ServerSpec => []SavedMeansSaved
<1>1. ServerInv => SavedMeansSaved
  BY DEF ServerInv
<1>2. QED
  BY <1>1, Invariance, PTL

\* Two revisions of one change would both have to be the one that is remembered.
LEMMA RememberedOnce ==
  ASSUME ServerInv
  PROVE  SavedOnceWhileRemembered
<1> SUFFICES ASSUME NEW k \in DOMAIN log, NEW l \in DOMAIN log,
                    log[k] = log[l], k # l, log[k] \notin forgotten
             PROVE  FALSE
  BY DEF SavedOnceWhileRemembered
<1>1. k # 0 /\ l # 0
  BY LenProperties DEF ServerInv, ServerTypeOK
<1>2. dedupe[log[k]] = k \/ dedupe[log[l]] = l
  BY DEF ServerInv, Remembered
<1>3. /\ 1 \in DOMAIN line /\ line[1].stage = "committed"
      /\ line[1].op = log[k]
  BY DEF ServerInv, Remembered
<1>4. dedupe[log[k]] = 0
  BY <1>3 DEF ServerInv, HeadOnly
<1>5. QED
  BY <1>1, <1>2, <1>4

\* A change whose opId is remembered is saved at most once (rule 4c), however
\* many times it is sent.
THEOREM SavedOnlyOnce == ServerSpec => []SavedOnceWhileRemembered
BY RememberedOnce, Invariance, PTL

----------------------------------------------------------------------------
(* Who may sit in the room.                                                *)

LEMMA LingersStep ==
  ASSUME ServerTypeOK, [ServerMoves]_serverVars,
         NEW u \in Users, ~Lingers(u), account'[u] = account[u]
  PROVE  ~Lingers(u)'
<1> USE DEF dbVars, lineVars, socketVars, serverVars
<1> SUFFICES ASSUME u \in room'
             PROVE  \/ Access(u)' # "none"
                    \/ \E e \in evicting' : u \in e
                    \/ \E j \in joining' : j.user = u /\ j.stage = "rechecking"
  BY DEF Lingers
<1> DEFINE Excused(x) == \/ Access(x) # "none"
                         \/ \E e \in evicting : x \in e
                         \/ \E j \in joining : j.user = x /\ j.stage = "rechecking"
<1>1. u \in room => Excused(u)
  BY DEF Lingers
<1>2. ASSUME UNCHANGED <<status, assignment, evicting, joining>>, room' \subseteq room
      PROVE  Excused(u)'
  BY <1>1, <1>2 DEF Access
<1>3. CASE UNCHANGED serverVars
  BY <1>2, <1>3
<1>4. ASSUME NEW v \in Users, \/ Connect(v) \/ LeaveArrives(v) \/ OpArrives(v)
                              \/ OpRateLimited(v) \/ ClientMoves(v)
      PROVE  Excused(u)'
  BY <1>2, <1>4 DEF Connect, LeaveArrives, OpArrives, OpRateLimited, ClientMoves
<1>5. ASSUME NEW i \in DOMAIN line, OpStep(i) \/ OpCommitLost(i)
      PROVE  Excused(u)'
  <2>1. CASE OpDuplicate(i) \/ OpReadOnly(i) \/ OpNotFound(i) \/ OpNotWritable(i)
    BY <1>2, <2>1 DEF OpDuplicate, OpReadOnly, OpNotFound, OpNotWritable
  <2>2. CASE OpAuthorize(i) \/ OpFails(i) \/ OpAnnounce(i)
    BY <1>2, <2>2 DEF OpAuthorize, OpFails, OpAnnounce
  <2>3. CASE OpCommit(i) \/ OpCommitLost(i)
    BY <1>2, <2>3 DEF OpCommit, OpCommitLost
  <2>4. QED
    BY <1>5, <2>1, <2>2, <2>3 DEF OpStep
<1>6. ASSUME NEW v \in Users, Disconnect(v) PROVE Excused(u)'
  <2>1. u \in room /\ u # v
    BY <1>6 DEF Disconnect
  <2>2. QED
    BY <1>1, <1>6, <2>1 DEF Disconnect, Access
<1>7. CASE Restart
  BY <1>7 DEF Restart
<1>8. ASSUME NEW o \in Ops, Forget(o) PROVE Excused(u)'
  BY <1>2, <1>8 DEF Forget
<1>9. ASSUME NEW v \in Users, JoinArrives(v) PROVE Excused(u)'
  BY <1>1, <1>9 DEF JoinArrives, Access
<1>10. ASSUME NEW j \in joining,
              JoinCheck(j) \/ JoinEnters(j) \/ JoinAnswers(j)
       PROVE  Excused(u)'
  <2>1. Access(u)' = Access(u) /\ evicting' = evicting
    BY <1>10 DEF JoinCheck, JoinEnters, JoinAnswers, Access
  <2>2. \A k \in joining : k.stage = "rechecking" => k \in joining'
    BY <1>10 DEF JoinCheck, JoinEnters, JoinAnswers, Proceeds, AnswersJoin
  <2>3. CASE u \in room
    BY <1>1, <2>1, <2>2, <2>3
  <2>4. CASE u \notin room
    <3>1. j.user = u /\ [j EXCEPT !.stage = "rechecking"] \in joining'
      BY <1>10, <2>4 DEF JoinCheck, JoinEnters, JoinAnswers, Proceeds
    <3>2. /\ [j EXCEPT !.stage = "rechecking"].user = u
          /\ [j EXCEPT !.stage = "rechecking"].stage = "rechecking"
      BY <3>1 DEF ServerTypeOK, JoinHandlers
    <3>3. QED
      BY <3>1, <3>2
  <2>5. QED
    BY <2>3, <2>4
<1>11. ASSUME NEW j \in joining, JoinRecheck(j) PROVE Excused(u)'
  <2>1. Access(u)' = Access(u) /\ evicting' = evicting
    BY <1>11 DEF JoinRecheck, Access
  <2>2. u \in room /\ (u = j.user => Access(u) # "none")
    BY <1>11 DEF JoinRecheck, Leaves
  <2>3. \A k \in joining : k # j => k \in joining'
    BY <1>11 DEF JoinRecheck, Proceeds, AnswersJoin
  <2>4. QED
    BY <1>1, <2>1, <2>2, <2>3
<1>12. ASSUME NEW j \in joining, JoinFails(j) PROVE Excused(u)'
  <2>1. Access(u)' = Access(u) /\ evicting' = evicting
    BY <1>12 DEF JoinFails, Access
  <2>2. u \in room /\ (u = j.user => j.stage # "rechecking")
    BY <1>12 DEF JoinFails, Leaves
  <2>3. \A k \in joining : k # j => k \in joining'
    BY <1>12 DEF JoinFails, AnswersJoin
  <2>4. QED
    BY <1>1, <2>1, <2>2, <2>3
<1>13. ASSUME NEW v \in Users, NEW p \in {"view", "edit"}, Assign(v, p)
       PROVE  Excused(u)'
  <2>1. Access(u) # "none" => Access(u)' # "none"
    BY <1>13 DEF Assign, Access, ServerTypeOK, Accounts
  <2>2. u \in room /\ UNCHANGED <<evicting, joining>>
    BY <1>13 DEF Assign
  <2>3. QED
    BY <1>1, <2>1, <2>2
<1>14. ASSUME NEW v \in Users, Unassign(v) PROVE Excused(u)'
  <2>1. CASE u = v
    BY <1>14, <2>1 DEF Unassign
  <2>2. CASE u # v
    <3>1. Access(u)' = Access(u)
      BY <1>14, <2>2 DEF Unassign, Access, ServerTypeOK
    <3>2. u \in room /\ evicting \subseteq evicting' /\ UNCHANGED joining
      BY <1>14 DEF Unassign
    <3>3. QED
      BY <1>1, <3>1, <3>2
  <2>3. QED
    BY <2>1, <2>2
<1>15. ASSUME NEW s \in {"active", "archived", "deleted"}, SetStatus(s)
       PROVE  Excused(u)'
  <2>1. CASE s = "active"
    <3>1. Access(u) # "none" => Access(u)' # "none"
      BY <1>15, <2>1 DEF SetStatus, Access, ServerTypeOK, Accounts
    <3>2. u \in room /\ UNCHANGED <<evicting, joining>>
      BY <1>15, <2>1 DEF SetStatus
    <3>3. QED
      BY <1>1, <3>1, <3>2
  <2>2. CASE s # "active"
    BY <1>15, <2>2 DEF SetStatus
  <2>3. QED
    BY <2>1, <2>2
<1>16. ASSUME NEW e \in evicting, Evict(e) PROVE Excused(u)'
  <2>1. u \in room /\ u \notin e /\ UNCHANGED <<status, assignment, joining>>
    BY <1>16 DEF Evict
  <2>2. \A f \in evicting : f # e => f \in evicting'
    BY <1>16 DEF Evict
  <2>3. QED
    BY <1>1, <2>1, <2>2 DEF Access
<1>17. ASSUME NEW v \in Users, NEW a \in Accounts, SetAccount(v, a) PROVE Excused(u)'
  <2>1. Access(u)' = Access(u) /\ UNCHANGED <<room, evicting, joining>>
    BY <1>17 DEF SetAccount, Access
  <2>2. QED
    BY <1>1, <2>1
<1>18. QED
  BY <1>3, <1>4, <1>5, <1>6, <1>7, <1>8, <1>9, <1>10, <1>11, <1>12, <1>13, <1>14,
     <1>15, <1>16, <1>17
     DEF ServerMoves, ServerStep, ServerFaults, Management, Arrival,
         JoinStep

\* Nobody comes to linger in the live room without access: whoever is there is about to
\* be put out (rules 2 and 6), however joins, leaves, evictions and failures mix, or has
\* just lost the account, which puts nobody out.
THEOREM NobodyStays == ServerSpec => NobodyLingers
<1> DEFINE Step == \A u \in Users : Lingers(u)' => Lingers(u) \/ account'[u] # account[u]
<1>1. ServerTypeOK /\ [ServerNext]_serverVars => [Step]_serverVars
  BY LingersStep, NextMoves
<1>2. NobodyLingers <=> [][Step]_serverVars
  BY DEF NobodyLingers
<1>3. QED
  BY <1>1, <1>2, TypeCorrect, PTL DEF ServerSpec

\* Log and content are written by nothing but a transaction of the head of the queue.
LEMMA LogMoves ==
  ASSUME [ServerMoves]_serverVars, log' # log \/ content' # content
  PROVE  \E i \in DOMAIN line : OpCommit(i) \/ OpCommitLost(i)
<1> USE DEF dbVars, lineVars, socketVars, serverVars
<1>1. \E i \in DOMAIN line : OpStep(i) \/ OpCommitLost(i)
  BY DEF ServerMoves, ServerStep, ServerFaults, Management, Arrival, Connect, Disconnect,
         Restart, Forget, JoinArrives, JoinStep, JoinCheck, JoinEnters, JoinRecheck,
         JoinAnswers, JoinFails, LeaveArrives, OpArrives, OpRateLimited, Assign, Unassign,
         SetStatus, SetAccount, Evict, ClientMoves
<1>2. QED
  BY <1>1 DEF OpStep, OpDuplicate, OpAuthorize, OpReadOnly, OpNotFound, OpNotWritable,
              OpFails, OpAnnounce

\* Nothing is written to a sheet that is archived or deleted, not even a change
\* that was authorized before it was.
THEOREM ArchivedStays == ServerSpec => ArchivedIsReadOnly
<1>1. [ServerNext]_serverVars => [log' # log => status = "active"]_serverVars
  BY NextMoves, LogMoves DEF OpCommit, OpCommitLost
<1>2. QED
  BY <1>1, PTL DEF ServerSpec, ArchivedIsReadOnly

----------------------------------------------------------------------------
(* FeatureGate: its inductive invariant.                                   *)

\* An answer "on" that was true is old by no more than the time that has passed
\* since the snapshot it came from.
AnswersAge ==
  ~enabled =>
    /\ \A s \in Callers : call[s].at = "loading" /\ call[s].on => offFor <= call[s].age
    /\ Fresh /\ cache.on => offFor <= MaxQuery + cache.age

\* Before the rooms of a module that is off are emptied, a change that will
\* empty them is under way.
SomebodyWillEmpty ==
  ~enabled /\ ~unemptied =>
    \/ liveRoom \subseteq late
    \/ \E o \in Owners : change[o].at = "committed" /\ change[o].before /\ ~change[o].want

GateInv == GateTypeOK /\ AnswersAge /\ SomebodyWillEmpty

CallRecords ==
  {AtRest} \cup [at : {"loading"}, on : BOOLEAN, age : 0..MaxQuery]
    \cup [at : {"answered"}, on : BOOLEAN]
ChangeRecords ==
  {AtRest} \cup [at : {"read", "committed"}, before : BOOLEAN, want : BOOLEAN]

----------------------------------------------------------------------------
LEMMA BoundsAreNumbers == Ttl \in Nat /\ MaxQuery \in Nat /\ Staleness \in Nat /\ Staleness = MaxQuery + Ttl
BY TtlType, MaxQueryType DEF Staleness

\* The shapes a call and a change can have.
LEMMA CallShapes ==
  ASSUME NEW c \in CallRecords
  PROVE  /\ c.at \in {"idle", "loading", "answered"}
         /\ c.at = "loading" => c.on \in BOOLEAN /\ c.age \in 0..MaxQuery
         /\ c.at = "answered" => c.on \in BOOLEAN
         /\ c.at = "loading" => c = [at |-> "loading", on |-> c.on, age |-> c.age]
BY DEF CallRecords, AtRest

LEMMA ChangeShapes ==
  ASSUME NEW c \in ChangeRecords
  PROVE  /\ c.at \in {"idle", "read", "committed"}
         /\ c.at # "idle" => /\ c.before \in BOOLEAN /\ c.want \in BOOLEAN
                             /\ c = [at |-> c.at, before |-> c.before, want |-> c.want]
BY DEF ChangeRecords, AtRest

LEMMA CacheShape ==
  ASSUME GateTypeOK, cache # Nothing
  PROVE  cache.age \in 0..Ttl /\ cache.on \in BOOLEAN /\ cache = [age |-> cache.age, on |-> cache.on]
BY DEF GateTypeOK

LEMMA GateInvInit == GateInit => GateInv
<1> SUFFICES ASSUME GateInit PROVE GateInv  OBVIOUS
<1> USE DEF GateInit
<1>1. GateTypeOK
  <2>1. 0 \in 0..Staleness + 1  BY BoundsAreNumbers
  <2> QED  BY <2>1 DEF GateTypeOK
<1>2. AnswersAge  BY DEF AnswersAge, Fresh, AtRest
<1>3. SomebodyWillEmpty  BY DEF SomebodyWillEmpty
<1> QED  BY <1>1, <1>2, <1>3 DEF GateInv

----------------------------------------------------------------------------
(* The type invariant. *)
LEMMA GateTypeStep == GateTypeOK /\ [GateNext]_gateVars => GateTypeOK'
<1> SUFFICES ASSUME GateTypeOK, [GateNext]_gateVars PROVE GateTypeOK'  OBVIOUS
<1>0. /\ call \in [Callers -> CallRecords] /\ change \in [Owners -> ChangeRecords]
      /\ (GateTypeOK' <=>
            /\ enabled' \in BOOLEAN
            /\ cache' = Nothing \/ cache' \in [age : 0..Ttl, on : BOOLEAN]
            /\ call' \in [Callers -> CallRecords] /\ change' \in [Owners -> ChangeRecords]
            /\ liveRoom' \subseteq Callers /\ late' \subseteq liveRoom'
            /\ offFor' \in 0..Staleness + 1 /\ unemptied' \in BOOLEAN)
      /\ enabled \in BOOLEAN
      /\ cache = Nothing \/ cache \in [age : 0..Ttl, on : BOOLEAN]
      /\ liveRoom \subseteq Callers /\ late \subseteq liveRoom
      /\ offFor \in 0..Staleness + 1 /\ unemptied \in BOOLEAN
  BY DEF GateTypeOK, CallRecords, ChangeRecords
<1>1. CASE TimePasses
  <2>1. ASSUME NEW s \in Callers
        PROVE (IF call[s].at = "loading" THEN [call[s] EXCEPT !.age = @ + 1] ELSE call[s])
                \in CallRecords
    <3>1. CASE call[s].at = "loading"
      <4>1. /\ call[s] = [at |-> "loading", on |-> call[s].on, age |-> call[s].age]
            /\ call[s].on \in BOOLEAN /\ call[s].age \in 0..MaxQuery
        BY <1>0, <3>1, CallShapes
      <4>2. call[s].age + 1 \in 0..MaxQuery  BY <1>1, <3>1, <4>1, BoundsAreNumbers DEF TimePasses
      <4>3. [call[s] EXCEPT !.age = @ + 1]
              = [at |-> "loading", on |-> call[s].on, age |-> call[s].age + 1]
        BY <4>1
      <4> QED  BY <3>1, <4>1, <4>2, <4>3 DEF CallRecords
    <3>2. CASE call[s].at # "loading"  BY <1>0, <3>2
    <3> QED  BY <3>1, <3>2
  <2>2. call' \in [Callers -> CallRecords]  BY <1>1, <2>1 DEF TimePasses
  <2>3. cache' = Nothing \/ cache' \in [age : 0..Ttl, on : BOOLEAN]
    <3>1. CASE Fresh
      <4>1. /\ cache = [age |-> cache.age, on |-> cache.on] /\ cache.on \in BOOLEAN
            /\ cache.age + 1 \in 0..Ttl
        BY <3>1, CacheShape, BoundsAreNumbers DEF Fresh
      <4>2. cache' = [age |-> cache.age + 1, on |-> cache.on]
        BY <1>1, <3>1, <4>1 DEF TimePasses
      <4> QED  BY <4>1, <4>2
    <3>2. CASE ~Fresh  BY <1>0, <1>1, <3>2 DEF TimePasses
    <3> QED  BY <3>1, <3>2
  <2>4. offFor' \in 0..Staleness + 1  BY <1>0, <1>1, BoundsAreNumbers DEF TimePasses
  <2> QED  BY <1>0, <1>1, <2>2, <2>3, <2>4 DEF TimePasses
<1>2. ASSUME NEW s \in Callers, AsksGate(s) PROVE GateTypeOK'
  <2>1. (IF Fresh THEN [at |-> "answered", on |-> cache.on]
         ELSE [at |-> "loading", on |-> enabled, age |-> 0]) \in CallRecords
    BY <1>0, CacheShape, BoundsAreNumbers DEF Fresh, CallRecords
  <2> QED  BY <1>0, <1>2, <2>1 DEF AsksGate
<1>3. ASSUME NEW s \in Callers, Loaded(s) PROVE GateTypeOK'
  <2>1. call[s].on \in BOOLEAN  BY <1>0, <1>3, CallShapes DEF Loaded
  <2>2. [at |-> "answered", on |-> call[s].on] \in CallRecords  BY <2>1 DEF CallRecords
  <2>3. cache' \in [age : 0..Ttl, on : BOOLEAN]  BY <1>3, <2>1, BoundsAreNumbers DEF Loaded
  <2> QED  BY <1>0, <1>3, <2>2, <2>3 DEF Loaded
<1>4. ASSUME NEW s \in Callers, Refused(s) PROVE GateTypeOK'
  BY <1>0, <1>4 DEF Refused, CallRecords
<1>5. ASSUME NEW s \in Callers, LeavesRoom(s) PROVE GateTypeOK'  BY <1>0, <1>5 DEF LeavesRoom
<1>6. ASSUME NEW s \in Callers, NEW joins \in BOOLEAN, HandlerEnds(s, joins) PROVE GateTypeOK'
  <2>1. call' \in [Callers -> CallRecords]  BY <1>0, <1>6 DEF HandlerEnds, CallRecords
  <2> QED  BY <1>0, <1>6, <2>1 DEF HandlerEnds
<1>7. ASSUME NEW o \in Owners, SetFails(o) PROVE GateTypeOK'
  BY <1>0, <1>7 DEF SetFails, ChangeRecords
<1>8. ASSUME NEW o \in Owners, SetCommits(o) PROVE GateTypeOK'
  <2>1. /\ change[o] = [at |-> "read", before |-> change[o].before, want |-> change[o].want]
        /\ change[o].before \in BOOLEAN /\ change[o].want \in BOOLEAN
    BY <1>0, <1>8, ChangeShapes DEF SetCommits
  <2>2. [change[o] EXCEPT !.at = "committed"]
          = [at |-> "committed", before |-> change[o].before, want |-> change[o].want]
    BY <2>1
  <2>3. [change[o] EXCEPT !.at = "committed"] \in ChangeRecords
    BY <2>1, <2>2 DEF ChangeRecords
  <2>4. change' = [change EXCEPT ![o] = [change[o] EXCEPT !.at = "committed"]]
    BY <1>8 DEF SetCommits
  <2>5. change' \in [Owners -> ChangeRecords]  BY <1>0, <2>3, <2>4
  <2>6. offFor' \in 0..Staleness + 1 /\ unemptied' \in BOOLEAN
    BY <1>0, <1>8, BoundsAreNumbers DEF SetCommits
  <2> QED  BY <1>0, <1>8, <2>1, <2>5, <2>6 DEF SetCommits
<1>9. ASSUME NEW o \in Owners, SetApplied(o) PROVE GateTypeOK'
  BY <1>0, <1>9 DEF SetApplied, ChangeRecords
<1>10. ASSUME NEW o \in Owners, NEW want \in BOOLEAN, SetReads(o, want) PROVE GateTypeOK'
  BY <1>0, <1>10 DEF SetReads, ChangeRecords
<1>11. ASSUME NEW o \in Owners, SetCommitLost(o) PROVE GateTypeOK'
  <2>1. change[o].want \in BOOLEAN  BY <1>0, <1>11, ChangeShapes DEF SetCommitLost
  <2>2. change' \in [Owners -> ChangeRecords]
    BY <1>0, <1>11 DEF SetCommitLost, ChangeRecords
  <2>3. offFor' \in 0..Staleness + 1 /\ unemptied' \in BOOLEAN
    BY <1>0, <1>11, BoundsAreNumbers DEF SetCommitLost
  <2> QED  BY <1>0, <1>11, <2>1, <2>2, <2>3 DEF SetCommitLost
<1>12. CASE UNCHANGED gateVars  BY <1>0, <1>12 DEF gateVars
<1> QED
  BY <1>1, <1>2, <1>3, <1>4, <1>5, <1>6, <1>7, <1>8, <1>9, <1>10, <1>11, <1>12 DEF GateNext

----------------------------------------------------------------------------
(* How old an answer can be. *)

LEMMA AnswersAgeStep == GateTypeOK /\ AnswersAge /\ [GateNext]_gateVars => AnswersAge'
<1> SUFFICES ASSUME GateTypeOK, AnswersAge, [GateNext]_gateVars, ~enabled'
             PROVE /\ \A s \in Callers :
                        call'[s].at = "loading" /\ call'[s].on => offFor' <= call'[s].age
                   /\ Fresh' /\ cache'.on => offFor' <= MaxQuery + cache'.age
  BY DEF AnswersAge
<1>0. /\ call \in [Callers -> CallRecords] /\ enabled \in BOOLEAN /\ offFor \in 0..Staleness + 1
      /\ change \in [Owners -> ChangeRecords]
  BY DEF GateTypeOK, CallRecords, ChangeRecords
<1>1. ~enabled =>
        /\ \A s \in Callers : call[s].at = "loading" /\ call[s].on => offFor <= call[s].age
        /\ Fresh /\ cache.on => offFor <= MaxQuery + cache.age
  BY DEF AnswersAge
<1>2. CASE TimePasses
  <2>1. ~enabled /\ offFor' <= offFor + 1  BY <1>0, <1>2, BoundsAreNumbers DEF TimePasses
  <2>2. ASSUME NEW s \in Callers, call'[s].at = "loading", call'[s].on
        PROVE  offFor' <= call'[s].age
    <3>1. call'[s] = IF call[s].at = "loading" THEN [call[s] EXCEPT !.age = @ + 1] ELSE call[s]
      BY <1>2 DEF TimePasses
    <3>2. call[s].at = "loading"  BY <2>2, <3>1
    <3>3. /\ call[s] = [at |-> "loading", on |-> call[s].on, age |-> call[s].age]
          /\ call[s].age \in Nat
      BY <1>0, <3>2, CallShapes, BoundsAreNumbers
    <3>4. call'[s].age = call[s].age + 1 /\ call'[s].on = call[s].on  BY <3>1, <3>2, <3>3
    <3>5. offFor' \in Nat /\ offFor \in Nat  BY <1>0, <1>2, BoundsAreNumbers DEF TimePasses
    <3> QED  BY <1>1, <2>1, <2>2, <3>2, <3>3, <3>4, <3>5
  <2>3. ASSUME Fresh', cache'.on PROVE offFor' <= MaxQuery + cache'.age
    <3>1. Fresh  BY <1>2, <2>3 DEF TimePasses, Fresh
    <3>2. /\ cache = [age |-> cache.age, on |-> cache.on] /\ cache.age \in Nat
          /\ cache' = [cache EXCEPT !.age = @ + 1]
      BY <1>2, <3>1, CacheShape, BoundsAreNumbers DEF TimePasses, Fresh
    <3>3. cache'.age = cache.age + 1 /\ cache'.on = cache.on  BY <3>2
    <3>4. offFor' \in Nat /\ offFor \in Nat  BY <1>0, <1>2, BoundsAreNumbers DEF TimePasses
    <3> QED  BY <1>1, <2>1, <2>3, <3>1, <3>2, <3>3, <3>4, BoundsAreNumbers
  <2> QED  BY <2>2, <2>3
<1>3. ASSUME NEW s \in Callers, AsksGate(s)
      PROVE /\ \A t \in Callers :
                 call'[t].at = "loading" /\ call'[t].on => offFor' <= call'[t].age
            /\ Fresh' /\ cache'.on => offFor' <= MaxQuery + cache'.age
  <2>1. ~enabled /\ UNCHANGED <<cache, offFor>>  BY <1>3 DEF AsksGate
  <2>2. call'[s].at = "loading" => ~call'[s].on  BY <1>0, <1>3, <2>1 DEF AsksGate
  <2>3. \A t \in Callers \ {s} : call'[t] = call[t]  BY <1>0, <1>3 DEF AsksGate
  <2> QED  BY <1>1, <2>1, <2>2, <2>3 DEF Fresh
<1>4. ASSUME NEW s \in Callers, Loaded(s)
      PROVE /\ \A t \in Callers :
                 call'[t].at = "loading" /\ call'[t].on => offFor' <= call'[t].age
            /\ Fresh' /\ cache'.on => offFor' <= MaxQuery + cache'.age
  <2>1. ~enabled /\ offFor' = offFor /\ cache'.age = 0 /\ cache'.on = call[s].on
    BY <1>4 DEF Loaded
  <2>2. call'[s].at = "answered"  BY <1>0, <1>4 DEF Loaded
  <2>3. \A t \in Callers \ {s} : call'[t] = call[t]  BY <1>0, <1>4 DEF Loaded
  <2>4. call[s].on => offFor <= MaxQuery
    <3>1. call[s].age \in 0..MaxQuery /\ call[s].at = "loading"
      BY <1>0, <1>4, CallShapes DEF Loaded
    <3> QED  BY <1>0, <1>1, <2>1, <3>1, BoundsAreNumbers
  <2> QED  BY <1>1, <2>1, <2>2, <2>3, <2>4, BoundsAreNumbers
<1>5. ASSUME NEW s \in Callers, \/ Refused(s) \/ LeavesRoom(s) \/ \E joins \in BOOLEAN : HandlerEnds(s, joins)
      PROVE /\ \A t \in Callers :
                 call'[t].at = "loading" /\ call'[t].on => offFor' <= call'[t].age
            /\ Fresh' /\ cache'.on => offFor' <= MaxQuery + cache'.age
  <2>1. ~enabled /\ UNCHANGED <<cache, offFor>>  BY <1>5 DEF Refused, LeavesRoom, HandlerEnds
  <2>2. \A t \in Callers : call'[t] = call[t] \/ call'[t].at = "idle"
    BY <1>0, <1>5 DEF Refused, LeavesRoom, HandlerEnds, AtRest
  <2> QED  BY <1>1, <2>1, <2>2 DEF Fresh
<1>6. ASSUME NEW o \in Owners, \/ SetFails(o) \/ \E want \in BOOLEAN : SetReads(o, want)
      PROVE /\ \A t \in Callers :
                 call'[t].at = "loading" /\ call'[t].on => offFor' <= call'[t].age
            /\ Fresh' /\ cache'.on => offFor' <= MaxQuery + cache'.age
  BY <1>1, <1>6 DEF SetFails, SetReads, Fresh
<1>7. ASSUME NEW o \in Owners, SetApplied(o)
      PROVE /\ \A t \in Callers :
                 call'[t].at = "loading" /\ call'[t].on => offFor' <= call'[t].age
            /\ Fresh' /\ cache'.on => offFor' <= MaxQuery + cache'.age
  BY <1>1, <1>7 DEF SetApplied, Fresh
<1>8. ASSUME NEW o \in Owners, SetCommits(o) \/ SetCommitLost(o)
      PROVE /\ \A t \in Callers :
                 call'[t].at = "loading" /\ call'[t].on => offFor' <= call'[t].age
            /\ Fresh' /\ cache'.on => offFor' <= MaxQuery + cache'.age
  <2>1. UNCHANGED <<cache, call>>  BY <1>8 DEF SetCommits, SetCommitLost
  <2>2. CASE ~enabled
    <3>1. offFor' = offFor  BY <1>8, <2>2 DEF SetCommits, SetCommitLost
    <3> QED  BY <1>1, <2>1, <2>2, <3>1 DEF Fresh
  <2>3. CASE enabled
    <3>1. offFor' = 0  BY <1>8, <2>3 DEF SetCommits, SetCommitLost
    <3>2. ASSUME NEW t \in Callers, call[t].at = "loading" PROVE 0 <= call[t].age
      BY <1>0, <3>2, CallShapes, BoundsAreNumbers
    <3>3. ASSUME Fresh PROVE 0 <= MaxQuery + cache.age
      BY <3>3, CacheShape, BoundsAreNumbers DEF Fresh
    <3> QED  BY <2>1, <3>1, <3>2, <3>3 DEF Fresh
  <2> QED  BY <2>2, <2>3
<1>9. CASE UNCHANGED gateVars  BY <1>1, <1>9 DEF gateVars, Fresh
<1> QED  BY <1>2, <1>3, <1>4, <1>5, <1>6, <1>7, <1>8, <1>9 DEF GateNext

LEMMA SomebodyWillEmptyStep ==
  GateTypeOK /\ SomebodyWillEmpty /\ [GateNext]_gateVars => SomebodyWillEmpty'
<1> SUFFICES ASSUME GateTypeOK, SomebodyWillEmpty, [GateNext]_gateVars, ~enabled', ~unemptied'
             PROVE \/ liveRoom' \subseteq late'
                   \/ \E o \in Owners :
                        change'[o].at = "committed" /\ change'[o].before /\ ~change'[o].want
  BY DEF SomebodyWillEmpty
<1>0. /\ call \in [Callers -> CallRecords] /\ enabled \in BOOLEAN
      /\ change \in [Owners -> ChangeRecords]
      /\ liveRoom \subseteq Callers /\ late \subseteq liveRoom
  BY DEF GateTypeOK, CallRecords, ChangeRecords
<1>1. ~enabled /\ ~unemptied =>
        \/ liveRoom \subseteq late
        \/ \E o \in Owners :
             change[o].at = "committed" /\ change[o].before /\ ~change[o].want
  BY DEF SomebodyWillEmpty
<1>2. CASE \/ TimePasses
           \/ \E s \in Callers : AsksGate(s) \/ Loaded(s) \/ Refused(s) \/ LeavesRoom(s)
           \/ \E s \in Callers, joins \in BOOLEAN : HandlerEnds(s, joins)
  <2>1. /\ UNCHANGED <<enabled, change, unemptied>>
        /\ liveRoom \subseteq late => liveRoom' \subseteq late'
    BY <1>2 DEF TimePasses, AsksGate, Loaded, Refused, LeavesRoom, HandlerEnds
  <2> QED  BY <1>1, <2>1
<1>3. ASSUME NEW o \in Owners, \/ SetFails(o) \/ \E want \in BOOLEAN : SetReads(o, want)
      PROVE \/ liveRoom' \subseteq late'
            \/ \E p \in Owners :
                 change'[p].at = "committed" /\ change'[p].before /\ ~change'[p].want
  <2>1. /\ UNCHANGED <<enabled, unemptied, liveRoom, late>> /\ change[o].at # "committed"
        /\ \A p \in Owners \ {o} : change'[p] = change[p]
    BY <1>0, <1>3 DEF SetFails, SetReads
  <2> QED  BY <1>1, <2>1
<1>4. ASSUME NEW o \in Owners, SetCommits(o)
      PROVE \/ liveRoom' \subseteq late'
            \/ \E p \in Owners :
                 change'[p].at = "committed" /\ change'[p].before /\ ~change'[p].want
  <2>1. /\ UNCHANGED <<liveRoom, late>> /\ change[o].at = "read" /\ ~change[o].want
        /\ \A p \in Owners \ {o} : change'[p] = change[p]
    BY <1>0, <1>4 DEF SetCommits
  <2>2. CASE enabled
    <3>1. change[o].before  BY <1>4, <2>1, <2>2 DEF SetCommits
    <3>2. change[o] = [at |-> "read", before |-> change[o].before, want |-> change[o].want]
      BY <1>0, <2>1, ChangeShapes
    <3>3. change'[o] = [at |-> "committed", before |-> change[o].before, want |-> change[o].want]
      BY <1>0, <1>4, <3>2 DEF SetCommits
    <3> QED  BY <2>1, <3>1, <3>3
  <2>3. CASE ~enabled
    <3>1. ~unemptied  BY <1>4, <2>3 DEF SetCommits
    <3> QED  BY <1>1, <2>1, <2>3, <3>1
  <2> QED  BY <2>2, <2>3
<1>5. ASSUME NEW o \in Owners, SetApplied(o)
      PROVE \/ liveRoom' \subseteq late'
            \/ \E p \in Owners :
                 change'[p].at = "committed" /\ change'[p].before /\ ~change'[p].want
  <2>1. CASE change[o].before /\ ~change[o].want  BY <1>5, <2>1 DEF SetApplied
  <2>2. CASE ~(change[o].before /\ ~change[o].want)
    <3>1. /\ UNCHANGED <<enabled, liveRoom, late, unemptied>>
          /\ \A p \in Owners \ {o} : change'[p] = change[p]
      BY <1>0, <1>5, <2>2 DEF SetApplied
    <3> QED  BY <1>1, <2>2, <3>1
  <2> QED  BY <2>1, <2>2
<1>6. ASSUME NEW o \in Owners, SetCommitLost(o)
      PROVE \/ liveRoom' \subseteq late'
            \/ \E p \in Owners :
                 change'[p].at = "committed" /\ change'[p].before /\ ~change'[p].want
  <2>1. /\ UNCHANGED <<liveRoom, late>> /\ change[o].at # "committed"
        /\ ~enabled /\ ~unemptied
        /\ \A p \in Owners \ {o} : change'[p] = change[p]
    BY <1>0, <1>6 DEF SetCommitLost
  <2> QED  BY <1>1, <2>1
<1>7. CASE UNCHANGED gateVars  BY <1>1, <1>7 DEF gateVars
<1> QED  BY <1>2, <1>3, <1>4, <1>5, <1>6, <1>7 DEF GateNext

LEMMA GateInvHolds == GateSpec => []GateInv
<1>1. GateInv /\ [GateNext]_gateVars => GateInv'
  BY GateTypeStep, AnswersAgeStep, SomebodyWillEmptyStep DEF GateInv
<1> QED  BY <1>1, GateInvInit, PTL DEF GateSpec

\* The variables of the gate keep their types in every reachable state.
THEOREM GateTypeCorrect == GateSpec => []GateTypeOK
<1>1. GateInv => GateTypeOK  BY DEF GateInv
<1> QED  BY <1>1, GateInvHolds, PTL

\* The gate lets nothing in for longer than one query and one lifetime of the cache
\* after the module was switched off, for any number of sockets, requests, overlapping
\* changes and lost commit answers (companyFeatureService.js, getFeatureStates).
THEOREM SwitchingOffWorks == GateSpec => OffTakesEffect
<1> DEFINE Step == \A s \in Callers :
             call'[s].at = "answered" /\ call'[s] # call[s] /\ call'[s].on /\ ~enabled
               => offFor <= Staleness
<1>1. GateInv /\ [GateNext]_gateVars => [Step]_gateVars
  <2> SUFFICES ASSUME GateInv, GateNext, NEW s \in Callers,
                      call'[s].at = "answered", call'[s] # call[s], call'[s].on, ~enabled
               PROVE offFor <= Staleness
    OBVIOUS
  <2>0. /\ call \in [Callers -> CallRecords] /\ offFor \in 0..Staleness + 1
        /\ GateTypeOK /\ AnswersAge
    BY DEF GateInv, GateTypeOK, CallRecords
  <2>1. \/ AsksGate(s) \/ Loaded(s)
    <3>1. \A t \in Callers : Refused(t) => call'[s] = call[s] \/ call'[s].at = "idle"
      BY <2>0 DEF Refused, AtRest
    <3>2. \A t \in Callers, joins \in BOOLEAN :
            HandlerEnds(t, joins) => call'[s] = call[s] \/ call'[s].at = "idle"
      BY <2>0 DEF HandlerEnds, AtRest
    <3>3. \A t \in Callers : LeavesRoom(t) => call'[s] = call[s]  BY DEF LeavesRoom
    <3>4. \A o \in Owners : SetFails(o) \/ SetCommits(o) \/ SetCommitLost(o) \/ SetApplied(o)
                               \/ (\E want \in BOOLEAN : SetReads(o, want)) => call' = call
      BY DEF SetFails, SetCommits, SetCommitLost, SetApplied, SetReads
    <3>5. TimePasses => call'[s] = call[s] \/ call'[s].at = "loading"
      <4>1. ASSUME TimePasses, call[s].at = "loading" PROVE call'[s].at = "loading"
        <5>1. call[s] = [at |-> "loading", on |-> call[s].on, age |-> call[s].age]
          BY <2>0, <4>1, CallShapes
        <5>2. call'[s] = [call[s] EXCEPT !.age = @ + 1]  BY <4>1 DEF TimePasses
        <5> QED  BY <5>1, <5>2
      <4>2. ASSUME TimePasses, call[s].at # "loading" PROVE call'[s] = call[s]  BY <4>2 DEF TimePasses
      <4> QED  BY <4>1, <4>2
    <3>6. \A t \in Callers \ {s} : AsksGate(t) \/ Loaded(t) => call'[s] = call[s]
      BY <2>0 DEF AsksGate, Loaded
    <3> QED  BY <3>1, <3>2, <3>3, <3>4, <3>5, <3>6 DEF GateNext
  <2>2. CASE AsksGate(s)
    <3>1. Fresh /\ cache.on  BY <2>0, <2>2 DEF AsksGate
    <3>2. offFor <= MaxQuery + cache.age  BY <2>0, <3>1 DEF AnswersAge
    <3>3. cache.age \in Nat /\ cache.age < Ttl  BY <2>0, <3>1, CacheShape, BoundsAreNumbers DEF Fresh
    <3> QED  BY <2>0, <3>2, <3>3, BoundsAreNumbers
  <2>3. CASE Loaded(s)
    <3>1. call[s].at = "loading" /\ call[s].on  BY <2>0, <2>3 DEF Loaded
    <3>2. offFor <= call[s].age /\ call[s].age \in 0..MaxQuery
      BY <2>0, <3>1, CallShapes DEF AnswersAge
    <3> QED  BY <2>0, <3>2, BoundsAreNumbers
  <2> QED  BY <2>1, <2>2, <2>3
<1>2. OffTakesEffect <=> [][Step]_gateVars  BY DEF OffTakesEffect
<1> QED  BY <1>1, <1>2, GateInvHolds, PTL DEF GateSpec

\* Whoever is in a room of a module that is off, with no change between its commit and
\* its end, came in after the switch-off by an answer from before, or nobody
\* empties the rooms (featureRealtimeService.js, applyFeatureChange).
THEOREM RoomsEmpty == GateSpec => []RoomsAreEmptied
<1>1. GateInv => RoomsAreEmptied  BY DEF GateInv, SomebodyWillEmpty, RoomsAreEmptied
<1> QED  BY <1>1, GateInvHolds, PTL
=============================================================================
