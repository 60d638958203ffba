------------------------ MODULE SmartSheetSyncProofs ------------------------
(***************************************************************************)
(* Proofs about SmartSheetSync, for every set of users, changes and items   *)
(* and without the bounds of the runs: whatever happens as often as it     *)
(* likes.                                                                  *)
(***************************************************************************)
EXTENDS SmartSheetSync, SmartSheetServerProofs, WellFoundedInduction

(* Types. *)

TabsTyped ==
  /\ tab \in [Users -> Tabs]
  /\ fate \in [Ops -> {"untyped", "pending", "confirmed", "rejected"}]
  /\ typed \in [Users -> Seq(Ops)]

\* A queue that waits for an answer, or to try again, has something to save.
SenderHasHead == \A u \in Users : tab[u].sender # "idle" => tab[u].unsaved # << >>

\* The fields of a tab, and what may replace them.
LEMMA TabFields ==
  ASSUME NEW t \in Tabs
  PROVE  /\ t.unsaved \in Seq(Ops)
         /\ t.unsaved # << >> => Head(t.unsaved) \in Ops /\ Tail(t.unsaved) \in Seq(Ops)
         /\ \A o \in Ops : Append(t.unsaved, o) \in Seq(Ops)
         /\ t.screen \in [Items -> Ops \cup {Blank}] /\ t.cells \in [Items -> Ops \cup {Blank}]
         /\ t.att \in Attempts /\ t.snap \in Nat
         /\ t.buffered \subseteq [type : {"op"}, op : Ops, rev : Nat]
BY HeadTailProperties, AppendProperties DEF Tabs

LEMMA ScreensChange ==
  ASSUME NEW t \in Tabs, NEW o \in Ops
  PROVE  [t EXCEPT !.screen[ItemOf[o]] = o] \in Tabs
<1>1. [t.screen EXCEPT ![ItemOf[o]] = o] \in [Items -> Ops \cup {Blank}]
  BY TabFields, ItemOfType
<1> QED  BY <1>1 DEF Tabs

LEMMA SettledTabs ==
  ASSUME NEW t \in Tabs, t.unsaved # << >>
  PROVE  Settled(t) \in Tabs
BY TabFields, AttemptsStart DEF Settled, Tabs

LEMMA CutTabs ==
  ASSUME NEW t \in Tabs
  PROVE  Cut(t) \in Tabs
<1>1. /\ (IF t.sync = "joining" THEN "due" ELSE t.sync) \in Phases
      /\ (IF t.sender = "waiting" THEN "idle" ELSE t.sender) \in {"idle", "waiting", "pausing"}
  BY DEF Tabs, Phases
<1>2. ASSUME NEW p \in Phases, NEW s \in {"idle", "waiting", "pausing"}, NEW a \in Attempts
      PROVE  [t EXCEPT !.online = FALSE, !.att = a, !.sync = p, !.sender = s] \in Tabs
  BY DEF Tabs
<1> QED  BY <1>1, <1>2, AttemptsStart DEF Cut

\* A set of numbers with a bound has a greatest one.
LEMMA GreatestNumber ==
  ASSUME NEW S \in SUBSET Nat, S # {}, NEW b \in Nat, \A x \in S : x <= b
  PROVE  \E m \in S : \A x \in S : x <= m
<1> DEFINE D == {d \in Nat : \E x \in S : d = b - x}
<1>1. D \subseteq Nat /\ D # {}
  <2>1. PICK x \in S : TRUE  OBVIOUS
  <2>2. b - x \in D  BY <2>1
  <2> QED  BY <2>2
<1>2. PICK d \in D : \A e \in D : ~(<<e, d>> \in OpToRel(<, Nat))
  <2> HIDE DEF D
  <2> QED  BY <1>1, NatLessThanWellFounded, WFMin
<1>3. PICK m \in S : d = b - m  OBVIOUS
<1>4. ASSUME NEW x \in S PROVE x <= m
  <2>1. b - x \in D  OBVIOUS
  <2>2. ~(b - x < d)  BY <1>2, <2>1 DEF OpToRel
  <2> QED  BY <1>3, <2>2
<1> QED  BY <1>4

\* What a tab holds back is in the log.
SavedMessages(t) == \A m \in t.buffered : m.rev \in DOMAIN log /\ log[m.rev] = m.op
HeldBackIsSaved == \A u \in Users : SavedMessages(tab[u])

LEMMA ReplayTyped ==
  ASSUME NEW t \in Tabs, log \in Seq(Ops), SavedMessages(t)
  PROVE  Replay(t) \in [Items -> Ops \cup {Blank}]
<1> SUFFICES ASSUME NEW i \in Items PROVE Replay(t)[i] \in Ops \cup {Blank}
  BY DEF Replay
<1> DEFINE newer == {m \in Missed(t) : ItemOf[m.op] = i}
<1>1. CASE newer = {}  BY <1>1, TabFields DEF Replay
<1>2. CASE newer # {}
  <2>1. newer \subseteq t.buffered /\ t.buffered \subseteq [type : {"op"}, op : Ops, rev : Nat]
    BY TabFields DEF Missed
  <2>2. \E m \in newer : \A n \in newer : n.rev <= m.rev
    <3> DEFINE S == {m.rev : m \in newer}
    <3>1. S \in SUBSET Nat /\ S # {}  BY <1>2, <2>1
    <3>2. Len(log) \in Nat /\ \A x \in S : x <= Len(log)
      BY <2>1, LenProperties DEF SavedMessages
    <3>3. PICK r \in S : \A x \in S : x <= r
      <4> HIDE DEF S
      <4> QED  BY <3>1, <3>2, GreatestNumber
    <3> QED  BY <3>3
  <2>3. (CHOOSE m \in newer : \A n \in newer : n.rev <= m.rev) \in newer  BY <2>2
  <2> QED  BY <1>2, <2>1, <2>3 DEF Replay
<1> QED  BY <1>1, <1>2

----------------------------------------------------------------------------
(* What a step does to the tabs: three kinds of it.                        *)

TabsFit ==
  /\ tab' \in [Users -> Tabs]
  /\ \A v \in Users : /\ tab'[v].sender # "idle" => tab'[v].unsaved # << >>
                      /\ SavedMessages(tab'[v])

\* Nothing is typed, confirmed or given up.
LeavesQueues ==
  /\ TabsFit /\ UNCHANGED <<fate, typed>>
  /\ \A v \in Users : tab'[v].unsaved = tab[v].unsaved

Types(u, o) ==
  /\ TabsFit /\ UNCHANGED serverVars
  /\ AuthorOf[o] = u /\ fate[o] = "untyped"
  /\ fate' = [fate EXCEPT ![o] = "pending"]
  /\ typed' = [typed EXCEPT ![u] = Append(@, o)]
  /\ \A v \in Users :
       tab'[v].unsaved = IF v = u THEN Append(tab[v].unsaved, o) ELSE tab[v].unsaved

\* The heads of the queues in G are confirmed, or given up.
Settles(G, word) ==
  /\ TabsFit /\ UNCHANGED <<dbVars, typed>>
  /\ \A v \in G : tab[v].unsaved # << >>
  /\ fate' = [o \in Ops |-> IF \E v \in G : UnsavedHead(v) = o THEN word ELSE fate[o]]
  /\ \A v \in Users :
       tab'[v].unsaved = IF v \in G THEN Tail(tab[v].unsaved) ELSE tab[v].unsaved

TabsMove ==
  \/ LeavesQueues
  \/ \E u \in Users, o \in Ops : Types(u, o)
  \/ \E G \in SUBSET Users : Settles(G, "rejected")
  \/ \E u \in Users : /\ Settles({u}, "confirmed")
                      /\ \E p \in DOMAIN log : log[p] = UnsavedHead(u)

TabsInv == TabsTyped /\ SenderHasHead /\ HeldBackIsSaved

LEMMA MessagesAreTyped ==
  ASSUME ServerTypeOK, NEW u \in Users, outbox[u] # << >>
  PROVE  Message(u) \in ServerMessages /\ 1 \in DOMAIN outbox[u] /\ Message(u) = outbox[u][1]
BY HeadTailProperties, LenProperties, EmptySeq DEF Message, ServerTypeOK

\* One tab changes and its queue does not.
LEMMA OneQuietTab ==
  ASSUME TabsInv, NEW u \in Users, NEW x \in Tabs, UNCHANGED <<fate, typed>>,
         tab' = [tab EXCEPT ![u] = x], x.unsaved = tab[u].unsaved,
         x.sender # "idle" => x.sender = tab[u].sender \/ x.unsaved # << >>,
         SavedMessages(x)
  PROVE  LeavesQueues
<1>1. tab' \in [Users -> Tabs] /\ tab'[u] = x /\ \A v \in Users \ {u} : tab'[v] = tab[v]
  BY DEF TabsInv, TabsTyped
<1> QED  BY <1>1 DEF TabsInv, SenderHasHead, HeldBackIsSaved, LeavesQueues, TabsFit

\* The head of one queue is settled.
LEMMA OneSettledTab ==
  ASSUME TabsInv, NEW u \in Users, NEW x \in Tabs, NEW word, UNCHANGED <<dbVars, typed>>,
         tab[u].unsaved # << >>, tab' = [tab EXCEPT ![u] = x],
         x.unsaved = Tail(tab[u].unsaved), x.sender = "idle", x.buffered = tab[u].buffered,
         fate' = [fate EXCEPT ![UnsavedHead(u)] = word]
  PROVE  Settles({u}, word)
<1>1. tab' \in [Users -> Tabs] /\ tab'[u] = x /\ \A v \in Users \ {u} : tab'[v] = tab[v]
  BY DEF TabsInv, TabsTyped
<1>2. TabsFit
  BY <1>1 DEF TabsInv, SenderHasHead, HeldBackIsSaved, SavedMessages, TabsFit
<1>3. fate' = [o \in Ops |-> IF \E v \in {u} : UnsavedHead(v) = o THEN word ELSE fate[o]]
  BY DEF TabsInv, TabsTyped
<1> QED  BY <1>1, <1>2, <1>3 DEF Settles

LEMMA TypeMoves ==
  ASSUME TabsInv, NEW u \in Users, NEW o \in Ops, Type(u, o)
  PROVE  Types(u, o)
<1> DEFINE x == [tab[u] EXCEPT !.screen[ItemOf[o]] = o, !.unsaved = Append(@, o)]
<1>1. tab[u] \in Tabs /\ tab[u].unsaved \in Seq(Ops)  BY DEF TabsInv, TabsTyped, Tabs
<1>2. /\ Append(tab[u].unsaved, o) \in Seq(Ops) /\ Append(tab[u].unsaved, o) # << >>
  <2>1. Len(Append(tab[u].unsaved, o)) = Len(tab[u].unsaved) + 1 /\ Len(tab[u].unsaved) \in Nat
        /\ Append(tab[u].unsaved, o) \in Seq(Ops)
    BY <1>1, AppendProperties, LenProperties
  <2> QED  BY SMTT(30), <2>1, EmptySeq
<1>3. [tab[u].screen EXCEPT ![ItemOf[o]] = o] \in [Items -> Ops \cup {Blank}]
  BY <1>1, TabFields, ItemOfType
<1>4. /\ x \in Tabs /\ x.unsaved = Append(tab[u].unsaved, o) /\ x.sender = tab[u].sender
      /\ x.buffered = tab[u].buffered
  BY <1>1, <1>2, <1>3 DEF Tabs
<1>5. tab' = [tab EXCEPT ![u] = x]  BY <1>1 DEF Type, TabsInv, TabsTyped
<1>6. tab' \in [Users -> Tabs] /\ tab'[u] = x /\ \A v \in Users \ {u} : tab'[v] = tab[v]
  <2> HIDE DEF x
  <2> QED  BY <1>4, <1>5 DEF TabsInv, TabsTyped
<1>7. TabsFit
  <2> HIDE DEF x
  <2> QED  BY <1>2, <1>4, <1>6 DEF TabsInv, SenderHasHead, HeldBackIsSaved, SavedMessages, TabsFit
<1>8. \A v \in Users :
        tab'[v].unsaved = IF v = u THEN Append(tab[v].unsaved, o) ELSE tab[v].unsaved
  <2> HIDE DEF x
  <2> QED  BY <1>4, <1>6
<1> QED  BY <1>7, <1>8 DEF Type, Types

\* The steps that only move the controller or the sender.
LEMMA SmallMoves ==
  ASSUME TabsInv, ServerTypeOK, NEW u \in Users,
         \/ Open(u) \/ Attempt(u) \/ JoinTimeout(u) \/ Drained(u) \/ DrainTimeout(u)
         \/ FetchRow(u) \/ FetchCells(u) \/ FetchFails(u) \/ SendHead(u) \/ PauseOver(u)
         \/ ReceiveRevoked(u) \/ ReceiveChanged(u) \/ TabConnects(u)
  PROVE  LeavesQueues
<1>1. /\ tab \in [Users -> Tabs] /\ tab[u] \in Tabs /\ SavedMessages(tab[u])
      /\ log \in Seq(Ops) /\ Len(log) \in Nat /\ content \in [Items -> Ops \cup {Blank}]
  BY LenProperties DEF TabsInv, TabsTyped, HeldBackIsSaved, ServerTypeOK
<1> DEFINE Alike(x) == /\ x \in Tabs /\ x.unsaved = tab[u].unsaved /\ x.sender = tab[u].sender
                       /\ x.buffered \subseteq tab[u].buffered
<1>2. ASSUME NEW x, Alike(x), tab' = [tab EXCEPT ![u] = x], UNCHANGED <<fate, typed>>
      PROVE  LeavesQueues
  BY <1>1, <1>2, OneQuietTab DEF SavedMessages
<1>3. ASSUME NEW p \in Phases, tab' = [tab EXCEPT ![u].sync = p], UNCHANGED <<fate, typed>>
      PROVE  LeavesQueues
  <2> DEFINE x == [tab[u] EXCEPT !.sync = p]
  <2>1. Alike(x)  BY <1>1 DEF Tabs
  <2>2. tab' = [tab EXCEPT ![u] = x]  BY <1>1, <1>3
  <2> HIDE DEF x, Alike
  <2> QED  BY <1>2, <1>3, <2>1, <2>2
<1>4. CASE \/ Open(u) \/ JoinTimeout(u) \/ Drained(u) \/ DrainTimeout(u) \/ FetchFails(u)
  BY <1>3, <1>4 DEF Open, JoinTimeout, Drained, DrainTimeout, FetchFails, Phases
<1>5. CASE Attempt(u)
  <2>1. PICK n \in Joins : tab' = [tab EXCEPT ![u].sync = "joining", ![u].joinNo = n,
                                             ![u].buffered = {}]
    BY <1>5 DEF Attempt
  <2> DEFINE x == [tab[u] EXCEPT !.sync = "joining", !.joinNo = n, !.buffered = {}]
  <2>2. Alike(x)  BY <1>1 DEF Tabs, Phases
  <2>3. tab' = [tab EXCEPT ![u] = x]  BY <1>1, <2>1
  <2> HIDE DEF x, Alike
  <2> QED  BY <1>2, <1>5, <2>2, <2>3 DEF Attempt
<1>6. CASE FetchRow(u)
  <2> DEFINE x == [tab[u] EXCEPT !.sync = "reading", !.snap = Len(log),
                                 !.granted = Access(u) = "edit"]
  <2>1. Alike(x)
    <3>1. (Access(u) = "edit") \in BOOLEAN  OBVIOUS
    <3> QED  BY <1>1, <3>1 DEF Tabs, Phases
  <2>2. tab' = [tab EXCEPT ![u] = x]  BY <1>1, <1>6 DEF FetchRow
  <2> HIDE DEF x, Alike
  <2> QED  BY <1>2, <1>6, <2>1, <2>2 DEF FetchRow
<1>7. CASE FetchCells(u)
  <2> DEFINE x == [tab[u] EXCEPT !.sync = "mounting", !.cells = content]
  <2>1. Alike(x)  BY <1>1 DEF Tabs, Phases
  <2>2. tab' = [tab EXCEPT ![u] = x]  BY <1>1, <1>7 DEF FetchCells
  <2> HIDE DEF x, Alike
  <2> QED  BY <1>2, <1>7, <2>1, <2>2 DEF FetchCells
<1>8. CASE SendHead(u) \/ PauseOver(u)
  <2>1. PICK s \in {"idle", "waiting"} :
          /\ tab' = [tab EXCEPT ![u].sender = s]
          /\ s # "idle" => tab[u].unsaved # << >>
    BY <1>8 DEF SendHead, PauseOver
  <2> DEFINE x == [tab[u] EXCEPT !.sender = s]
  <2>2. /\ x \in Tabs /\ x.unsaved = tab[u].unsaved /\ x.buffered = tab[u].buffered
        /\ x.sender = s
    BY <1>1 DEF Tabs
  <2>3. tab' = [tab EXCEPT ![u] = x]  BY <1>1, <2>1
  <2>4. SavedMessages(x)  BY <1>1, <2>2 DEF SavedMessages
  <2>5. UNCHANGED <<fate, typed>>  BY <1>8 DEF SendHead, PauseOver
  <2> HIDE DEF x
  <2> QED  BY <2>1, <2>2, <2>3, <2>4, <2>5, OneQuietTab
<1>9. CASE ReceiveRevoked(u)
  <2> DEFINE x == [tab[u] EXCEPT !.shut = TRUE, !.online = FALSE]
  <2>1. Alike(x)  BY <1>1 DEF Tabs
  <2>2. tab' = [tab EXCEPT ![u] = x]  BY <1>1, <1>9 DEF ReceiveRevoked
  <2> HIDE DEF x, Alike
  <2> QED  BY <1>2, <1>9, <2>1, <2>2 DEF ReceiveRevoked
<1>10. CASE ReceiveChanged(u)
  <2> DEFINE x == [tab[u] EXCEPT !.editable = Message(u).permission = "edit"]
  <2>1. Alike(x)
    <3>1. (Message(u).permission = "edit") \in BOOLEAN  OBVIOUS
    <3> QED  BY <1>1, <3>1 DEF Tabs
  <2>2. tab' = [tab EXCEPT ![u] = x]  BY <1>1, <1>10 DEF ReceiveChanged
  <2> HIDE DEF x, Alike
  <2> QED  BY <1>2, <1>10, <2>1, <2>2 DEF ReceiveChanged
<1>11. CASE TabConnects(u)
  <2>1. PICK x \in {tab[u], [tab[u] EXCEPT !.sync = "due"], [tab[u] EXCEPT !.rerun = TRUE]} :
          tab' = [tab EXCEPT ![u] = x]
    BY <1>11 DEF TabConnects
  <2>2. Alike(x)  BY ZenonT(40), <1>1 DEF Tabs, Phases
  <2> HIDE DEF Alike
  <2> QED  BY <1>2, <1>11, <2>1, <2>2 DEF TabConnects
<1> QED  BY <1>4, <1>5, <1>6, <1>7, <1>8, <1>9, <1>10, <1>11

LEMMA JoinedMoves ==
  ASSUME TabsInv, ServerTypeOK, NEW u \in Users, ReceiveJoined(u)
  PROVE  LeavesQueues
<1> DEFINE m == Message(u)
           t == tab[u]
           on == IF t.unsaved = << >> THEN "fetching" ELSE "draining"
           again == [t EXCEPT !.sync = "due", !.rerun = FALSE]
           x == IF t.sync = "joining" /\ m.n = t.joinNo
                THEN CASE m.code = "OK" -> [t EXCEPT !.online = TRUE, !.sync = on]
                       [] m.code = "SERVER_ERROR" -> [t EXCEPT !.sync = "due"]
                       [] m.code = "NOT_FOUND" /\ t.rerun -> [again EXCEPT !.shut = TRUE]
                       [] OTHER -> [t EXCEPT !.sync = "revoked", !.shut = TRUE, !.first = TRUE]
                ELSE t
<1>1. /\ tab \in [Users -> Tabs] /\ t \in Tabs /\ SavedMessages(t)
  BY DEF TabsInv, TabsTyped, HeldBackIsSaved
<1>2. tab' = [tab EXCEPT ![u] = x]  BY <1>1 DEF ReceiveJoined
<1>3. x \in {t, [t EXCEPT !.online = TRUE, !.sync = on], [t EXCEPT !.sync = "due"],
             [again EXCEPT !.shut = TRUE],
             [t EXCEPT !.sync = "revoked", !.shut = TRUE, !.first = TRUE]}
  OBVIOUS
<1>4. /\ x \in Tabs /\ x.unsaved = t.unsaved /\ x.sender = t.sender /\ x.buffered = t.buffered
  <2> DEFINE Fits(y) == /\ y \in Tabs /\ y.unsaved = t.unsaved /\ y.sender = t.sender
                        /\ y.buffered = t.buffered
  <2>1. on \in Phases  BY DEF Phases
  <2>2. Fits(t)  BY <1>1
  <2>3. Fits([t EXCEPT !.online = TRUE, !.sync = on])
    <3> HIDE DEF on
    <3> QED  BY <1>1, <2>1 DEF Tabs
  <2>4. Fits([t EXCEPT !.sync = "due"])  BY <1>1 DEF Tabs, Phases
  <2>5. Fits([again EXCEPT !.shut = TRUE])  BY <1>1 DEF Tabs, Phases
  <2>6. Fits([t EXCEPT !.sync = "revoked", !.shut = TRUE, !.first = TRUE])
    BY <1>1 DEF Tabs, Phases
  <2> HIDE DEF x, on, again, Fits
  <2>7. Fits(x)  BY <1>3, <2>2, <2>3, <2>4, <2>5, <2>6
  <2> QED  BY <2>7 DEF Fits
<1>5. SavedMessages(x)
  <2> HIDE DEF x
  <2> QED  BY <1>1, <1>4 DEF SavedMessages
<1>6. UNCHANGED <<fate, typed>>  BY DEF ReceiveJoined
<1> HIDE DEF x
<1> QED  BY <1>2, <1>4, <1>5, <1>6, OneQuietTab

\* The state of the sheet, with what was held back on top of it.
LEMMA MountMoves ==
  ASSUME TabsInv, ServerTypeOK, NEW u \in Users, Mount(u)
  PROVE  LeavesQueues
<1> DEFINE t == tab[u]
           x == [t EXCEPT !.screen = Replay(t), !.buffered = {},
                          !.cells = [i \in Items |-> Blank],
                          !.editable = t.granted, !.rerun = FALSE,
                          !.sync = IF t.rerun THEN "due" ELSE "live",
                          !.first = @ \/ ~t.rerun]
<1>1. /\ tab \in [Users -> Tabs] /\ t \in Tabs /\ SavedMessages(t) /\ log \in Seq(Ops)
  BY DEF TabsInv, TabsTyped, HeldBackIsSaved, ServerTypeOK
<1>2. /\ Replay(t) \in [Items -> Ops \cup {Blank}]
      /\ [i \in Items |-> Blank] \in [Items -> Ops \cup {Blank}]
      /\ (IF t.rerun THEN "due" ELSE "live") \in Phases
      /\ (t.first \/ ~t.rerun) \in BOOLEAN
  BY <1>1, ReplayTyped DEF Phases
<1>3. /\ x \in Tabs /\ x.unsaved = t.unsaved /\ x.sender = t.sender /\ x.buffered = {}
  BY ZenonT(40), <1>1, <1>2 DEF Tabs
<1>4. tab' = [tab EXCEPT ![u] = x]  BY <1>1 DEF Mount
<1>5. UNCHANGED <<fate, typed>>  BY DEF Mount
<1> HIDE DEF x
<1> QED  BY <1>3, <1>4, <1>5, OneQuietTab DEF SavedMessages

\* A change of somebody else goes to the screen or is held back.
LEMMA OpMoves ==
  ASSUME TabsInv, ServerTypeOK, SavedMeansSaved, NEW u \in Users, ReceiveOp(u)
  PROVE  LeavesQueues
<1> DEFINE m == Message(u)
           t == tab[u]
           x == CASE t.sync = "live" -> ApplyOp(t, m)
                  [] t.sync \in {"off", "due", "revoked"} -> t
                  [] OTHER -> [t EXCEPT !.buffered = @ \cup {m}]
<1>1. /\ tab \in [Users -> Tabs] /\ t \in Tabs /\ SavedMessages(t)
  BY DEF TabsInv, TabsTyped, HeldBackIsSaved
<1>2. /\ m \in [type : {"op"}, op : Ops, rev : Nat] /\ m.op \in Ops
      /\ m.rev \in DOMAIN log /\ log[m.rev] = m.op
  <2>1. outbox[u] # << >> /\ m.type = "op"  BY DEF ReceiveOp, Gets
  <2>2. m \in ServerMessages /\ Truthful(m, log)
    BY <2>1, MessagesAreTyped DEF SavedMeansSaved
  <2> QED  BY <2>1, <2>2 DEF Truthful, ServerMessages
<1>3. tab' = [tab EXCEPT ![u] = x]
  <2>1. CASE t.sync = "live"  BY <1>1, <2>1 DEF ReceiveOp
  <2>2. CASE t.sync \in {"off", "due", "revoked"}  BY <1>1, <2>2 DEF ReceiveOp
  <2>3. CASE t.sync \notin {"live", "off", "due", "revoked"}  BY <1>1, <2>3 DEF ReceiveOp
  <2> QED  BY <2>1, <2>2, <2>3
<1>4. x \in {t, [t EXCEPT !.screen[ItemOf[m.op]] = m.op], [t EXCEPT !.buffered = @ \cup {m}]}
  BY DEF ApplyOp
<1>5. /\ x \in Tabs /\ x.unsaved = t.unsaved /\ x.sender = t.sender
      /\ x.buffered \subseteq t.buffered \cup {m}
  <2>1. [t EXCEPT !.screen[ItemOf[m.op]] = m.op] \in Tabs  BY <1>1, <1>2, ScreensChange
  <2>2. t.buffered \cup {m} \subseteq [type : {"op"}, op : Ops, rev : Nat]
    BY <1>1, <1>2, TabFields
  <2> DEFINE Fits(y) == /\ y \in Tabs /\ y.unsaved = t.unsaved /\ y.sender = t.sender
                        /\ y.buffered \subseteq t.buffered \cup {m}
  <2>3. Fits(t)  BY <1>1
  <2>4. Fits([t EXCEPT !.screen[ItemOf[m.op]] = m.op])
    <3> HIDE DEF m
    <3> QED  BY <1>1, <2>1 DEF Tabs
  <2>5. Fits([t EXCEPT !.buffered = @ \cup {m}])
    <3> HIDE DEF m
    <3> QED  BY <1>1, <2>2 DEF Tabs
  <2> HIDE DEF x, Fits
  <2>6. Fits(x)  BY <1>4, <2>3, <2>4, <2>5
  <2> QED  BY <2>6 DEF Fits
<1>6. SavedMessages(x)
  <2> HIDE DEF x, m
  <2> QED  BY <1>1, <1>2, <1>5 DEF SavedMessages
<1>7. UNCHANGED <<fate, typed>>  BY DEF ReceiveOp
<1> HIDE DEF x
<1> QED  BY <1>3, <1>5, <1>6, <1>7, OneQuietTab

\* Trying again, or giving up.
LEMMA RetryMoves ==
  ASSUME TabsInv, NEW u \in Users, NEW x \in Tabs, UNCHANGED <<dbVars, typed>>,
         tab[u].unsaved # << >>, x.unsaved = tab[u].unsaved, x.buffered = tab[u].buffered,
         RetryOrGiveUp(u, x)
  PROVE  LeavesQueues \/ Settles({u}, "rejected")
<1>1. tab[u] \in Tabs /\ SavedMessages(x)
  BY DEF TabsInv, TabsTyped, HeldBackIsSaved, SavedMessages
<1>2. CASE tab' = [tab EXCEPT ![u] = x] /\ UNCHANGED fate
  BY <1>1, <1>2, OneQuietTab
<1>3. CASE /\ tab' = [tab EXCEPT ![u] = Settled(@)]
           /\ fate' = [fate EXCEPT ![UnsavedHead(u)] = "rejected"]
  <2> DEFINE y == Settled(tab[u])
  <2>1. /\ y \in Tabs /\ y.unsaved = Tail(tab[u].unsaved) /\ y.sender = "idle"
        /\ y.buffered = tab[u].buffered
    <3>1. y \in Tabs  BY <1>1, SettledTabs
    <3> QED  BY <1>1, <3>1 DEF Settled, Tabs
  <2>2. tab' = [tab EXCEPT ![u] = y]  BY <1>3
  <2> HIDE DEF y
  <2> QED  BY <1>3, <2>1, <2>2, OneSettledTab
<1> QED  BY <1>2, <1>3 DEF RetryOrGiveUp

LEMMA TimeoutMoves ==
  ASSUME TabsInv, NEW u \in Users, AckTimeout(u)
  PROVE  LeavesQueues \/ Settles({u}, "rejected")
<1> DEFINE x == [tab[u] EXCEPT !.sender = "pausing", !.att = @ + 1]
<1>1. tab[u] \in Tabs /\ tab[u].unsaved # << >>
  BY DEF TabsInv, TabsTyped, SenderHasHead, AckTimeout
<1>2. x \in Tabs /\ x.unsaved = tab[u].unsaved /\ x.buffered = tab[u].buffered
  BY <1>1 DEF AckTimeout, Tabs
<1>3. RetryOrGiveUp(u, x) /\ UNCHANGED <<dbVars, typed>>  BY DEF AckTimeout, serverVars
<1> HIDE DEF x
<1> QED  BY <1>1, <1>2, <1>3, RetryMoves

LEMMA AckMoves ==
  ASSUME TabsInv, ServerTypeOK, SavedMeansSaved, NEW u \in Users, ReceiveAck(u)
  PROVE  \/ LeavesQueues \/ Settles({u}, "rejected")
         \/ Settles({u}, "confirmed") /\ \E p \in DOMAIN log : log[p] = UnsavedHead(u)
<1> DEFINE t == tab[u]
           m == Message(u)
           awaited == t.sender = "waiting" /\ m.op = UnsavedHead(u) /\ m.att = t.att
<1>1. /\ t \in Tabs /\ tab \in [Users -> Tabs] /\ SavedMessages(t)
      /\ t.sender = "waiting" => t.unsaved # << >>
  BY DEF TabsInv, TabsTyped, SenderHasHead, HeldBackIsSaved
<1>2. UNCHANGED <<dbVars, typed>> /\ outbox[u] # << >> /\ m.type = "ack"
  BY DEF ReceiveAck, Gets
<1> DEFINE y == Settled(t)
<1>3. t.unsaved # << >> =>
        /\ y \in Tabs /\ y.unsaved = Tail(t.unsaved) /\ y.sender = "idle"
        /\ y.buffered = t.buffered
  <2> SUFFICES ASSUME t.unsaved # << >>
               PROVE  /\ y \in Tabs /\ y.unsaved = Tail(t.unsaved) /\ y.sender = "idle"
                      /\ y.buffered = t.buffered
    OBVIOUS
  <2>1. y \in Tabs  BY <1>1, SettledTabs
  <2> QED  BY <1>1, <2>1 DEF Settled, Tabs
<1>4. CASE ~awaited
  <2>1. UNCHANGED <<tab, fate, typed>>  BY <1>4 DEF ReceiveAck
  <2>2. tab' = [tab EXCEPT ![u] = t]  BY <1>1, <2>1
  <2> QED  BY <1>1, <2>1, <2>2, OneQuietTab
<1>5. CASE awaited /\ m.code = "OK"
  <2>1. /\ tab' = [tab EXCEPT ![u] = y]
        /\ fate' = [fate EXCEPT ![UnsavedHead(u)] = "confirmed"]
    <3> HIDE DEF m
    <3> QED  BY <1>1, <1>5 DEF ReceiveAck, m
  <2>2. \E p \in DOMAIN log : log[p] = UnsavedHead(u)
    <3>1. Truthful(m, log)  BY <1>2, MessagesAreTyped DEF SavedMeansSaved
    <3> QED  BY <1>2, <1>5, <3>1 DEF Truthful
  <2> HIDE DEF y
  <2>3. Settles({u}, "confirmed")  BY <1>1, <1>2, <1>3, <1>5, <2>1, OneSettledTab
  <2> QED  BY <2>2, <2>3
<1>6. CASE awaited /\ m.code = "NOT_JOINED"
  <2> DEFINE x == [t EXCEPT !.sender = "idle"]
  <2>1. x \in Tabs /\ x.unsaved = t.unsaved /\ x.buffered = t.buffered /\ x.sender = "idle"
    BY <1>1 DEF Tabs
  <2>2. tab' = [tab EXCEPT ![u] = x] /\ UNCHANGED fate  BY <1>1, <1>6 DEF ReceiveAck
  <2> HIDE DEF x
  <2>3. SavedMessages(x)  BY <1>1, <2>1 DEF SavedMessages
  <2> QED  BY <1>2, <2>1, <2>2, <2>3, OneQuietTab
<1>7. CASE awaited /\ m.code \in {"SERVER_ERROR", "RATE_LIMITED"}
  <2> DEFINE x == [t EXCEPT !.sender = "pausing"]
  <2>1. x \in Tabs /\ x.unsaved = t.unsaved /\ x.buffered = t.buffered  BY <1>1 DEF Tabs
  <2>2. RetryOrGiveUp(u, x)  BY <1>7 DEF ReceiveAck
  <2> HIDE DEF x
  <2> QED  BY <1>1, <1>2, <1>7, <2>1, <2>2, RetryMoves
<1>8. CASE awaited /\ m.code \notin {"OK", "NOT_JOINED", "SERVER_ERROR", "RATE_LIMITED"}
  <2>1. /\ tab' = [tab EXCEPT ![u] = y]
        /\ fate' = [fate EXCEPT ![UnsavedHead(u)] = "rejected"]
    BY <1>1, <1>8 DEF ReceiveAck
  <2> HIDE DEF y
  <2> QED  BY <1>1, <1>2, <1>3, <1>8, <2>1, OneSettledTab
<1> QED  BY <1>4, <1>5, <1>6, <1>7, <1>8

LEMMA DisconnectMoves ==
  ASSUME TabsInv, NEW u \in Users, TabDisconnects(u)
  PROVE  LeavesQueues \/ Settles({u}, "rejected")
<1>1. /\ tab[u] \in Tabs /\ tab \in [Users -> Tabs] /\ SavedMessages(tab[u])
      /\ tab[u].sender = "waiting" => tab[u].unsaved # << >>
  BY DEF TabsInv, TabsTyped, SenderHasHead, HeldBackIsSaved
<1>2. UNCHANGED <<dbVars, typed>>  BY DEF TabDisconnects, Disconnect
<1>3. CASE tab' = [tab EXCEPT ![u] = Cut(@)] /\ UNCHANGED fate
  <2> DEFINE x == Cut(tab[u])
  <2>1. x \in Tabs  BY <1>1, CutTabs
  <2>2. /\ x.unsaved = tab[u].unsaved /\ x.buffered = tab[u].buffered
        /\ x.sender # "idle" => x.sender = tab[u].sender
    BY <1>1, <2>1 DEF Cut, Tabs
  <2>3. tab' = [tab EXCEPT ![u] = x]  BY <1>3
  <2> HIDE DEF x
  <2>4. SavedMessages(x)  BY <1>1, <2>2 DEF SavedMessages
  <2> QED  BY <1>2, <1>3, <2>1, <2>2, <2>3, <2>4, OneQuietTab
<1>4. CASE /\ tab[u].sender = "waiting"
           /\ tab' = [tab EXCEPT ![u] = Cut(Settled(@))]
           /\ fate' = [fate EXCEPT ![UnsavedHead(u)] = "rejected"]
  <2> DEFINE y == Settled(tab[u])
             x == Cut(y)
  <2>1. y \in Tabs  BY <1>1, <1>4, SettledTabs
  <2>2. y.unsaved = Tail(tab[u].unsaved) /\ y.sender = "idle" /\ y.buffered = tab[u].buffered
    BY <1>1, <2>1 DEF Settled, Tabs
  <2>3. tab' = [tab EXCEPT ![u] = x]  BY <1>4
  <2> HIDE DEF y
  <2>4. x \in Tabs  BY <2>1, CutTabs
  <2>5. x.unsaved = y.unsaved /\ x.buffered = y.buffered /\ x.sender = "idle"
    BY <2>1, <2>2, <2>4 DEF Cut, Tabs
  <2> HIDE DEF x
  <2> QED  BY <1>1, <1>2, <1>4, <2>2, <2>3, <2>4, <2>5, OneSettledTab
<1> QED  BY <1>3, <1>4 DEF TabDisconnects

\* A restart cuts all tabs off at once; each gives its head up or keeps it.
LEMMA RestartMoves ==
  ASSUME TabsInv, TabsRestart
  PROVE  \E G \in SUBSET Users : Settles(G, "rejected")
<1> DEFINE after(t) == [t EXCEPT !.sync = IF @ \in {"fetching", "reading"} THEN "due" ELSE @]
<1>1. PICK G \in SUBSET {u \in Users : tab[u].sender = "waiting"} :
        /\ tab' = [u \in Users |-> after(Cut(IF u \in G THEN Settled(tab[u]) ELSE tab[u]))]
        /\ fate' = [o \in Ops |-> IF \E u \in G : UnsavedHead(u) = o THEN "rejected" ELSE fate[o]]
  BY DEF TabsRestart
<1>2. G \in SUBSET Users /\ UNCHANGED <<dbVars, typed>>  BY DEF TabsRestart, Restart
<1>3. ASSUME NEW u \in Users
      PROVE  /\ tab'[u] \in Tabs
             /\ tab'[u].sender # "idle" => tab'[u].unsaved # << >>
             /\ tab'[u].unsaved = IF u \in G THEN Tail(tab[u].unsaved) ELSE tab[u].unsaved
             /\ u \in G => tab[u].unsaved # << >>
             /\ SavedMessages(tab'[u])
  <2> DEFINE t == IF u \in G THEN Settled(tab[u]) ELSE tab[u]
             c == Cut(t)
             x == after(c)
  <2>1. /\ tab[u] \in Tabs /\ SavedMessages(tab[u])
        /\ u \in G => tab[u].sender = "waiting"
        /\ tab[u].sender # "idle" => tab[u].unsaved # << >>
    BY DEF TabsInv, TabsTyped, SenderHasHead, HeldBackIsSaved
  <2>2. /\ t \in Tabs /\ t.buffered = tab[u].buffered
        /\ t.unsaved = IF u \in G THEN Tail(tab[u].unsaved) ELSE tab[u].unsaved
        /\ t.sender # "idle" => t.unsaved # << >>
    <3>1. CASE u \in G
      <4>1. Settled(tab[u]) \in Tabs  BY <2>1, <3>1, SettledTabs
      <4>2. /\ Settled(tab[u]).unsaved = Tail(tab[u].unsaved) /\ Settled(tab[u]).sender = "idle"
            /\ Settled(tab[u]).buffered = tab[u].buffered
        BY <2>1, <4>1 DEF Settled, Tabs
      <4> QED  BY <3>1, <4>1, <4>2
    <3>2. CASE u \notin G  BY <2>1, <3>2
    <3> QED  BY <3>1, <3>2
  <2> HIDE DEF t
  <2>3. /\ c \in Tabs /\ c.buffered = t.buffered /\ c.unsaved = t.unsaved
        /\ c.sender # "idle" => c.sender = t.sender
    <3>1. c \in Tabs  BY <2>2, CutTabs
    <3> QED  BY <2>2, <3>1 DEF Cut, Tabs
  <2> HIDE DEF c
  <2>4. /\ x \in Tabs /\ x.buffered = c.buffered /\ x.unsaved = c.unsaved
        /\ x.sender = c.sender
    <3>1. (IF c.sync \in {"fetching", "reading"} THEN "due" ELSE c.sync) \in Phases
      BY <2>3 DEF Tabs, Phases
    <3> QED  BY <2>3, <3>1 DEF Tabs
  <2>5. tab'[u] = x  BY <1>1 DEF t, c
  <2> HIDE DEF x
  <2>6. SavedMessages(x)  BY <2>1, <2>2, <2>3, <2>4 DEF SavedMessages
  <2> QED  BY <2>1, <2>2, <2>3, <2>4, <2>5, <2>6
<1>4. tab' \in [Users -> Tabs]
  <2>1. tab' = [u \in Users |-> tab'[u]]  BY <1>1
  <2> QED  BY <1>3, <2>1
<1> QED  BY <1>1, <1>2, <1>3, <1>4 DEF Settles, TabsFit

LEMMA TabsMoves ==
  ASSUME TabsInv, ServerInv, SyncNext
  PROVE  TabsMove
<1> USE DEF ServerInv
<1>1. ASSUME UNCHANGED tabVars PROVE LeavesQueues
  BY <1>1 DEF tabVars, TabsInv, TabsTyped, SenderHasHead, HeldBackIsSaved, LeavesQueues,
              TabsFit, SavedMessages
<1>2. ASSUME NEW u \in Users, \E o \in Ops : Type(u, o) PROVE TabsMove
  BY <1>2, TypeMoves DEF TabsMove
<1>3. ASSUME NEW u \in Users, ReceiveAck(u) \/ AckTimeout(u) \/ TabDisconnects(u)
      PROVE  TabsMove
  <2>1. {u} \in SUBSET Users  OBVIOUS
  <2> QED  BY <1>3, <2>1, AckMoves, TimeoutMoves, DisconnectMoves DEF TabsMove
<1>4. ASSUME TabsRestart PROVE TabsMove
  BY <1>4, RestartMoves DEF TabsMove
<1>5. ASSUME NEW u \in Users,
             QueueStep(u) \/ ControllerStep(u) \/ Open(u) \/ TabConnects(u) \/ JoinTimeout(u)
      PROVE  TabsMove
  <2>1. CASE ReceiveAck(u)  BY <1>3, <2>1
  <2>2. CASE Mount(u) \/ ReceiveJoined(u) \/ ReceiveOp(u)
    BY <2>2, MountMoves, JoinedMoves, OpMoves DEF TabsMove
  <2>3. CASE ~ReceiveAck(u) /\ ~Mount(u) /\ ~ReceiveJoined(u) /\ ~ReceiveOp(u)
    BY <1>5, <2>3, SmallMoves DEF TabsMove, QueueStep, ControllerStep
  <2> QED  BY <2>1, <2>2, <2>3
<1> QED
  BY <1>1, <1>2, <1>3, <1>4, <1>5
     DEF SyncNext, SyncStep, UserStep, SyncFaults, TabsMove

\* To the server the tabs are clients like any others.
LEMMA SyncServer ==
  ASSUME TabsInv, ServerTypeOK, [SyncNext]_syncVars
  PROVE  [ServerMoves]_serverVars
<1>1. ASSUME NEW u \in Users, SendHead(u) PROVE ClientMoves(u)
  <2> DEFINE m == [type |-> "op", op |-> UnsavedHead(u), att |-> tab[u].att]
  <2>1. tab[u] \in Tabs  BY DEF TabsInv, TabsTyped
  <2>2. UnsavedHead(u) \in Ops /\ tab[u].att \in Attempts
    BY <1>1, <2>1, TabFields DEF SendHead, UnsavedHead
  <2>3. m \in ClientMessages  BY <2>2 DEF ClientMessages
  <2> QED  BY <1>1, <2>3 DEF SendHead, Sends, ClientMoves
<1>2. ASSUME NEW u \in Users, Attempt(u) PROVE ClientMoves(u)
  <2>1. PICK n \in Joins : Sends(u, [type |-> "join", n |-> n])  BY <1>2 DEF Attempt
  <2>2. [type |-> "join", n |-> n] \in ClientMessages  BY DEF ClientMessages
  <2> QED  BY <2>1, <2>2 DEF Sends, ClientMoves
<1>3. ASSUME NEW u \in Users,
             ReceiveJoined(u) \/ ReceiveOp(u) \/ ReceiveRevoked(u) \/ ReceiveChanged(u)
      PROVE  ClientMoves(u)
  BY <1>3 DEF ReceiveJoined, ReceiveOp, ReceiveRevoked, ReceiveChanged, Gets, ClientMoves
<1>4. ASSUME NEW u \in Users, ReceiveAck(u) PROVE ClientMoves(u)
  <2>1. [type |-> "join", n |-> Rejoin] \in ClientMessages
    BY RejoinIsAJoin DEF ClientMessages
  <2>2. inbox' = inbox \/ inbox' = Emit(inbox, u, [type |-> "join", n |-> Rejoin])
    BY <1>4 DEF ReceiveAck
  <2> QED  BY <1>4, <2>1, <2>2 DEF ReceiveAck, Gets, ClientMoves
<1>5. ASSUME NEW u \in Users, QueueStep(u) \/ ControllerStep(u)
      PROVE  UNCHANGED serverVars \/ ClientMoves(u)
  BY <1>1, <1>2, <1>3, <1>4, <1>5
     DEF QueueStep, ControllerStep, PauseOver, Drained, DrainTimeout, FetchRow,
         FetchCells, FetchFails, Mount
<1>6. ASSUME UserStep PROVE UNCHANGED serverVars \/ ServerMoves
  BY <1>6 DEF UserStep, Open, TabConnects, Type, ServerMoves
<1>7. ASSUME SyncFaults PROVE UNCHANGED serverVars \/ ServerMoves
  BY <1>7 DEF SyncFaults, TabsRestart, TabDisconnects, AckTimeout, JoinTimeout, ServerMoves,
              ServerFaults
<1>8. UNCHANGED syncVars => UNCHANGED serverVars  BY DEF syncVars
<1> QED
  BY <1>5, <1>6, <1>7, <1>8 DEF SyncNext, SyncStep, ServerMoves

\* What is saved stays where it is.
LEMMA LogOnlyGrows ==
  ASSUME ServerInv, [ServerMoves]_serverVars
  PROVE  /\ \A k \in DOMAIN log : k \in DOMAIN log' /\ log'[k] = log[k]
         /\ log' # log => \E i \in DOMAIN line :
              /\ OpCommit(i) \/ OpCommitLost(i)
              /\ i = 1 /\ line[i].op \in Ops /\ line[i].stage = "authorized"
              /\ log' = Append(log, line[i].op) /\ UNCHANGED <<status, assignment>>
              /\ content' = [content EXCEPT ![ItemOf[line[i].op]] = line[i].op]
              /\ DOMAIN log' = DOMAIN log \cup {Len(log) + 1}
              /\ Len(log) + 1 \notin DOMAIN log /\ log'[Len(log) + 1] = line[i].op
<1>1. CASE log' = log  BY <1>1
<1>2. CASE log' # log
  <2>1. PICK i \in DOMAIN line : OpCommit(i) \/ OpCommitLost(i)  BY <1>2, LogMoves
  <2>2. line[i] \in Tasks  BY TasksLeave DEF ServerInv, ServerTypeOK
  <2>3. /\ line[i].op \in Ops /\ log' = Append(log, line[i].op) /\ i = 1
        /\ line[i].stage = "authorized" /\ UNCHANGED <<status, assignment>>
        /\ content' = [content EXCEPT ![ItemOf[line[i].op]] = line[i].op]
    BY <2>1, <2>2 DEF OpCommit, OpCommitLost, Saved, Tasks, MayRun
  <2> QED  BY <2>1, <2>3, LogGrows
<1> QED  BY <1>1, <1>2

SyncInv == ServerInv /\ TabsInv

LEMMA SyncInvInit == SyncInit => SyncInv
<1> SUFFICES ASSUME SyncInit PROVE SyncInv  OBVIOUS
<1>1. ServerInv  BY ServerInvInit DEF SyncInit
<1>2. << >> \in Seq(Ops)  BY EmptySeq
<1>3. tab \in [Users -> Tabs]
  BY <1>2, RejoinIsAJoin, AttemptsStart DEF SyncInit, Tabs, Phases
<1>4. \A u \in Users : tab[u].sender = "idle" /\ tab[u].buffered = {}  BY DEF SyncInit
<1>5. fate \in [Ops -> {"untyped", "pending", "confirmed", "rejected"}]
      /\ typed \in [Users -> Seq(Ops)]
  BY <1>2 DEF SyncInit
<1> QED
  BY <1>1, <1>3, <1>4, <1>5
     DEF SyncInv, TabsInv, TabsTyped, SenderHasHead, HeldBackIsSaved, SavedMessages

\* Whatever moved, the tabs keep their shape.
LEMMA MovedTabs ==
  ASSUME TabsInv, TabsMove
  PROVE  TabsFit /\ TabsTyped'
<1>1. TabsFit  BY DEF TabsMove, LeavesQueues, Types, Settles
<1>2. CASE LeavesQueues
  BY <1>1, <1>2 DEF LeavesQueues, TabsFit, TabsInv, TabsTyped
<1>3. ASSUME NEW u \in Users, NEW o \in Ops, Types(u, o) PROVE TabsTyped'
  <2>1. typed[u] \in Seq(Ops) /\ Append(typed[u], o) \in Seq(Ops)
    BY AppendProperties DEF TabsInv, TabsTyped
  <2> QED  BY <1>1, <1>3, <2>1 DEF Types, TabsFit, TabsInv, TabsTyped
<1>4. ASSUME NEW G \in SUBSET Users, NEW word \in {"confirmed", "rejected"}, Settles(G, word)
      PROVE  TabsTyped'
  <2>1. fate' \in [Ops -> {"untyped", "pending", "confirmed", "rejected"}]
    BY <1>4 DEF Settles, TabsInv, TabsTyped
  <2> QED  BY <1>1, <1>4, <2>1 DEF Settles, TabsFit, TabsInv, TabsTyped
<1>5. \A u \in Users : {u} \in SUBSET Users  OBVIOUS
<1> QED  BY <1>1, <1>2, <1>3, <1>4, <1>5 DEF TabsMove

LEMMA SyncInvStep ==
  ASSUME SyncInv, [SyncNext]_syncVars
  PROVE  /\ SyncInv' /\ [ServerMoves]_serverVars
         /\ TabsMove \/ UNCHANGED syncVars
<1> USE DEF SyncInv
<1>1. [ServerMoves]_serverVars  BY SyncServer DEF ServerInv
<1>2. ServerInv'  BY <1>1, ServerInvStep
<1>3. TabsMove \/ UNCHANGED syncVars  BY TabsMoves
<1>4. CASE UNCHANGED syncVars
  <2>1. UNCHANGED <<tab, fate, typed, log>>
    BY <1>4 DEF syncVars, tabVars, serverVars, dbVars
  <2> QED
    BY <1>1, <1>2, <1>3, <2>1
       DEF TabsInv, TabsTyped, SenderHasHead, HeldBackIsSaved, SavedMessages
<1>5. CASE TabsMove
  <2>1. TabsFit /\ TabsTyped'  BY <1>5, MovedTabs
  <2>2. SenderHasHead'  BY <2>1 DEF TabsFit, SenderHasHead
  <2>3. HeldBackIsSaved'
    <3>1. \A k \in DOMAIN log : k \in DOMAIN log' /\ log'[k] = log[k]
      BY <1>1, LogOnlyGrows
    <3> QED  BY <2>1, <3>1 DEF TabsFit, HeldBackIsSaved, SavedMessages
  <2> QED  BY <1>1, <1>2, <1>3, <2>1, <2>2, <2>3 DEF TabsInv
<1> QED  BY <1>3, <1>4, <1>5

LEMMA SyncInvariance == SyncSpec => []SyncInv
<1>1. SyncInv /\ [SyncNext]_syncVars => SyncInv'  BY SyncInvStep
<1> QED  BY <1>1, SyncInvInit, PTL DEF SyncSpec

\* Every tab, and the server behind it, keeps its shape.
THEOREM SyncTypeCorrect == SyncSpec => []SyncTypeOK
<1>1. SyncInv => SyncTypeOK  BY DEF SyncInv, ServerInv, TabsInv, TabsTyped, SyncTypeOK
<1> QED  BY <1>1, SyncInvariance, PTL

----------------------------------------------------------------------------
(* The workbook is not replaced under an unsaved edit.                     *)

Loading == {"fetching", "reading", "mounting"}

\* One tab changes and does not begin to load with something unsaved.
LEMMA OneTabLoads ==
  ASSUME TabsTyped, MountDiscardsNothing, NEW u \in Users, NEW x,
         tab' = [tab EXCEPT ![u] = x], x.sync \in Loading => x.unsaved = << >>
  PROVE  MountDiscardsNothing'
<1>1. \A v \in Users : tab'[v] = IF v = u THEN x ELSE tab[v]  BY DEF TabsTyped
<1> QED  BY <1>1 DEF MountDiscardsNothing, Loading

LEMMA MountStep ==
  ASSUME SyncInv, MountDiscardsNothing, [SyncNext]_syncVars
  PROVE  MountDiscardsNothing'
<1> USE DEF Loading
<1>1. TabsTyped /\ tab \in [Users -> Tabs] /\ SenderHasHead
  BY DEF SyncInv, TabsInv, TabsTyped
<1>2. CASE UNCHANGED tab  BY <1>2 DEF MountDiscardsNothing
<1>3. ASSUME NEW u \in Users, NEW p, tab' = [tab EXCEPT ![u].sync = p],
             p \in Loading => tab[u].sync \in Loading \/ tab[u].unsaved = << >>
      PROVE  MountDiscardsNothing'
  <2> DEFINE x == [tab[u] EXCEPT !.sync = p]
  <2>1. tab' = [tab EXCEPT ![u] = x]  BY <1>1, <1>3
  <2>2. x.sync = p /\ x.unsaved = tab[u].unsaved  BY <1>1 DEF Tabs
  <2> HIDE DEF x
  <2> QED  BY <1>1, <1>3, <2>1, <2>2, OneTabLoads DEF MountDiscardsNothing
<1>4. ASSUME NEW u \in Users, NEW x, tab' = [tab EXCEPT ![u] = x], x.sync = tab[u].sync,
             x.unsaved = tab[u].unsaved \/ tab[u].unsaved # << >> \/ tab[u].sync \notin Loading
      PROVE  MountDiscardsNothing'
  BY <1>1, <1>4, OneTabLoads DEF MountDiscardsNothing
<1>5. ASSUME NEW u \in Users,
             \/ Open(u) \/ JoinTimeout(u) \/ Drained(u) \/ DrainTimeout(u) \/ FetchFails(u)
      PROVE  MountDiscardsNothing'
  BY <1>3, <1>5 DEF Open, JoinTimeout, Drained, DrainTimeout, FetchFails
<1> DEFINE Elsewhere(u, x) ==
      /\ tab' = [tab EXCEPT ![u] = x]
      /\ \/ x.sync \notin Loading
         \/ x.sync \in Loading /\ tab[u].sync \in Loading /\ x.unsaved = tab[u].unsaved
<1>6. ASSUME NEW u \in Users, NEW x, Elsewhere(u, x)
      PROVE  MountDiscardsNothing'
  BY <1>1, <1>6, OneTabLoads DEF MountDiscardsNothing
<1>7. ASSUME NEW u \in Users, NEW o \in Ops, Type(u, o) PROVE MountDiscardsNothing'
  <2> DEFINE x == [tab[u] EXCEPT !.screen[ItemOf[o]] = o, !.unsaved = Append(@, o)]
  <2>1. tab' = [tab EXCEPT ![u] = x]  BY <1>1, <1>7 DEF Type
  <2>2. x.sync = "live"  BY <1>1, <1>7 DEF Type, Tabs
  <2> HIDE DEF x
  <2> QED  BY <1>6, <2>1, <2>2
<1>8. ASSUME NEW u \in Users, Attempt(u) PROVE MountDiscardsNothing'
  <2>1. PICK n \in Joins : tab' = [tab EXCEPT ![u].sync = "joining", ![u].joinNo = n,
                                              ![u].buffered = {}]
    BY <1>8 DEF Attempt
  <2> DEFINE x == [tab[u] EXCEPT !.sync = "joining", !.joinNo = n, !.buffered = {}]
  <2>2. tab' = [tab EXCEPT ![u] = x]  BY <1>1, <2>1
  <2>3. x.sync = "joining"  BY <1>1 DEF Tabs
  <2> HIDE DEF x
  <2> QED  BY <1>6, <2>2, <2>3
<1>9. ASSUME NEW u \in Users, FetchRow(u) PROVE MountDiscardsNothing'
  <2> DEFINE x == [tab[u] EXCEPT !.sync = "reading", !.snap = Len(log),
                                 !.granted = Access(u) = "edit"]
  <2>1. tab' = [tab EXCEPT ![u] = x]  BY <1>1, <1>9 DEF FetchRow
  <2>2. x.sync = "reading" /\ x.unsaved = tab[u].unsaved /\ tab[u].sync = "fetching"
    BY <1>1, <1>9 DEF FetchRow, Tabs
  <2> HIDE DEF x
  <2> QED  BY <1>6, <2>1, <2>2
<1>10. ASSUME NEW u \in Users, FetchCells(u) PROVE MountDiscardsNothing'
  <2> DEFINE x == [tab[u] EXCEPT !.sync = "mounting", !.cells = content]
  <2>1. tab' = [tab EXCEPT ![u] = x]  BY <1>1, <1>10 DEF FetchCells
  <2>2. x.sync = "mounting" /\ x.unsaved = tab[u].unsaved /\ tab[u].sync = "reading"
    BY <1>1, <1>10 DEF FetchCells, Tabs
  <2> HIDE DEF x
  <2> QED  BY <1>6, <2>1, <2>2
<1>11. ASSUME NEW u \in Users, Mount(u) PROVE MountDiscardsNothing'
  <2> DEFINE t == tab[u]
             x == [t EXCEPT !.screen = Replay(t), !.buffered = {},
                            !.cells = [i \in Items |-> Blank],
                            !.editable = t.granted, !.rerun = FALSE,
                            !.sync = IF t.rerun THEN "due" ELSE "live",
                            !.first = @ \/ ~t.rerun]
  <2>1. tab' = [tab EXCEPT ![u] = x]  BY <1>1, <1>11 DEF Mount
  <2>2. x.sync = IF t.rerun THEN "due" ELSE "live"  BY <1>1 DEF Tabs
  <2> HIDE DEF x
  <2> QED  BY <1>6, <2>1, <2>2
<1>12. ASSUME NEW u \in Users, SendHead(u) \/ PauseOver(u) PROVE MountDiscardsNothing'
  <2>1. PICK s \in {"idle", "waiting"} : tab' = [tab EXCEPT ![u].sender = s]
    BY <1>12 DEF SendHead, PauseOver
  <2> DEFINE x == [tab[u] EXCEPT !.sender = s]
  <2>2. tab' = [tab EXCEPT ![u] = x]  BY <1>1, <2>1
  <2>3. x.sync = tab[u].sync /\ x.unsaved = tab[u].unsaved  BY <1>1 DEF Tabs
  <2> HIDE DEF x
  <2> QED  BY <1>4, <2>2, <2>3
<1>13. ASSUME NEW u \in Users, ReceiveRevoked(u) PROVE MountDiscardsNothing'
  <2> DEFINE x == [tab[u] EXCEPT !.shut = TRUE, !.online = FALSE]
  <2>1. tab' = [tab EXCEPT ![u] = x]  BY <1>1, <1>13 DEF ReceiveRevoked
  <2>2. x.sync = tab[u].sync /\ x.unsaved = tab[u].unsaved  BY <1>1 DEF Tabs
  <2> HIDE DEF x
  <2> QED  BY <1>4, <2>1, <2>2
<1>14. ASSUME NEW u \in Users, ReceiveChanged(u) PROVE MountDiscardsNothing'
  <2> DEFINE x == [tab[u] EXCEPT !.editable = Message(u).permission = "edit"]
  <2>1. tab' = [tab EXCEPT ![u] = x]  BY <1>1, <1>14 DEF ReceiveChanged
  <2>2. x.sync = tab[u].sync /\ x.unsaved = tab[u].unsaved  BY <1>1 DEF Tabs
  <2> HIDE DEF x
  <2> QED  BY <1>4, <2>1, <2>2
<1>15. ASSUME NEW u \in Users, TabConnects(u) PROVE MountDiscardsNothing'
  <2>1. PICK x \in {tab[u], [tab[u] EXCEPT !.sync = "due"], [tab[u] EXCEPT !.rerun = TRUE]} :
          tab' = [tab EXCEPT ![u] = x]
    BY <1>15 DEF TabConnects
  <2>2. x.sync = "due" \/ (x.sync = tab[u].sync /\ x.unsaved = tab[u].unsaved)
    BY <1>1 DEF Tabs
  <2> QED  BY <1>4, <1>6, <2>1, <2>2
<1>16. ASSUME NEW u \in Users, ReceiveJoined(u) PROVE MountDiscardsNothing'
  <2> DEFINE m == Message(u)
             t == tab[u]
             on == IF t.unsaved = << >> THEN "fetching" ELSE "draining"
             again == [t EXCEPT !.sync = "due", !.rerun = FALSE]
             x == IF t.sync = "joining" /\ m.n = t.joinNo
                  THEN CASE m.code = "OK" -> [t EXCEPT !.online = TRUE, !.sync = on]
                         [] m.code = "SERVER_ERROR" -> [t EXCEPT !.sync = "due"]
                         [] m.code = "NOT_FOUND" /\ t.rerun -> [again EXCEPT !.shut = TRUE]
                         [] OTHER -> [t EXCEPT !.sync = "revoked", !.shut = TRUE, !.first = TRUE]
                  ELSE t
  <2>1. tab' = [tab EXCEPT ![u] = x]  BY <1>1, <1>16 DEF ReceiveJoined
  <2>2. x \in {t, [t EXCEPT !.online = TRUE, !.sync = on], [t EXCEPT !.sync = "due"],
               [again EXCEPT !.shut = TRUE],
               [t EXCEPT !.sync = "revoked", !.shut = TRUE, !.first = TRUE]}
    OBVIOUS
  <2> DEFINE Fits(y) == y.sync \in Loading => y.unsaved = << >>
  <2>3. Fits(t)  BY DEF MountDiscardsNothing
  <2>4. Fits([t EXCEPT !.online = TRUE, !.sync = on])  BY <1>1 DEF Tabs
  <2>5. Fits([t EXCEPT !.sync = "due"])  BY <1>1 DEF Tabs
  <2>6. Fits([again EXCEPT !.shut = TRUE])  BY <1>1 DEF Tabs
  <2>7. Fits([t EXCEPT !.sync = "revoked", !.shut = TRUE, !.first = TRUE])  BY <1>1 DEF Tabs
  <2> HIDE DEF x, on, again, Fits
  <2>8. Fits(x)  BY <2>2, <2>3, <2>4, <2>5, <2>6, <2>7
  <2> QED  BY <1>1, <2>1, <2>8, OneTabLoads DEF Fits
<1>17. ASSUME NEW u \in Users, ReceiveOp(u) PROVE MountDiscardsNothing'
  <2> DEFINE m == Message(u)
             t == tab[u]
  <2>1. PICK x \in {t, [t EXCEPT !.screen[ItemOf[m.op]] = m.op],
                    [t EXCEPT !.buffered = @ \cup {m}]} : tab' = [tab EXCEPT ![u] = x]
    <3>1. CASE t.sync = "live"  BY <1>1, <1>17, <3>1 DEF ReceiveOp, ApplyOp
    <3>2. CASE t.sync \in {"off", "due", "revoked"}  BY <1>1, <1>17, <3>2 DEF ReceiveOp
    <3>3. CASE t.sync \notin {"live", "off", "due", "revoked"}
      BY <1>1, <1>17, <3>3 DEF ReceiveOp
    <3> QED  BY <3>1, <3>2, <3>3
  <2>2. x.sync = t.sync /\ x.unsaved = t.unsaved
    <3> HIDE DEF m
    <3> QED  BY <1>1 DEF Tabs
  <2> QED  BY <1>4, <2>1, <2>2
\* Whoever waits for an answer has something unsaved.
<1>18. ASSUME NEW u \in Users, tab[u].sender = "waiting", tab' = [tab EXCEPT ![u] = Settled(@)]
       PROVE  MountDiscardsNothing'
  <2> DEFINE x == Settled(tab[u])
  <2>1. tab' = [tab EXCEPT ![u] = x]  BY <1>18
  <2>2. x.sync = tab[u].sync /\ tab[u].unsaved # << >>
    BY <1>1, <1>18 DEF Tabs, Settled, SenderHasHead
  <2> HIDE DEF x
  <2> QED  BY <1>4, <2>1, <2>2
<1>19. ASSUME NEW u \in Users, ReceiveAck(u) PROVE MountDiscardsNothing'
  <2> DEFINE t == tab[u]
  <2>1. CASE t.sender = "waiting" /\ tab' = [tab EXCEPT ![u] = Settled(@)]  BY <1>18, <2>1
  <2>2. CASE \E s \in {"idle", "pausing"} : tab' = [tab EXCEPT ![u] = [t EXCEPT !.sender = s]]
    <3>1. PICK s : tab' = [tab EXCEPT ![u] = [t EXCEPT !.sender = s]]  BY <2>2
    <3> DEFINE x == [t EXCEPT !.sender = s]
    <3>2. x.sync = t.sync /\ x.unsaved = t.unsaved  BY <1>1 DEF Tabs
    <3>3. tab' = [tab EXCEPT ![u] = x]  BY <3>1
    <3> HIDE DEF x
    <3> QED  BY <1>4, <3>2, <3>3
  <2>3. CASE UNCHANGED tab  BY <1>2, <2>3
  <2> QED  BY <1>1, <1>19, <2>1, <2>2, <2>3 DEF ReceiveAck, RetryOrGiveUp
<1>20. ASSUME NEW u \in Users, AckTimeout(u) PROVE MountDiscardsNothing'
  <2> DEFINE x == [tab[u] EXCEPT !.sender = "pausing", !.att = @ + 1]
  <2>1. x.sync = tab[u].sync /\ x.unsaved = tab[u].unsaved  BY <1>1 DEF Tabs
  <2>2. RetryOrGiveUp(u, x) /\ tab[u].sender = "waiting"  BY <1>20 DEF AckTimeout
  <2> HIDE DEF x
  <2> QED  BY <1>4, <1>18, <2>1, <2>2 DEF RetryOrGiveUp
\* A tab that was cut off loads what it was loading, if anything.
<1>21. ASSUME NEW t \in Tabs, t.sync \in Loading => t.unsaved = << >>
       PROVE  /\ Cut(t).sync \in Loading => Cut(t).unsaved = << >>
              /\ t.unsaved # << >> =>
                   (Cut(Settled(t)).sync \in Loading => Cut(Settled(t)).unsaved = << >>)
  <2>1. Cut(t).unsaved = t.unsaved /\ Cut(t).sync = IF t.sync = "joining" THEN "due" ELSE t.sync
    BY DEF Cut, Tabs
  <2>2. ASSUME t.unsaved # << >> PROVE Cut(Settled(t)).sync \notin Loading
    <3> DEFINE y == Settled(t)
    <3>1. y \in Tabs  BY <2>2, SettledTabs
    <3>2. y.sync = t.sync  BY DEF Settled, Tabs
    <3> HIDE DEF y
    <3>3. Cut(y).sync = IF y.sync = "joining" THEN "due" ELSE y.sync  BY <3>1 DEF Cut, Tabs
    <3> QED  BY <1>21, <2>2, <3>2, <3>3 DEF y
  <2> QED  BY <1>21, <2>1, <2>2
<1>22. ASSUME NEW u \in Users, TabDisconnects(u) PROVE MountDiscardsNothing'
  <2>1. /\ tab[u] \in Tabs
        /\ tab[u].sync \in Loading => tab[u].unsaved = << >>
        /\ tab[u].sender = "waiting" => tab[u].unsaved # << >>
    BY <1>1 DEF MountDiscardsNothing, SenderHasHead
  <2>2. CASE tab' = [tab EXCEPT ![u] = Cut(@)]
    <3>1. tab' = [tab EXCEPT ![u] = Cut(tab[u])]  BY <1>1, <2>2
    <3> QED  BY <1>1, <1>21, <2>1, <3>1, OneTabLoads
  <2>3. CASE tab[u].sender = "waiting" /\ tab' = [tab EXCEPT ![u] = Cut(Settled(@))]
    <3>1. tab' = [tab EXCEPT ![u] = Cut(Settled(tab[u]))]  BY <1>1, <2>3
    <3> QED  BY <1>1, <1>21, <2>1, <2>3, <3>1, OneTabLoads
  <2> QED  BY <1>22, <2>2, <2>3 DEF TabDisconnects
<1>23. ASSUME TabsRestart PROVE MountDiscardsNothing'
  <2> DEFINE after(t) == [t EXCEPT !.sync = IF @ \in {"fetching", "reading"} THEN "due" ELSE @]
  <2>1. PICK G \in SUBSET {u \in Users : tab[u].sender = "waiting"} :
          tab' = [u \in Users |-> after(Cut(IF u \in G THEN Settled(tab[u]) ELSE tab[u]))]
    BY <1>23 DEF TabsRestart
  <2>2. ASSUME NEW u \in Users, tab'[u].sync \in Loading PROVE tab'[u].unsaved = << >>
    <3>1. /\ tab[u] \in Tabs
          /\ tab[u].sync \in Loading => tab[u].unsaved = << >>
          /\ tab[u].sender = "waiting" => tab[u].unsaved # << >>
      BY <1>1 DEF MountDiscardsNothing, SenderHasHead
    <3> DEFINE c == Cut(IF u \in G THEN Settled(tab[u]) ELSE tab[u])
    <3>2. c.sync \in Loading => c.unsaved = << >>  BY <1>21, <2>1, <3>1
    <3>3. c \in Tabs
      <4>1. tab[u].unsaved # << >> => Cut(Settled(tab[u])) \in Tabs
        BY <3>1, SettledTabs, CutTabs
      <4> QED  BY <2>1, <3>1, <4>1, CutTabs
    <3>4. tab'[u] = after(c)  BY <2>1
    <3> HIDE DEF c
    <3>5. after(c).unsaved = c.unsaved /\ (after(c).sync \in Loading => c.sync \in Loading)
      BY <3>3 DEF Tabs
    <3> QED  BY <2>2, <3>2, <3>4, <3>5
  <2> QED  BY <2>2 DEF MountDiscardsNothing
<1>24. ASSUME NEW u \in Users, QueueStep(u) \/ ControllerStep(u) PROVE MountDiscardsNothing'
  BY <1>5, <1>8, <1>9, <1>10, <1>11, <1>12, <1>13, <1>14, <1>16, <1>17, <1>19, <1>24
     DEF QueueStep, ControllerStep
<1> QED
  BY <1>2, <1>5, <1>7, <1>15, <1>20, <1>22, <1>23, <1>24
     DEF SyncNext, SyncStep, UserStep, SyncFaults, tabVars, syncVars

\* The workbook on a screen is never replaced while an edit of its user is unsaved.
THEOREM EditsAreKept == SyncSpec => []MountDiscardsNothing
<1>1. SyncInit => MountDiscardsNothing  BY DEF SyncInit, MountDiscardsNothing
<1>2. SyncInv /\ MountDiscardsNothing /\ [SyncNext]_syncVars => MountDiscardsNothing'
  BY MountStep
<1> QED  BY <1>1, <1>2, SyncInvariance, PTL DEF SyncSpec

----------------------------------------------------------------------------
(* Edits are saved in the order they were typed.                           *)

\* A change is under way once its editor has sent it, and saved in the end.
Sent(o) == \E u \in Users : \E k \in DOMAIN inbox[u] :
             inbox[u][k].type = "op" /\ inbox[u][k].op = o
Queued(o) == \E i \in DOMAIN line : line[i].op = o
InLog(o) == \E p \in DOMAIN log : log[p] = o
InFlight(o) == Sent(o) \/ Queued(o) \/ InLog(o)

LEMMA LineMoves ==
  ASSUME [ServerMoves]_serverVars, line' # line
  PROVE  \/ \E u \in Users : OpArrives(u) /\ line' = Append(line, Request(u, Head(inbox[u])))
         \/ \E u \in Users : Disconnect(u)
         \/ Restart
         \/ \E i \in DOMAIN line : OpStep(i) \/ OpCommitLost(i)
<1> USE DEF dbVars, lineVars, socketVars, serverVars
<1>1. \A u \in Users : OpArrives(u) => line' = Append(line, Request(u, Head(inbox[u])))
  BY DEF OpArrives
<1> QED
  BY <1>1 DEF ServerMoves, ServerStep, ServerFaults, Management, Arrival, Connect, Forget,
         JoinArrives, JoinStep, JoinCheck, JoinEnters, JoinRecheck, JoinAnswers, JoinFails,
         LeaveArrives, OpRateLimited, Assign, Unassign, SetStatus, SetAccount, Evict, ClientMoves

\* Only a change that was sent gets into the queue.
LEMMA QueuedWasSent ==
  ASSUME ServerTypeOK, [ServerMoves]_serverVars, NEW o, Queued(o)'
  PROVE  Sent(o) \/ Queued(o)
<1>1. CASE line' = line  BY <1>1 DEF Queued
<1>2. /\ line \in Seq(Tasks) /\ Len(line) \in Nat /\ DOMAIN line = 1..Len(line)
      /\ \A k \in DOMAIN line : line[k] \in Tasks
  BY LenProperties DEF ServerTypeOK
<1>3. ASSUME NEW u \in Users, OpArrives(u), line' = Append(line, Request(u, Head(inbox[u])))
      PROVE  Sent(o) \/ Queued(o)
  <2> DEFINE t == Request(u, Head(inbox[u]))
  <2>1. t \in Tasks  BY <1>3, ArrivalTypes DEF OpArrives
  <2>2. /\ inbox[u] # << >> /\ Head(inbox[u]).type = "op" /\ t.op = Head(inbox[u]).op
    BY <1>3 DEF OpArrives, Arrives, Request
  <2>3. 1 \in DOMAIN inbox[u] /\ Head(inbox[u]) = inbox[u][1]
    BY <2>2, HeadTailProperties, LenProperties, EmptySeq DEF ServerTypeOK
  <2>4. PICK i \in DOMAIN line' : line'[i].op = o  BY DEF Queued
  <2> HIDE DEF t
  <2>5. CASE i = Len(line) + 1
    <3>1. line'[i] = t  BY <1>2, <1>3, <2>1, <2>5, AppendProperties DEF t
    <3> QED  BY <2>2, <2>3, <2>4, <3>1 DEF Sent
  <2>6. CASE i # Len(line) + 1
    <3>1. i \in DOMAIN line /\ line'[i] = line[i]
      BY <1>2, <1>3, <2>1, <2>6, AppendProperties DEF t
    <3> QED  BY <2>4, <3>1 DEF Queued
  <2> QED  BY <2>5, <2>6
<1>4. ASSUME NEW u \in Users, Disconnect(u) PROVE Queued(o)
  <2>1. \A i \in DOMAIN line : [line[i] EXCEPT !.alive = @ /\ line[i].user # u].op = line[i].op
    BY <1>2 DEF Tasks
  <2> QED  BY <1>4, <2>1 DEF Disconnect, Queued
<1>5. ~Restart  BY DEF Restart, Queued
<1>6. ASSUME NEW i \in DOMAIN line, line' = RemoveAt(line, i) PROVE Queued(o)
  <2>1. \A k \in DOMAIN line' : line'[k] = line[IF k < i THEN k ELSE k + 1]
    BY <1>2, <1>6, RemoveAtFacts
  <2>2. DOMAIN line' = 1..(Len(line) - 1)
    BY <1>2, <1>6, RemoveAtFacts, LenProperties
  <2>3. \A k \in DOMAIN line' : (IF k < i THEN k ELSE k + 1) \in DOMAIN line
    BY <1>2, <2>2
  <2> QED  BY <2>1, <2>3 DEF Queued
<1>7. ASSUME NEW i \in DOMAIN line, OpAuthorize(i) \/ OpCommit(i) PROVE Queued(o)
  <2>1. PICK x : line' = [line EXCEPT ![i] = x] /\ x.op = line[i].op
    <3>1. [line[i] EXCEPT !.stage = "authorized"].op = line[i].op  BY <1>2 DEF Tasks
    <3>2. [line[i] EXCEPT !.stage = "committed", !.rev = Len(log) + 1].op = line[i].op
      BY <1>2 DEF Tasks
    <3> QED  BY <1>2, <1>7, <3>1, <3>2 DEF OpAuthorize, OpCommit
  <2> QED  BY <1>2, <2>1 DEF Queued
<1>8. ASSUME NEW i \in DOMAIN line, OpStep(i) \/ OpCommitLost(i) PROVE Queued(o)
  <2>1. CASE OpAuthorize(i) \/ OpCommit(i)  BY <1>7, <2>1
  <2>2. CASE line' = RemoveAt(line, i)  BY <1>6, <2>2
  <2> QED
    BY <1>8, <2>1, <2>2 DEF OpStep, OpDuplicate, OpReadOnly, OpNotFound, OpNotWritable,
                            OpFails, OpAnnounce, OpCommitLost
<1> QED  BY <1>1, <1>3, <1>4, <1>5, <1>8, LineMoves

\* What a tab sends is the head of its queue.
LEMMA SentWasHead ==
  ASSUME SyncInv, [SyncNext]_syncVars, NEW o, Sent(o)'
  PROVE  Sent(o) \/ \E u \in Users : tab[u].unsaved # << >> /\ UnsavedHead(u) = o
<1> USE DEF dbVars, lineVars, socketVars, serverVars
<1>1. inbox \in [Users -> Seq(ClientMessages)]  BY DEF SyncInv, ServerInv, ServerTypeOK
<1>2. ASSUME UNCHANGED inbox PROVE Sent(o)  BY <1>2 DEF Sent
<1>3. ASSUME NEW u \in Users, NEW kind, Arrives(u, kind) PROVE Sent(o)
  <2>0. PICK v \in Users : \E k \in DOMAIN inbox'[v] :
          inbox'[v][k].type = "op" /\ inbox'[v][k].op = o
    BY DEF Sent
  <2>1. PICK k \in DOMAIN inbox'[v] : inbox'[v][k].type = "op" /\ inbox'[v][k].op = o
    BY <2>0
  <2>2. CASE v # u  BY <1>1, <1>3, <2>1, <2>2 DEF Arrives, Sent
  <2>3. CASE v = u
    <3>1. inbox[u] # << >> /\ inbox'[v] = Tail(inbox[u])
      BY <1>1, <1>3, <2>3 DEF Arrives
    <3>2. k + 1 \in DOMAIN inbox[u] /\ inbox'[v][k] = inbox[u][k + 1]
      BY <1>1, <3>1, HeadTailProperties, LenProperties
    <3> QED  BY <2>1, <3>2 DEF Sent
  <2> QED  BY <2>2, <2>3
<1>4. ASSUME NEW u \in Users, NEW m \in ClientMessages, inbox' = Emit(inbox, u, m),
             m.type # "op" \/ m.op # o
      PROVE  Sent(o)
  <2>0. PICK v \in Users : \E k \in DOMAIN inbox'[v] :
          inbox'[v][k].type = "op" /\ inbox'[v][k].op = o
    BY DEF Sent
  <2>1. PICK k \in DOMAIN inbox'[v] : inbox'[v][k].type = "op" /\ inbox'[v][k].op = o
    BY <2>0
  <2>2. CASE v # u  BY <1>1, <1>4, <2>1, <2>2 DEF Emit, Sent
  <2>3. CASE v = u
    <3>1. inbox'[v] = Append(inbox[u], m) /\ inbox[u] \in Seq(ClientMessages)
      BY <1>1, <1>4, <2>3 DEF Emit
    <3>2. k # Len(inbox[u]) + 1  BY <1>4, <2>1, <3>1, AppendProperties
    <3>3. k \in DOMAIN inbox[u] /\ inbox'[v][k] = inbox[u][k]
      BY <3>1, <3>2, AppendProperties, LenProperties
    <3> QED  BY <2>1, <3>3 DEF Sent
  <2> QED  BY <2>2, <2>3
<1>5. ASSUME NEW u \in Users, SendHead(u), UnsavedHead(u) # o PROVE Sent(o)
  <2> DEFINE m == [type |-> "op", op |-> UnsavedHead(u), att |-> tab[u].att]
  <2>1. tab[u] \in Tabs  BY DEF SyncInv, TabsInv, TabsTyped
  <2>2. UnsavedHead(u) \in Ops /\ tab[u].att \in Attempts
    BY <1>5, <2>1, TabFields DEF SendHead, UnsavedHead
  <2>3. m \in ClientMessages /\ m.op # o  BY <1>5, <2>2 DEF ClientMessages
  <2>4. inbox' = Emit(inbox, u, m)  BY <1>5 DEF SendHead, Sends
  <2> HIDE DEF m
  <2> QED  BY <1>4, <2>3, <2>4
<1>6. ASSUME NEW u \in Users, NEW n \in Joins, inbox' = Emit(inbox, u, [type |-> "join", n |-> n])
      PROVE  Sent(o)
  <2> DEFINE m == [type |-> "join", n |-> n]
  <2>1. m \in ClientMessages /\ m.type # "op"  BY DEF ClientMessages
  <2> HIDE DEF m
  <2> QED  BY <1>4, <1>6, <2>1 DEF m
<1>7. ASSUME NEW u \in Users, ReceiveAck(u) \/ Attempt(u) PROVE Sent(o)
  BY <1>2, <1>6, <1>7, RejoinIsAJoin DEF ReceiveAck, Attempt, Sends
<1>8. ASSUME NEW u \in Users, Disconnect(u) PROVE Sent(o)
  <2>1. \A v \in Users : inbox'[v] = inbox[v] \/ inbox'[v] = << >>
    BY <1>1, <1>8 DEF Disconnect
  <2> QED  BY <2>1 DEF Sent
<1>9. ~Restart  BY DEF Restart, Sent
<1>10. ASSUME NEW u \in Users, QueueStep(u) \/ ControllerStep(u), ~SendHead(u) PROVE Sent(o)
  BY <1>2, <1>7, <1>10
     DEF QueueStep, ControllerStep, PauseOver, Drained, DrainTimeout, FetchRow, FetchCells,
         FetchFails, Mount, ReceiveJoined, ReceiveOp, ReceiveRevoked, ReceiveChanged
<1>11. ASSUME ServerStep \/ Management PROVE Sent(o)
  <2>1. UNCHANGED inbox \/ \E u \in Users, kind \in {"join", "leave", "op"} : Arrives(u, kind)
    BY ZenonT(40), <1>11 DEF ServerStep, Management, Arrival, JoinArrives, LeaveArrives, OpArrives,
         OpRateLimited, JoinStep, JoinCheck, JoinEnters, JoinRecheck, JoinAnswers, JoinFails,
         OpStep, OpDuplicate, OpAuthorize, OpReadOnly, OpNotFound, OpCommit, OpNotWritable,
         OpFails, OpAnnounce, Evict, Assign, Unassign, SetStatus, SetAccount
  <2> QED  BY SMTT(30), <1>2, <1>3, <2>1
<1>12. ASSUME UserStep \/ SyncFaults PROVE Sent(o)
  BY <1>2, <1>8, <1>9, <1>12
     DEF UserStep, Open, TabConnects, Connect, Type, SyncFaults, TabsRestart, TabDisconnects,
         AckTimeout, JoinTimeout, Forget, OpCommitLost
<1>13. UNCHANGED syncVars => Sent(o)  BY <1>2 DEF syncVars
<1>14. ASSUME NEW u \in Users, SendHead(u) PROVE tab[u].unsaved # << >>
  BY <1>14 DEF SendHead
<1> QED  BY <1>5, <1>10, <1>11, <1>12, <1>13, <1>14 DEF SyncNext, SyncStep

LEMMA FlightStep ==
  ASSUME SyncInv, [SyncNext]_syncVars, NEW o, InFlight(o)'
  PROVE  InFlight(o) \/ \E u \in Users : tab[u].unsaved # << >> /\ UnsavedHead(u) = o
<1>1. ServerInv /\ ServerTypeOK /\ [ServerMoves]_serverVars
  BY SyncInvStep DEF SyncInv, ServerInv
<1>2. CASE Sent(o)'  BY <1>2, SentWasHead DEF InFlight
<1>3. CASE Queued(o)'  BY <1>1, <1>3, QueuedWasSent DEF InFlight
<1>4. CASE InLog(o)'
  <2>1. CASE log' = log  BY <1>4, <2>1 DEF InLog, InFlight
  <2>2. CASE log' # log
    <3>1. PICK i \in DOMAIN line : /\ DOMAIN log' = DOMAIN log \cup {Len(log) + 1}
                                   /\ log'[Len(log) + 1] = line[i].op
      BY <1>1, <2>2, LogOnlyGrows
    <3>2. \A k \in DOMAIN log : log'[k] = log[k]  BY <1>1, LogOnlyGrows
    <3> QED  BY <1>4, <3>1, <3>2 DEF InLog, Queued, InFlight
  <2> QED  BY <2>1, <2>2
<1> QED  BY <1>2, <1>3, <1>4 DEF InFlight

\* The unsaved edits are the last ones typed.
IsEndOf(U, T) ==
  /\ Len(U) <= Len(T)
  /\ \A k \in 1..Len(U) : U[k] = T[Len(T) - Len(U) + k]

LEMMA EndGrows ==
  ASSUME NEW U \in Seq(Ops), NEW T \in Seq(Ops), IsEndOf(U, T), NEW o \in Ops
  PROVE  /\ IsEndOf(Append(U, o), Append(T, o))
         /\ Len(Append(T, o)) - Len(Append(U, o)) = Len(T) - Len(U)
         /\ Len(Append(T, o)) = Len(T) + 1 /\ Append(T, o)[Len(T) + 1] = o
         /\ \A k \in 1..Len(T) : Append(T, o)[k] = T[k]
<1>1. /\ Len(U) \in Nat /\ Len(T) \in Nat
      /\ Len(Append(U, o)) = Len(U) + 1 /\ Append(U, o)[Len(U) + 1] = o
      /\ \A k \in 1..Len(U) : Append(U, o)[k] = U[k]
      /\ Len(Append(T, o)) = Len(T) + 1 /\ Append(T, o)[Len(T) + 1] = o
      /\ \A k \in 1..Len(T) : Append(T, o)[k] = T[k]
  BY AppendProperties, LenProperties
<1> DEFINE V == Append(U, o)
           W == Append(T, o)
<1> HIDE DEF V, W
<1>2. ASSUME NEW k \in 1..Len(V) PROVE V[k] = W[Len(W) - Len(V) + k]
  <2>1. CASE k = Len(U) + 1  BY <1>1, <2>1 DEF V, W
  <2>2. CASE k \in 1..Len(U)
    <3>1. Len(W) - Len(V) + k = Len(T) - Len(U) + k /\ Len(T) - Len(U) + k \in 1..Len(T)
      BY <1>1, <2>2 DEF V, W, IsEndOf
    <3> QED  BY <1>1, <2>2, <3>1 DEF V, W, IsEndOf
  <2> QED  BY <1>1, <1>2, <2>1, <2>2 DEF V
<1>3. IsEndOf(V, W)
  <2>1. Len(V) <= Len(W)  BY <1>1 DEF V, W, IsEndOf
  <2> QED  BY <1>2, <2>1 DEF IsEndOf
<1> QED  BY <1>1, <1>3 DEF V, W

LEMMA EndShrinks ==
  ASSUME NEW U \in Seq(Ops), NEW T \in Seq(Ops), IsEndOf(U, T), U # << >>
  PROVE  /\ IsEndOf(Tail(U), T)
         /\ Len(T) - Len(Tail(U)) = Len(T) - Len(U) + 1
         /\ Len(T) - Len(U) + 1 \in 1..Len(T)
         /\ Head(U) = T[Len(T) - Len(U) + 1]
         /\ \A k \in 1..Len(Tail(U)) : Tail(U)[k] = U[k + 1] /\ k + 1 \in 1..Len(U)
<1>1. /\ Len(U) \in Nat /\ Len(T) \in Nat /\ Len(U) > 0
      /\ Len(Tail(U)) = Len(U) - 1 /\ Head(U) = U[1]
      /\ \A k \in 1..(Len(U) - 1) : Tail(U)[k] = U[k + 1]
  BY HeadTailProperties, LenProperties, EmptySeq
<1> QED  BY <1>1 DEF IsEndOf

Done(u) == Len(typed[u]) - Len(tab[u].unsaved)

\* An edit is queued until it is settled, and stays in its place till then.
QueueIsEnd ==
  \A u \in Users :
    /\ IsEndOf(tab[u].unsaved, typed[u])
    /\ \A k \in 1..Len(tab[u].unsaved) : fate[tab[u].unsaved[k]] = "pending"

TypedOnce ==
  \A u \in Users : \A k \in 1..Len(typed[u]) :
    /\ AuthorOf[typed[u][k]] = u /\ fate[typed[u][k]] # "untyped"
    /\ \A l \in 1..Len(typed[u]) : typed[u][k] = typed[u][l] => k = l

\* What has left the queue is saved, or was reported as lost.
DoneIsSettled ==
  \A u \in Users : \A k \in 1..Done(u) : fate[typed[u][k]] = "rejected" \/ InLog(typed[u][k])

\* No edit is under way before all those typed earlier are settled.
NoneOvertakes ==
  \A o \in Ops : InFlight(o) =>
    /\ fate[o] # "untyped"
    /\ \A u \in Users : \A k \in 1..Len(typed[u]) : typed[u][k] = o => k <= Done(u) + 1

OrderInv == QueueIsEnd /\ TypedOnce /\ DoneIsSettled /\ NoneOvertakes /\ SavedInOrderTyped

LEMMA HeadIsNext ==
  ASSUME TabsTyped, QueueIsEnd, TypedOnce, NEW u \in Users, tab[u].unsaved # << >>
  PROVE  /\ UnsavedHead(u) = typed[u][Done(u) + 1] /\ Done(u) + 1 \in 1..Len(typed[u])
         /\ UnsavedHead(u) \in Ops /\ fate[UnsavedHead(u)] = "pending"
         /\ AuthorOf[UnsavedHead(u)] = u
<1>1. tab[u].unsaved \in Seq(Ops) /\ typed[u] \in Seq(Ops) /\ IsEndOf(tab[u].unsaved, typed[u])
  BY DEF TabsTyped, Tabs, QueueIsEnd
<1>2. UnsavedHead(u) = typed[u][Done(u) + 1] /\ Done(u) + 1 \in 1..Len(typed[u])
  BY <1>1, EndShrinks DEF UnsavedHead, Done
<1>3. UnsavedHead(u) = tab[u].unsaved[1] /\ 1 \in 1..Len(tab[u].unsaved)
  BY <1>1, HeadTailProperties, LenProperties, EmptySeq DEF UnsavedHead
<1>4. UnsavedHead(u) \in Ops  BY <1>1, HeadTailProperties DEF UnsavedHead
<1>5. fate[UnsavedHead(u)] = "pending"  BY <1>3 DEF QueueIsEnd
<1>6. AuthorOf[UnsavedHead(u)] = u
  <2> DEFINE k == Done(u) + 1
  <2>1. k \in 1..Len(typed[u]) /\ UnsavedHead(u) = typed[u][k]  BY <1>2
  <2> HIDE DEF k
  <2> QED  BY <2>1 DEF TypedOnce
<1> QED  BY <1>2, <1>4, <1>5, <1>6

\* What every step does to the histories: they go on.
HistoryGoesOn ==
  /\ \A o \in Ops : /\ fate[o] # "untyped" => fate'[o] # "untyped"
                    /\ fate[o] = "rejected" => fate'[o] = "rejected"
  /\ \A u \in Users :
       /\ Done(u)' \in Nat /\ Done(u) <= Done(u)' /\ Len(typed[u]) <= Len(typed'[u])
       /\ \A k \in 1..Len(typed[u]) : typed'[u][k] = typed[u][k]
       /\ \A k \in 1..Len(typed'[u]) :
            k \notin 1..Len(typed[u]) => fate[typed'[u][k]] = "untyped"

LEMMA TypedNumbers ==
  ASSUME TabsTyped, QueueIsEnd, NEW u \in Users
  PROVE  /\ Len(typed[u]) \in Nat /\ Len(tab[u].unsaved) \in Nat /\ Done(u) \in Nat
         /\ Done(u) <= Len(typed[u])
         /\ \A k \in 1..Len(typed[u]) : typed[u][k] \in Ops
<1>1. tab[u].unsaved \in Seq(Ops) /\ typed[u] \in Seq(Ops) /\ IsEndOf(tab[u].unsaved, typed[u])
  BY DEF TabsTyped, Tabs, QueueIsEnd
<1>2. /\ Len(typed[u]) \in Nat /\ Len(tab[u].unsaved) \in Nat
      /\ \A k \in 1..Len(typed[u]) : typed[u][k] \in Ops
  BY <1>1, LenProperties
<1>3. Len(tab[u].unsaved) <= Len(typed[u])  BY <1>1 DEF IsEndOf
<1>4. Done(u) \in Nat /\ Done(u) <= Len(typed[u])
  <2> DEFINE n == Len(typed[u])
             m == Len(tab[u].unsaved)
  <2>1. n \in Nat /\ m \in Nat /\ m <= n /\ Done(u) = n - m  BY <1>2, <1>3 DEF Done
  <2> HIDE DEF n, m
  <2> QED  BY <2>1 DEF n
<1> QED  BY <1>2, <1>4

LEMMA NoneOvertakesStep ==
  ASSUME SyncInv, OrderInv, [SyncNext]_syncVars, HistoryGoesOn
  PROVE  NoneOvertakes'
<1>1. TabsTyped  BY DEF SyncInv, TabsInv
<1>2. ASSUME NEW o \in Ops, InFlight(o)'
      PROVE  /\ fate[o] # "untyped"
             /\ \A u \in Users : \A k \in 1..Len(typed[u]) : typed[u][k] = o => k <= Done(u) + 1
  <2>1. CASE InFlight(o)  BY <2>1 DEF OrderInv, NoneOvertakes
  <2>2. ASSUME NEW v \in Users, tab[v].unsaved # << >>, UnsavedHead(v) = o
        PROVE  /\ fate[o] # "untyped"
               /\ \A u \in Users : \A k \in 1..Len(typed[u]) :
                    typed[u][k] = o => k <= Done(u) + 1
    <3>1. /\ o = typed[v][Done(v) + 1] /\ Done(v) + 1 \in 1..Len(typed[v])
          /\ fate[o] = "pending" /\ AuthorOf[o] = v
      BY <1>1, <2>2, HeadIsNext DEF OrderInv
    <3>2. ASSUME NEW u \in Users, NEW k \in 1..Len(typed[u]), typed[u][k] = o
          PROVE  k = Done(u) + 1
      BY <3>1, <3>2 DEF OrderInv, TypedOnce
    <3>3. \A u \in Users : Done(u) \in Nat  BY <1>1, TypedNumbers DEF OrderInv
    <3> QED  BY <3>1, <3>2, <3>3
  <2> QED  BY <1>2, <2>1, <2>2, FlightStep
<1>3. ASSUME NEW o \in Ops, InFlight(o)', NEW u \in Users, NEW k \in 1..Len(typed'[u]),
             typed'[u][k] = o
      PROVE  k <= Done(u)' + 1
  <2>1. k \in 1..Len(typed[u]) /\ typed[u][k] = o  BY <1>2, <1>3 DEF HistoryGoesOn
  <2>2. k <= Done(u) + 1 /\ Done(u) \in Nat /\ Len(typed[u]) \in Nat
    BY <1>1, <1>2, <1>3, <2>1, TypedNumbers DEF OrderInv
  <2> QED  BY <2>1, <2>2 DEF HistoryGoesOn
<1>4. \A o \in Ops : InFlight(o)' => fate'[o] # "untyped"  BY <1>2 DEF HistoryGoesOn
<1> QED  BY <1>3, <1>4 DEF NoneOvertakes

LEMMA SavedInOrderStep ==
  ASSUME SyncInv, OrderInv, [SyncNext]_syncVars, HistoryGoesOn
  PROVE  SavedInOrderTyped'
<1>1. TabsTyped /\ ServerInv /\ [ServerMoves]_serverVars  BY SyncInvStep DEF SyncInv, TabsInv
<1>2. /\ log \in Seq(Ops) /\ Len(log) \in Nat /\ DOMAIN log = 1..Len(log)
      /\ \A k \in DOMAIN log : log[k] \in Ops
  BY <1>1, LenProperties DEF ServerInv, ServerTypeOK
<1>3. \A u \in Users : /\ DOMAIN typed[u] = 1..Len(typed[u]) /\ Len(typed[u]) \in Nat
                       /\ DOMAIN typed'[u] = 1..Len(typed'[u]) /\ Len(typed'[u]) \in Nat
  <2>1. TabsTyped'  BY SyncInvStep DEF SyncInv, TabsInv
  <2> QED  BY <1>1, <2>1, LenProperties DEF TabsTyped
<1>4. SUFFICES ASSUME NEW u \in Users, NEW l \in DOMAIN typed'[u], NEW k \in 1..(l - 1),
                      NEW q \in DOMAIN log', log'[q] = typed'[u][l]
               PROVE  \/ fate'[typed'[u][k]] = "rejected"
                      \/ \E p \in 1..(q - 1) : log'[p] = typed'[u][k]
  BY DEF SavedInOrderTyped
<1> DEFINE o == log'[q]
<1>5. o \in Ops /\ InFlight(o) /\ (q \notin DOMAIN log => q = Len(log) + 1)
  <2>1. CASE q \in DOMAIN log
    <3>1. o = log[q]  BY <1>1, <2>1, LogOnlyGrows
    <3> QED  BY <1>2, <2>1, <3>1 DEF InFlight, InLog
  <2>2. CASE q \notin DOMAIN log
    <3>1. log' # log  BY <2>2
    <3>2. PICK i \in DOMAIN line : /\ line[i].op \in Ops
                                   /\ DOMAIN log' = DOMAIN log \cup {Len(log) + 1}
                                   /\ log'[Len(log) + 1] = line[i].op
      BY <1>1, <3>1, LogOnlyGrows
    <3> QED  BY <2>2, <3>2 DEF InFlight, Queued
  <2> QED  BY <2>1, <2>2
<1>6. /\ l \in 1..Len(typed[u]) /\ typed[u][l] = o /\ l <= Done(u) + 1
      /\ k \in 1..Done(u) /\ k \in 1..Len(typed[u]) /\ typed'[u][k] = typed[u][k]
  <2>1. fate[o] # "untyped"  BY <1>5 DEF OrderInv, NoneOvertakes
  <2>2. l \in 1..Len(typed[u]) /\ typed[u][l] = o
    <3>1. l \in 1..Len(typed'[u]) /\ typed'[u][l] = o  BY <1>3, <1>4
    <3> HIDE DEF o
    <3> QED  BY <2>1, <3>1 DEF HistoryGoesOn
  <2>3. l <= Done(u) + 1  BY <1>5, <2>2 DEF OrderInv, NoneOvertakes
  <2>4. Done(u) \in Nat /\ Len(typed[u]) \in Nat  BY <1>1, TypedNumbers DEF OrderInv
  <2>5. k \in 1..Done(u) /\ k \in 1..Len(typed[u])  BY <2>2, <2>3, <2>4
  <2> QED  BY <2>2, <2>3, <2>5 DEF HistoryGoesOn
<1>7. typed[u][k] \in Ops  BY <1>1, <1>6, TypedNumbers DEF OrderInv
<1>8. CASE fate[typed[u][k]] = "rejected"  BY <1>6, <1>7, <1>8 DEF HistoryGoesOn
<1>9. CASE q \in DOMAIN log /\ \E p \in 1..(q - 1) : log[p] = typed[u][k]
  <2>1. PICK p \in 1..(q - 1) : log[p] = typed[u][k]  BY <1>9
  <2>2. p \in DOMAIN log  BY <1>2, <1>9
  <2>3. log'[p] = log[p]  BY <1>1, <2>2, LogOnlyGrows
  <2> QED  BY <1>6, <2>1, <2>3
<1>10. CASE q = Len(log) + 1 /\ InLog(typed[u][k])
  <2>1. PICK p \in DOMAIN log : log[p] = typed[u][k]  BY <1>10 DEF InLog
  <2>2. p \in 1..(q - 1)  BY <1>2, <1>10, <2>1
  <2>3. log'[p] = log[p]  BY <1>1, <2>1, LogOnlyGrows
  <2> QED  BY <1>6, <2>1, <2>2, <2>3
<1>11. CASE q \in DOMAIN log
  <2>1. log[q] = o  BY <1>1, <1>11, LogOnlyGrows
  <2>2. fate[typed[u][k]] = "rejected" \/ \E p \in 1..(q - 1) : log[p] = typed[u][k]
    BY <1>3, <1>6, <1>11, <2>1 DEF OrderInv, SavedInOrderTyped
  <2> QED  BY <1>8, <1>9, <1>11, <2>2
<1>12. CASE q \notin DOMAIN log
  <2>1. fate[typed[u][k]] = "rejected" \/ InLog(typed[u][k])
    BY <1>6 DEF OrderInv, DoneIsSettled
  <2> QED  BY <1>5, <1>8, <1>10, <1>12, <2>1
<1> QED  BY <1>11, <1>12

HistoryHolds == QueueIsEnd /\ TypedOnce /\ DoneIsSettled

\* The same queues, after any step of the server.
LEMMA QueuesStay ==
  ASSUME SyncInv, HistoryHolds, UNCHANGED <<fate, typed>>,
         \A u \in Users : tab'[u].unsaved = tab[u].unsaved,
         \A o : InLog(o) => InLog(o)'
  PROVE  HistoryHolds' /\ HistoryGoesOn
<1>1. \A u \in Users : Done(u)' = Done(u) /\ typed'[u] = typed[u]  BY DEF Done
<1>2. QueueIsEnd'  BY DEF HistoryHolds, QueueIsEnd
<1>3. TypedOnce'  BY DEF HistoryHolds, TypedOnce
<1>4. DoneIsSettled'  BY <1>1 DEF HistoryHolds, DoneIsSettled
<1>5. \A u \in Users : Len(typed[u]) \in Nat /\ Done(u) \in Nat
  BY TypedNumbers DEF SyncInv, TabsInv, HistoryHolds
<1> QED  BY <1>1, <1>2, <1>3, <1>4, <1>5 DEF HistoryHolds, HistoryGoesOn

LEMMA TypingOrder ==
  ASSUME SyncInv, HistoryHolds, NEW u \in Users, NEW o \in Ops, Types(u, o)
  PROVE  HistoryHolds' /\ HistoryGoesOn
<1>1. /\ TabsTyped
      /\ AuthorOf[o] = u /\ fate[o] = "untyped" /\ fate' = [fate EXCEPT ![o] = "pending"]
      /\ typed' = [typed EXCEPT ![u] = Append(@, o)]
      /\ \A v \in Users :
           tab'[v].unsaved = IF v = u THEN Append(tab[v].unsaved, o) ELSE tab[v].unsaved
      /\ log' = log
  BY DEF SyncInv, TabsInv, Types, serverVars, dbVars
<1>2. /\ \A p \in Ops : fate'[p] = IF p = o THEN "pending" ELSE fate[p]
      /\ \A v \in Users : typed'[v] = IF v = u THEN Append(typed[v], o) ELSE typed[v]
  BY <1>1 DEF TabsTyped
<1>3. \A v \in Users : /\ tab[v].unsaved \in Seq(Ops) /\ typed[v] \in Seq(Ops)
                       /\ IsEndOf(tab[v].unsaved, typed[v])
                       /\ Len(typed[v]) \in Nat /\ Done(v) \in Nat /\ Done(v) <= Len(typed[v])
                       /\ \A k \in 1..Len(typed[v]) : typed[v][k] \in Ops
  BY <1>1, TypedNumbers DEF TabsTyped, Tabs, HistoryHolds, QueueIsEnd
<1>4. /\ IsEndOf(tab'[u].unsaved, typed'[u]) /\ Done(u)' = Done(u)
      /\ Len(typed'[u]) = Len(typed[u]) + 1 /\ typed'[u][Len(typed[u]) + 1] = o
      /\ \A k \in 1..Len(typed[u]) : typed'[u][k] = typed[u][k]
  <2> DEFINE U == tab[u].unsaved
             T == typed[u]
  <2>1. U \in Seq(Ops) /\ T \in Seq(Ops) /\ IsEndOf(U, T)  BY <1>3
  <2>2. tab'[u].unsaved = Append(U, o) /\ typed'[u] = Append(T, o)  BY <1>1, <1>2
  <2>3. Done(u) = Len(T) - Len(U) /\ Done(u)' = Len(Append(T, o)) - Len(Append(U, o))
    BY <2>2 DEF Done
  <2> HIDE DEF U, T
  <2>4. IsEndOf(tab'[u].unsaved, typed'[u]) /\ Done(u)' = Done(u)
    BY <2>1, <2>2, <2>3, EndGrows
  <2>5. /\ Len(typed'[u]) = Len(T) + 1 /\ typed'[u][Len(T) + 1] = o
        /\ \A k \in 1..Len(T) : typed'[u][k] = T[k]
    BY <2>1, <2>2, EndGrows
  <2> QED  BY <2>4, <2>5 DEF T
<1>5. \A v \in Users : v # u =>
        tab'[v].unsaved = tab[v].unsaved /\ typed'[v] = typed[v] /\ Done(v)' = Done(v)
  BY <1>1, <1>2 DEF Done
\* The change is new: nobody has typed it before.
<1>6. \A v \in Users : \A k \in 1..Len(typed[v]) : typed[v][k] # o
  BY <1>1 DEF HistoryHolds, TypedOnce
<1>7. ASSUME NEW v \in Users, NEW k \in 1..Len(tab'[v].unsaved)
      PROVE  fate'[tab'[v].unsaved[k]] = "pending"
  <2>1. CASE v # u
    <3>1. tab[v].unsaved[k] \in Ops /\ fate[tab[v].unsaved[k]] = "pending"
      BY <1>3, <1>5, <1>7, <2>1, LenProperties DEF HistoryHolds, QueueIsEnd
    <3> QED  BY <1>1, <1>2, <1>5, <2>1, <3>1
  <2>2. CASE v = u
    <3> DEFINE U == tab[u].unsaved
    <3>1. /\ U \in Seq(Ops) /\ Len(U) \in Nat /\ tab'[v].unsaved = Append(U, o)
          /\ \A n \in 1..Len(U) : U[n] \in Ops /\ fate[U[n]] = "pending"
      BY ZenonT(40), <1>1, <1>3, <2>2, LenProperties DEF HistoryHolds, QueueIsEnd
    <3>2. k = Len(U) + 1 \/ k \in 1..Len(U)
      BY <1>7, <3>1, AppendProperties
    <3>3. tab'[v].unsaved[k] = IF k = Len(U) + 1 THEN o ELSE U[k]
      BY <3>1, <3>2, AppendProperties
    <3> HIDE DEF U
    <3> QED  BY <1>2, <3>1, <3>2, <3>3
  <2> QED  BY <2>1, <2>2
<1>8. QueueIsEnd'
  <2>1. \A v \in Users : IsEndOf(tab'[v].unsaved, typed'[v])  BY <1>3, <1>4, <1>5
  <2> QED  BY <1>7, <2>1 DEF QueueIsEnd
<1>9. ASSUME NEW v \in Users, NEW k \in 1..Len(typed'[v])
      PROVE  IF v = u /\ k = Len(typed[u]) + 1 THEN typed'[v][k] = o
             ELSE k \in 1..Len(typed[v]) /\ typed'[v][k] = typed[v][k]
  BY <1>3, <1>4, <1>5
<1>10. TypedOnce'
  <2>1. ASSUME NEW v \in Users, NEW k \in 1..Len(typed'[v])
        PROVE  AuthorOf[typed'[v][k]] = v /\ fate'[typed'[v][k]] # "untyped"
    <3>1. CASE v = u /\ k = Len(typed[u]) + 1  BY <1>1, <1>2, <1>9, <3>1
    <3>2. CASE ~(v = u /\ k = Len(typed[u]) + 1)
      <4>1. k \in 1..Len(typed[v]) /\ typed'[v][k] = typed[v][k]  BY <1>9, <3>2
      <4> QED  BY SMTT(30), <1>2, <1>3, <4>1 DEF HistoryHolds, TypedOnce
    <3> QED  BY <3>1, <3>2
  <2>2. ASSUME NEW v \in Users, NEW k \in 1..Len(typed'[v]), NEW l \in 1..Len(typed'[v]),
               typed'[v][k] = typed'[v][l]
        PROVE  k = l
    <3>1. CASE v = u /\ (k = Len(typed[u]) + 1 \/ l = Len(typed[u]) + 1)
      BY SMTT(30), <1>6, <1>9, <2>2, <3>1
    <3>2. CASE ~(v = u /\ (k = Len(typed[u]) + 1 \/ l = Len(typed[u]) + 1))
      <4>1. /\ k \in 1..Len(typed[v]) /\ typed'[v][k] = typed[v][k]
            /\ l \in 1..Len(typed[v]) /\ typed'[v][l] = typed[v][l]
        BY <1>9, <3>2
      <4> QED  BY <2>2, <4>1 DEF HistoryHolds, TypedOnce
    <3> QED  BY <3>1, <3>2
  <2> QED  BY <2>1, <2>2 DEF TypedOnce
<1>11. DoneIsSettled'
  <2>1. ASSUME NEW v \in Users, NEW k \in 1..Done(v)'
        PROVE  (fate[typed[v][k]] = "rejected" \/ InLog(typed[v][k]))'
    <3>1. k \in 1..Done(v) /\ k \in 1..Len(typed[v])  BY <1>3, <1>4, <1>5
    <3>2. typed'[v][k] = typed[v][k]  BY <1>4, <1>5, <3>1
    <3>3. fate[typed[v][k]] = "rejected" \/ InLog(typed[v][k])
      BY <3>1 DEF HistoryHolds, DoneIsSettled
    <3> QED  BY <1>1, <1>2, <1>3, <1>6, <3>1, <3>2, <3>3 DEF InLog
  <2> QED  BY <2>1 DEF DoneIsSettled
<1>12. HistoryGoesOn
  <2>1. \A p \in Ops : /\ fate[p] # "untyped" => fate'[p] # "untyped"
                       /\ fate[p] = "rejected" => fate'[p] = "rejected"
    BY <1>1, <1>2
  <2>2. ASSUME NEW v \in Users
        PROVE  /\ Done(v)' \in Nat /\ Done(v) <= Done(v)' /\ Len(typed[v]) <= Len(typed'[v])
               /\ \A k \in 1..Len(typed[v]) : typed'[v][k] = typed[v][k]
               /\ \A k \in 1..Len(typed'[v]) :
                    k \notin 1..Len(typed[v]) => fate[typed'[v][k]] = "untyped"
    <3>1. Done(v)' \in Nat /\ Done(v) <= Done(v)' /\ Len(typed[v]) <= Len(typed'[v])
      BY <1>3, <1>4, <1>5
    <3>2. \A k \in 1..Len(typed[v]) : typed'[v][k] = typed[v][k]  BY <1>4, <1>5
    <3>3. \A k \in 1..Len(typed'[v]) :
            k \notin 1..Len(typed[v]) => fate[typed'[v][k]] = "untyped"
      BY <1>1, <1>9
    <3> QED  BY <3>1, <3>2, <3>3
  <2> QED  BY <2>1, <2>2 DEF HistoryGoesOn
<1> QED  BY <1>8, <1>10, <1>11, <1>12 DEF HistoryHolds

LEMMA SettlingOrder ==
  ASSUME SyncInv, HistoryHolds, NEW G \in SUBSET Users, NEW word \in {"confirmed", "rejected"},
         Settles(G, word),
         word = "confirmed" => \A u \in G : InLog(UnsavedHead(u))
  PROVE  HistoryHolds' /\ HistoryGoesOn
<1>1. /\ TabsTyped /\ typed' = typed /\ log' = log
      /\ \A v \in G : tab[v].unsaved # << >>
      /\ fate' = [o \in Ops |-> IF \E v \in G : UnsavedHead(v) = o THEN word ELSE fate[o]]
      /\ \A v \in Users :
           tab'[v].unsaved = IF v \in G THEN Tail(tab[v].unsaved) ELSE tab[v].unsaved
  BY DEF SyncInv, TabsInv, Settles, dbVars
<1>2. \A v \in Users : /\ tab[v].unsaved \in Seq(Ops) /\ typed[v] \in Seq(Ops)
                       /\ IsEndOf(tab[v].unsaved, typed[v])
                       /\ Len(typed[v]) \in Nat /\ Done(v) \in Nat /\ Done(v) <= Len(typed[v])
                       /\ \A k \in 1..Len(typed[v]) : typed[v][k] \in Ops
  BY <1>1, TypedNumbers DEF TabsTyped, Tabs, HistoryHolds, QueueIsEnd
<1>3. \A v \in G : /\ UnsavedHead(v) = typed[v][Done(v) + 1] /\ Done(v) + 1 \in 1..Len(typed[v])
                   /\ UnsavedHead(v) \in Ops /\ fate[UnsavedHead(v)] = "pending"
                   /\ AuthorOf[UnsavedHead(v)] = v
  BY <1>1, HeadIsNext DEF HistoryHolds
<1>4. ASSUME NEW v \in G
      PROVE  /\ IsEndOf(tab'[v].unsaved, typed[v]) /\ Done(v)' = Done(v) + 1
             /\ \A k \in 1..Len(tab'[v].unsaved) :
                  /\ tab'[v].unsaved[k] = tab[v].unsaved[k + 1]
                  /\ k + 1 \in 1..Len(tab[v].unsaved)
  <2> DEFINE U == tab[v].unsaved
             T == typed[v]
  <2>1. U \in Seq(Ops) /\ T \in Seq(Ops) /\ IsEndOf(U, T) /\ U # << >>  BY <1>1, <1>2
  <2>2. tab'[v].unsaved = Tail(U)  BY <1>1
  <2>3. Done(v) = Len(T) - Len(U) /\ Done(v)' = Len(T) - Len(Tail(U))
    BY <1>1, <2>2 DEF Done
  <2> HIDE DEF U, T
  <2>4. IsEndOf(tab'[v].unsaved, T) /\ Done(v)' = Done(v) + 1
    BY <2>1, <2>2, <2>3, EndShrinks
  <2>5. \A k \in 1..Len(tab'[v].unsaved) :
          tab'[v].unsaved[k] = U[k + 1] /\ k + 1 \in 1..Len(U)
    BY <2>1, <2>2, EndShrinks
  <2> QED  BY <2>4, <2>5 DEF T, U
<1>5. \A v \in Users : v \notin G => tab'[v].unsaved = tab[v].unsaved /\ Done(v)' = Done(v)
  BY <1>1 DEF Done
\* Only the first change of a queue is the head of one.
<1>6. ASSUME NEW v \in Users, NEW k \in 1..Len(typed[v]), NEW w \in G,
             UnsavedHead(w) = typed[v][k]
      PROVE  v = w /\ k = Done(v) + 1
  <2>1. AuthorOf[typed[v][k]] = v  BY DEF HistoryHolds, TypedOnce
  <2>2. v = w  BY <1>3, <1>6, <2>1
  <2> DEFINE l == Done(v) + 1
  <2>3. l \in 1..Len(typed[v]) /\ typed[v][l] = typed[v][k]  BY <1>3, <1>6, <2>2
  <2> HIDE DEF l
  <2>4. k = l  BY <2>3 DEF HistoryHolds, TypedOnce
  <2> QED  BY <2>2, <2>4 DEF l
<1>7. ASSUME NEW v \in Users, NEW k \in 1..Len(tab'[v].unsaved)
      PROVE  fate'[tab'[v].unsaved[k]] = "pending"
  <2> DEFINE U == tab[v].unsaved
             n == IF v \in G THEN k + 1 ELSE k
             l == Done(v) + n
  <2>1. n \in 1..Len(U) /\ tab'[v].unsaved[k] = U[n]  BY <1>4, <1>5
  <2>2. fate[U[n]] = "pending" /\ U[n] = typed[v][l]
    BY <1>2, <2>1 DEF HistoryHolds, QueueIsEnd, IsEndOf, Done
  <2>3. l \in 1..Len(typed[v]) /\ (v \in G => l # Done(v) + 1)
    <3>1. Len(U) \in Nat /\ Len(U) = Len(typed[v]) - Done(v)
      BY <1>2, LenProperties DEF Done
    <3>2. Done(v) \in Nat /\ Len(typed[v]) \in Nat  BY <1>2
    <3>3. k \in 1..Len(tab'[v].unsaved) /\ (v \in G => n = k + 1 /\ k # 0)  OBVIOUS
    <3> HIDE DEF U, n
    <3> QED  BY <2>1, <3>1, <3>2, <3>3
  <2> HIDE DEF l, n, U
  <2>4. typed[v][l] \in Ops  BY <1>2, <2>3
  <2>5. ~\E w \in G : UnsavedHead(w) = typed[v][l]  BY <1>6, <2>3
  <2> QED  BY <1>1, <2>1, <2>2, <2>4, <2>5
<1>8. QueueIsEnd'
  <2>1. \A v \in Users : IsEndOf(tab'[v].unsaved, typed'[v])  BY <1>1, <1>2, <1>4, <1>5
  <2> QED  BY <1>7, <2>1 DEF QueueIsEnd
<1>9. \A o \in Ops : /\ fate[o] # "untyped" => fate'[o] # "untyped"
                     /\ fate[o] = "rejected" => fate'[o] = "rejected"
  BY <1>1, <1>3
<1>10. TypedOnce'
  <2>1. ASSUME NEW v \in Users, NEW k \in 1..Len(typed[v])
        PROVE  AuthorOf[typed[v][k]] = v /\ fate'[typed[v][k]] # "untyped"
    BY <1>2, <1>9 DEF HistoryHolds, TypedOnce
  <2>2. \A v \in Users : \A k, l \in 1..Len(typed[v]) : typed[v][k] = typed[v][l] => k = l
    BY DEF HistoryHolds, TypedOnce
  <2> QED  BY <1>1, <2>1, <2>2 DEF TypedOnce
<1>11. DoneIsSettled'
  <2>1. ASSUME NEW v \in Users, NEW k \in 1..Done(v)'
        PROVE  fate'[typed[v][k]] = "rejected" \/ InLog(typed[v][k])
    <3>1. CASE k \in 1..Done(v)
      <4>1. fate[typed[v][k]] = "rejected" \/ InLog(typed[v][k])
        BY <3>1 DEF HistoryHolds, DoneIsSettled
      <4>2. typed[v][k] \in Ops  BY <1>2, <3>1
      <4> QED  BY <1>9, <4>1, <4>2
    <3>2. CASE k \notin 1..Done(v)
      <4>1. v \in G /\ k = Done(v) + 1  BY <1>2, <1>4, <1>5, <3>2
      <4>2. UnsavedHead(v) = typed[v][k] /\ UnsavedHead(v) \in Ops  BY <1>3, <4>1
      <4>3. fate'[UnsavedHead(v)] = word  BY <1>1, <4>1, <4>2
      <4> QED  BY <4>1, <4>2, <4>3
    <3> QED  BY <3>1, <3>2
  <2>2. \A o : InLog(o) => InLog(o)'  BY <1>1 DEF InLog
  <2> QED  BY <1>1, <2>1, <2>2 DEF DoneIsSettled
<1>12. HistoryGoesOn
  <2>1. \A v \in Users : Done(v)' \in Nat /\ Done(v) <= Done(v)'  BY <1>2, <1>4, <1>5
  <2>2. \A v \in Users : Len(typed[v]) <= Len(typed'[v])  BY <1>1, <1>2
  <2> QED  BY <1>1, <1>9, <2>1, <2>2 DEF HistoryGoesOn
<1> QED  BY <1>8, <1>10, <1>11, <1>12 DEF HistoryHolds

LEMMA HistoryStep ==
  ASSUME SyncInv, HistoryHolds, [SyncNext]_syncVars
  PROVE  HistoryHolds' /\ HistoryGoesOn
<1>1. ServerInv /\ [ServerMoves]_serverVars /\ (TabsMove \/ UNCHANGED syncVars)
  BY SyncInvStep DEF SyncInv
<1>2. \A o : InLog(o) => InLog(o)'
  <2>1. \A k \in DOMAIN log : k \in DOMAIN log' /\ log'[k] = log[k]  BY <1>1, LogOnlyGrows
  <2> QED  BY <2>1 DEF InLog
<1>3. CASE LeavesQueues \/ UNCHANGED syncVars
  BY <1>2, <1>3, QueuesStay DEF LeavesQueues, syncVars, tabVars
<1>4. CASE \E u \in Users, o \in Ops : Types(u, o)  BY <1>4, TypingOrder
<1>5. CASE \E G \in SUBSET Users : Settles(G, "rejected")  BY <1>5, SettlingOrder
<1>6. ASSUME NEW u \in Users, Settles({u}, "confirmed"),
             \E p \in DOMAIN log : log[p] = UnsavedHead(u)
      PROVE  HistoryHolds' /\ HistoryGoesOn
  <2>1. \A v \in {u} : InLog(UnsavedHead(v))  BY <1>6 DEF InLog
  <2>2. {u} \in SUBSET Users  OBVIOUS
  <2> QED  BY <1>6, <2>1, <2>2, SettlingOrder
<1> QED  BY <1>1, <1>3, <1>4, <1>5, <1>6 DEF TabsMove

LEMMA OrderInvStep ==
  ASSUME SyncInv, OrderInv, [SyncNext]_syncVars
  PROVE  OrderInv'
<1>1. HistoryHolds' /\ HistoryGoesOn  BY HistoryStep DEF OrderInv, HistoryHolds
<1>2. NoneOvertakes' /\ SavedInOrderTyped'  BY <1>1, NoneOvertakesStep, SavedInOrderStep
<1> QED  BY <1>1, <1>2 DEF OrderInv, HistoryHolds

LEMMA OrderInvInit == SyncInit => OrderInv
<1> SUFFICES ASSUME SyncInit PROVE OrderInv  OBVIOUS
<1>1. /\ \A u \in Users : tab[u].unsaved = << >> /\ typed[u] = << >> /\ inbox[u] = << >>
      /\ line = << >> /\ log = << >>
  BY DEF SyncInit, ServerInit
<1>2. \A o : ~InFlight(o)  BY <1>1 DEF InFlight, Sent, Queued, InLog
<1>3. \A u \in Users : Len(typed[u]) = 0 /\ Len(tab[u].unsaved) = 0 /\ Done(u) = 0
  BY <1>1 DEF Done
<1>4. QueueIsEnd /\ TypedOnce /\ DoneIsSettled
  <2>1. QueueIsEnd
    <3>1. \A u \in Users : /\ 1..Len(tab[u].unsaved) = {}
                          /\ Len(tab[u].unsaved) <= Len(typed[u])
      BY <1>3
    <3> QED  BY <3>1 DEF QueueIsEnd, IsEndOf
  <2>2. TypedOnce  BY <1>3 DEF TypedOnce
  <2>3. DoneIsSettled  BY <1>3 DEF DoneIsSettled
  <2> QED  BY <2>1, <2>2, <2>3
<1>5. NoneOvertakes  BY <1>2 DEF NoneOvertakes
<1>6. SavedInOrderTyped  BY <1>1 DEF SavedInOrderTyped
<1> QED  BY <1>4, <1>5, <1>6 DEF OrderInv

LEMMA OrderInvariance == SyncSpec => [](SyncInv /\ OrderInv)
<1>1. SyncInv /\ OrderInv /\ [SyncNext]_syncVars => (SyncInv /\ OrderInv)'
  BY SyncInvStep, OrderInvStep
<1> QED  BY <1>1, SyncInvInit, OrderInvInit, PTL DEF SyncSpec

\* Edits are saved in the order they were typed, whatever drops, restarts, late
\* answers and repeats come in between.
THEOREM SavedInOrder == SyncSpec => []SavedInOrderTyped
<1>1. SyncInv /\ OrderInv => SavedInOrderTyped  BY DEF OrderInv
<1> QED  BY <1>1, OrderInvariance, PTL

----------------------------------------------------------------------------
(* What the whole implements, as long as the server remembers.             *)

NothingForgotten == forgotten = {}

\* What is stored changes only with the log.
LEMMA ContentIsLogged ==
  ASSUME ServerInv, [ServerMoves]_serverVars, log' = log
  PROVE  content' = content
<1> SUFFICES ASSUME content' # content PROVE FALSE  OBVIOUS
<1>1. PICK i \in DOMAIN line : OpCommit(i) \/ OpCommitLost(i)  BY LogMoves
<1>2. line[i].op \in Ops /\ log' = Append(log, line[i].op)
  <2>1. line[i] \in Tasks  BY TasksLeave DEF ServerInv, ServerTypeOK
  <2> QED  BY <1>1, <2>1 DEF OpCommit, OpCommitLost, Saved, Tasks
<1> QED  BY <1>2, LogGrows

\* A transaction saves what was typed, and is not saved yet.
LEMMA CommitSaves ==
  ASSUME SyncInv, OrderInv, NothingForgotten, [SyncNext]_syncVars, log' # log
  PROVE  \E o \in Ops : /\ fate[o] # "untyped" /\ o \notin ToSet(log)
                        /\ log' = Append(log, o)
                        /\ content' = [content EXCEPT ![ItemOf[o]] = o]
<1>1. ServerInv /\ [ServerMoves]_serverVars  BY SyncInvStep DEF SyncInv
<1>2. PICK i \in DOMAIN line :
        /\ i = 1 /\ line[i].op \in Ops /\ line[i].stage = "authorized"
        /\ log' = Append(log, line[i].op)
        /\ content' = [content EXCEPT ![ItemOf[line[i].op]] = line[i].op]
  BY <1>1, LogOnlyGrows
<1> DEFINE o == line[i].op
<1>3. fate[o] # "untyped"
  <2>1. InFlight(o)  BY DEF InFlight, Queued
  <2> QED  BY <1>2, <2>1 DEF OrderInv, NoneOvertakes
<1>4. dedupe[o] = 0  BY <1>1, <1>2 DEF ServerInv, HeadOnly
<1>5. ASSUME NEW k \in DOMAIN log PROVE log[k] # o
  <2>1. dedupe[log[k]] = k
    BY <1>1, <1>2 DEF ServerInv, Remembered, NothingForgotten
  <2>2. k # 0  BY <1>1, LenProperties DEF ServerInv, ServerTypeOK
  <2> QED  BY <1>4, <2>1, <2>2
<1>6. o \notin ToSet(log)  BY <1>5 DEF ToSet
<1> QED  BY <1>2, <1>3, <1>6

LEMMA SharedStep ==
  ASSUME SyncInv, OrderInv, NothingForgotten, [SyncNext]_syncVars
  PROVE  [Shared!SharedNext]_<<log, content, fate>>
<1>1. ServerInv /\ [ServerMoves]_serverVars /\ (TabsMove \/ UNCHANGED syncVars)
  BY SyncInvStep DEF SyncInv
<1>2. TabsTyped /\ QueueIsEnd /\ TypedOnce  BY DEF SyncInv, TabsInv, OrderInv
<1>3. CASE UNCHANGED syncVars
  BY <1>3 DEF syncVars, serverVars, dbVars, tabVars
<1>4. CASE UNCHANGED fate /\ log' = log
  BY <1>1, <1>4, ContentIsLogged
<1>5. CASE UNCHANGED fate /\ log' # log
  BY <1>5, CommitSaves DEF Shared!SharedNext, Shared!Save, Shared!ToSet, ToSet
<1>6. ASSUME NEW u \in Users, NEW o \in Ops, Types(u, o) PROVE Shared!Typed(o)
  BY <1>6 DEF Types, serverVars, dbVars, Shared!Typed
<1>7. ASSUME NEW G \in SUBSET Users, Settles(G, "rejected")
      PROVE  \E lost \in SUBSET Ops : Shared!Report(lost)
  <2> DEFINE lost == {UnsavedHead(v) : v \in G}
  <2>1. \A v \in G : UnsavedHead(v) \in Ops /\ fate[UnsavedHead(v)] = "pending"
    BY <1>2, <1>7, HeadIsNext DEF Settles
  <2>2. fate' = [o \in Ops |-> IF o \in lost THEN "rejected" ELSE fate[o]]
    BY <1>7 DEF Settles
  <2>3. lost \in SUBSET Ops /\ \A o \in lost : fate[o] = "pending"  BY <2>1
  <2>4. UNCHANGED <<log, content>>  BY <1>7 DEF Settles, dbVars
  <2> HIDE DEF lost
  <2> QED  BY <2>2, <2>3, <2>4 DEF Shared!Report
<1>8. ASSUME NEW u \in Users, Settles({u}, "confirmed"),
             \E p \in DOMAIN log : log[p] = UnsavedHead(u)
      PROVE  Shared!Confirm(UnsavedHead(u)) /\ UnsavedHead(u) \in Ops
  <2>1. UnsavedHead(u) \in Ops /\ fate[UnsavedHead(u)] = "pending"
    BY <1>2, <1>8, HeadIsNext DEF Settles
  <2>2. fate' = [fate EXCEPT ![UnsavedHead(u)] = "confirmed"]
    <3>1. fate' = [o \in Ops |-> IF UnsavedHead(u) = o THEN "confirmed" ELSE fate[o]]
      BY <1>8 DEF Settles
    <3> QED  BY <1>2, <2>1, <3>1 DEF TabsTyped
  <2>3. UNCHANGED <<log, content>>  BY <1>8 DEF Settles, dbVars
  <2>4. UnsavedHead(u) \in ToSet(log)  BY <1>8 DEF ToSet
  <2> QED  BY <2>1, <2>2, <2>3, <2>4 DEF Shared!Confirm, Shared!ToSet, ToSet
<1>9. CASE LeavesQueues  BY <1>4, <1>5, <1>9 DEF LeavesQueues
<1>10. CASE \E u \in Users, o \in Ops : Types(u, o)  BY <1>6, <1>10 DEF Shared!SharedNext
<1>11. CASE \E G \in SUBSET Users : Settles(G, "rejected")
  BY <1>7, <1>11 DEF Shared!SharedNext
<1>12. CASE \E u \in Users : Settles({u}, "confirmed")
                             /\ \E p \in DOMAIN log : log[p] = UnsavedHead(u)
  BY <1>8, <1>12 DEF Shared!SharedNext
<1> QED  BY <1>1, <1>3, <1>9, <1>10, <1>11, <1>12 DEF TabsMove

\* Editors, wire and server together are a shared sheet as long as the process
\* forgets no opId: a typed change is saved at most once, "saved" is said only of
\* what is saved, and nothing else is ever written.
THEOREM SheetIsShared == SyncSpec /\ []NothingForgotten => ImplementsSharedSheet
<1>1. SyncInit => Shared!SharedInit
  BY DEF SyncInit, ServerInit, Shared!SharedInit
<1>2. (SyncInv /\ OrderInv) /\ NothingForgotten /\ [SyncNext]_syncVars
        => [Shared!SharedNext]_<<log, content, fate>>
  BY SharedStep
<1> QED
  BY <1>1, <1>2, OrderInvariance, PTL
     DEF SyncSpec, ImplementsSharedSheet, Shared!SharedSpec, Shared!sharedVars

----------------------------------------------------------------------------
(* What the author of a change is told is true and stands, also when the   *)
(* server has forgotten an opId and applies a repeat a second time.        *)

SaidIsSaved == \A o \in Ops : fate[o] = "confirmed" => InLog(o)

WordsStand == \A o \in Ops : fate[o] \in {"confirmed", "rejected"} => fate'[o] = fate[o]

LEMMA WordStep ==
  ASSUME SyncInv, OrderInv, SaidIsSaved, [SyncNext]_syncVars
  PROVE  SaidIsSaved' /\ WordsStand
<1>1. ServerInv /\ [ServerMoves]_serverVars /\ (TabsMove \/ UNCHANGED syncVars)
  BY SyncInvStep DEF SyncInv
<1>2. TabsTyped /\ QueueIsEnd /\ TypedOnce  BY DEF SyncInv, TabsInv, OrderInv
<1>3. \A o : InLog(o) => InLog(o)'
  <2>1. \A k \in DOMAIN log : k \in DOMAIN log' /\ log'[k] = log[k]  BY <1>1, LogOnlyGrows
  <2> QED  BY <2>1 DEF InLog
<1>4. ASSUME \A o \in Ops : fate'[o] = fate[o]
      PROVE  SaidIsSaved' /\ WordsStand
  BY <1>3, <1>4 DEF SaidIsSaved, WordsStand
<1>5. ASSUME NEW u \in Users, NEW o \in Ops, Types(u, o)
      PROVE  SaidIsSaved' /\ WordsStand
  <2>1. \A p \in Ops : fate'[p] = IF p = o THEN "pending" ELSE fate[p]
    BY <1>2, <1>5 DEF Types, TabsTyped
  <2>2. fate[o] = "untyped"  BY <1>5 DEF Types
  <2> QED  BY <1>3, <2>1, <2>2 DEF SaidIsSaved, WordsStand
\* A word is only ever said of a head, which is pending, and "saved" of one in the log.
<1>6. ASSUME NEW G \in SUBSET Users, NEW word \in {"confirmed", "rejected"}, Settles(G, word),
             word = "confirmed" => \A v \in G : InLog(UnsavedHead(v))
      PROVE  SaidIsSaved' /\ WordsStand
  <2>1. \A v \in G : UnsavedHead(v) \in Ops /\ fate[UnsavedHead(v)] = "pending"
    BY <1>2, <1>6, HeadIsNext DEF Settles
  <2>2. \A o \in Ops : fate'[o] = IF \E v \in G : UnsavedHead(v) = o THEN word ELSE fate[o]
    BY <1>6 DEF Settles
  <2>3. WordsStand  BY <2>1, <2>2 DEF WordsStand
  <2>4. SaidIsSaved'
    <3> SUFFICES ASSUME NEW o \in Ops, fate'[o] = "confirmed" PROVE InLog(o)
      BY <1>3 DEF SaidIsSaved
    <3> QED  BY <1>6, <2>2 DEF SaidIsSaved
  <2> QED  BY <2>3, <2>4
<1>7. CASE LeavesQueues \/ UNCHANGED syncVars
  BY <1>4, <1>7 DEF LeavesQueues, syncVars, tabVars
<1>8. CASE \E u \in Users, o \in Ops : Types(u, o)  BY <1>5, <1>8
<1>9. CASE \E G \in SUBSET Users : Settles(G, "rejected")  BY <1>6, <1>9
<1>10. CASE \E u \in Users : Settles({u}, "confirmed")
                             /\ \E p \in DOMAIN log : log[p] = UnsavedHead(u)
  BY <1>6, <1>10 DEF InLog
<1> QED  BY <1>1, <1>7, <1>8, <1>9, <1>10 DEF TabsMove

\* "Saved" is said of a change only when the database has it, and neither "saved" nor
\* "not saved" is ever taken back: through drops, restarts, repeats, lost COMMITs, late
\* answers and opIds that were forgotten (run and drop of createSaveQueue).
THEOREM WhatIsSaidStands == SyncSpec => []SaidIsSaved /\ [][WordsStand]_syncVars
<1>1. SyncInit => SaidIsSaved  BY DEF SyncInit, SaidIsSaved
<1>2. SyncInv /\ OrderInv /\ SaidIsSaved /\ [SyncNext]_syncVars => SaidIsSaved' /\ WordsStand
  BY WordStep
<1>3. WordsStand => [WordsStand]_syncVars  OBVIOUS
<1> QED
  BY <1>1, <1>2, <1>3, OrderInvariance, PTL DEF SyncSpec

\* Rule 4c of SAFE RETRIES (smartSheetSync.js) for the whole: a change is applied once,
\* however often its tab repeats it, if the server forgets no opId (after a restart, as
\* in the run sync_saved_once, or when it is ten minutes old or one of too many).
THEOREM SavedOnceIfRemembered == SyncSpec /\ []NothingForgotten => []SavedOnce
<1>1. SyncInv /\ NothingForgotten => SavedOnce
  BY RememberedOnce DEF SyncInv, SavedOnceWhileRemembered, NothingForgotten, SavedOnce
<1> QED  BY <1>1, OrderInvariance, PTL

----------------------------------------------------------------------------
(* A tab that is live is in the room.                                      *)

\* Joins are neither given up nor fail on their second query, and a connection
\* does not drop while the sheet is loaded for the first time: in either case a
\* tab may be live outside the room.
CarefulStep ==
  /\ SyncNext
  /\ \A u \in Users : ~JoinTimeout(u)
  /\ \A j \in joining : j.stage = "rechecking" => ~JoinFails(j)
  /\ \A u \in conn : u \notin conn' =>
       tab[u].first \/ tab[u].sync \in {"off", "due", "joining"}

CarefulSpec == SyncInit /\ [][CarefulStep]_syncVars

\* Where the joins of a tab are: asked for, being handled, answered.
Asks(u) == {k \in DOMAIN inbox[u] : inbox[u][k].type = "join"}
Handlers(u) == {j \in joining : j.user = u}
Answers(u) == {k \in DOMAIN outbox[u] : outbox[u][k].type = "joined"}

\* There is at most one of them, that of the attempt under way.
OneJoin(u) ==
  /\ \A k \in Asks(u) : /\ inbox[u][k].n = tab[u].joinNo /\ \A l \in Asks(u) : l = k
                        /\ Handlers(u) = {} /\ Answers(u) = {} /\ tab[u].sync = "joining"
  /\ \A j \in Handlers(u) : /\ j.n = tab[u].joinNo /\ \A h \in Handlers(u) : h = j
                            /\ Answers(u) = {} /\ tab[u].sync = "joining"
  /\ \A k \in Answers(u) : /\ outbox[u][k].n = tab[u].joinNo /\ \A l \in Answers(u) : l = k
                           /\ tab[u].sync = "joining"

\* What puts the overlay up, and what would have the queue join by itself.
Dooms(m) == m.type = "access-revoked" \/ (m.type = "joined" /\ m.code = "NOT_FOUND")
Refuses(m) == m.type = "ack" /\ m.code = "NOT_JOINED"

Doomed(u) == \E k \in DOMAIN outbox[u] : Dooms(outbox[u][k])
InRoom(u) == u \in room /\ u \in joined

\* A tab that sends, or has been let in, is in the room or will hear of it.
BelongsIn(u) ==
  \/ tab[u].online
  \/ \E k \in DOMAIN inbox[u] : inbox[u][k].type = "op"
  \/ \E j \in Handlers(u) : j.stage \in {"rechecking", "answering"}
  \/ \E k \in Answers(u) : outbox[u][k].code = "OK"
Placed(u) == BelongsIn(u) => InRoom(u) \/ Doomed(u)

\* Before it is refused for being outside the room it is told.
Warned(u) ==
  \A k \in DOMAIN outbox[u] : Refuses(outbox[u][k]) =>
    \E l \in DOMAIN outbox[u] : l < k /\ Dooms(outbox[u][l])

\* Past its join a tab is connected, unless a reconnect will make it begin again.
PastJoining == {"draining", "fetching", "reading", "mounting", "live"}
Phased(u) ==
  /\ u \in conn /\ tab[u].sync \in PastJoining /\ ~tab[u].rerun => tab[u].online
  /\ tab[u].sync = "live" => ~tab[u].rerun
  /\ u \notin conn /\ ~tab[u].first => tab[u].sync \in {"off", "due"}

TabInStep(u) == ~tab[u].shut => OneJoin(u) /\ Placed(u) /\ Warned(u) /\ Phased(u)

RoomIsConnected ==
  /\ room \subseteq conn
  /\ \A j \in joining : j.user \in conn

NobodyLeaves == \A u \in Users : \A k \in DOMAIN inbox[u] : inbox[u][k].type # "leave"

StepInv == NobodyLeaves /\ RoomIsConnected /\ \A u \in Users : TabInStep(u)

(* Sequences of messages. *)

\* c is b, with one or two messages of M behind it.
Grown(b, c, M) ==
  \/ c = b
  \/ \E m \in M : c = Append(b, m)
  \/ \E m, n \in M : c = Append(Append(b, m), n)

\* What was there stays in its place, and what is new is behind it.
Extends(b, c, M) ==
  /\ \A k \in DOMAIN b : k \in DOMAIN c /\ c[k] = b[k]
  /\ \A k \in DOMAIN c : k \notin DOMAIN b => c[k] \in M /\ \A l \in DOMAIN b : l < k

LEMMA AppendExtends ==
  ASSUME NEW S, NEW b \in Seq(S), NEW m \in S
  PROVE  /\ Extends(b, Append(b, m), {m})
         /\ Append(b, m) \in Seq(S) /\ Len(b) + 1 \in DOMAIN Append(b, m)
         /\ Append(b, m)[Len(b) + 1] = m /\ Len(b) + 1 \notin DOMAIN b
<1>1. /\ Append(b, m) \in Seq(S) /\ Len(b) \in Nat /\ DOMAIN b = 1..Len(b)
      /\ DOMAIN Append(b, m) = 1..(Len(b) + 1)
      /\ Append(b, m)[Len(b) + 1] = m
      /\ \A k \in 1..Len(b) : Append(b, m)[k] = b[k]
  BY AppendProperties, LenProperties
<1> QED  BY <1>1 DEF Extends

LEMMA GrownExtends ==
  ASSUME NEW S, NEW b \in Seq(S), NEW M \in SUBSET S, NEW c, Grown(b, c, M)
  PROVE  Extends(b, c, M) /\ c \in Seq(S)
<1>1. CASE c = b  BY <1>1 DEF Extends
<1>2. ASSUME NEW m \in M, c = Append(b, m) PROVE Extends(b, c, M) /\ c \in Seq(S)
  BY <1>2, AppendExtends DEF Extends
<1>3. ASSUME NEW m \in M, NEW n \in M, c = Append(Append(b, m), n)
      PROVE  Extends(b, c, M) /\ c \in Seq(S)
  <2> DEFINE a == Append(b, m)
  <2>1. a \in Seq(S) /\ Extends(b, a, {m})  BY AppendExtends
  <2>2. c = Append(a, n)  BY <1>3
  <2> HIDE DEF a
  <2>3. Extends(a, c, {n}) /\ c \in Seq(S)  BY <2>1, <2>2, AppendExtends
  <2> QED  BY <2>1, <2>3 DEF Extends
<1> QED  BY <1>1, <1>2, <1>3 DEF Grown

LEMMA TailShifts ==
  ASSUME NEW S, NEW b \in Seq(S), b # << >>
  PROVE  /\ Tail(b) \in Seq(S) /\ Head(b) = b[1] /\ Head(b) \in S /\ 1 \in DOMAIN b
         /\ \A k \in DOMAIN Tail(b) : k + 1 \in DOMAIN b /\ Tail(b)[k] = b[k + 1] /\ k \in Nat
         /\ \A k \in DOMAIN b : k # 1 => k - 1 \in DOMAIN Tail(b) /\ Tail(b)[k - 1] = b[k]
<1>1. /\ Len(b) \in Nat /\ Len(b) > 0 /\ Tail(b) \in Seq(S) /\ Len(Tail(b)) = Len(b) - 1
      /\ Head(b) = b[1] /\ Head(b) \in S /\ DOMAIN b = 1..Len(b)
      /\ \A k \in 1..(Len(b) - 1) : Tail(b)[k] = b[k + 1]
  BY HeadTailProperties, LenProperties, EmptySeq
<1>2. DOMAIN Tail(b) = 1..(Len(b) - 1)  BY <1>1, LenProperties
<1> QED  BY <1>1, <1>2

\* Messages that have nothing to do with the room.
Neutral == {m \in ServerMessages : m.type # "joined" /\ ~Refuses(m)}

\* A step that only adds such messages, and puts nobody out who is not told.
Untouched(u) ==
  /\ tab'[u] = tab[u] /\ inbox'[u] = inbox[u] /\ Handlers(u)' = Handlers(u)
  /\ u \in conn' <=> u \in conn
  /\ Grown(outbox[u], outbox'[u], Neutral)
  /\ InRoom(u) => InRoom(u)' \/ Doomed(u)'

LEMMA UntouchedStep ==
  ASSUME ServerTypeOK, NEW u \in Users, TabInStep(u), Untouched(u)
  PROVE  TabInStep(u)'
<1>1. outbox[u] \in Seq(ServerMessages) /\ Neutral \in SUBSET ServerMessages
  BY DEF ServerTypeOK, Neutral
<1>2. Extends(outbox[u], outbox'[u], Neutral)  BY <1>1, GrownExtends DEF Untouched
<1> SUFFICES ASSUME ~tab[u].shut PROVE (OneJoin(u) /\ Placed(u) /\ Warned(u) /\ Phased(u))'
  BY DEF TabInStep, Untouched
<1>3. OneJoin(u) /\ Placed(u) /\ Warned(u) /\ Phased(u)  BY DEF TabInStep
<1>4. Answers(u)' = Answers(u) /\ Asks(u)' = Asks(u)
  BY <1>2 DEF Untouched, Extends, Neutral, Answers, Asks
<1>5. \A k \in Answers(u) : outbox'[u][k] = outbox[u][k]  BY <1>2 DEF Extends, Answers
<1>6. OneJoin(u)'  BY <1>3, <1>4, <1>5 DEF OneJoin, Untouched
<1>7. Doomed(u) => Doomed(u)'  BY <1>2 DEF Extends, Doomed
<1>8. BelongsIn(u)' => BelongsIn(u)  BY <1>4, <1>5 DEF Untouched, BelongsIn
<1>9. Placed(u)'  BY <1>3, <1>7, <1>8 DEF Placed, Untouched
<1>10. Warned(u)'
  <2> SUFFICES ASSUME NEW k \in DOMAIN outbox'[u], Refuses(outbox'[u][k])
               PROVE  \E l \in DOMAIN outbox'[u] : l < k /\ Dooms(outbox'[u][l])
    BY DEF Warned
  <2>1. k \in DOMAIN outbox[u] /\ outbox'[u][k] = outbox[u][k]
    BY <1>2 DEF Extends, Neutral
  <2>2. PICK l \in DOMAIN outbox[u] : l < k /\ Dooms(outbox[u][l])  BY <1>3, <2>1 DEF Warned
  <2> QED  BY <1>2, <2>2 DEF Extends
<1>11. Phased(u)'  BY <1>3 DEF Phased, Untouched
<1> QED  BY <1>6, <1>9, <1>10, <1>11

\* An answer, an announcement, or both.
LEMMA RepliesGrow ==
  ASSUME ServerTypeOK, NEW t \in Tasks, NEW m, NEW u \in Users
  PROVE  /\ Reply(outbox, t, m)[u] = IF t.alive /\ t.user = u THEN Append(outbox[u], m)
                                     ELSE outbox[u]
         /\ \A n : Reply(Reply(outbox, t, m), t, n)[u] =
              IF t.alive /\ t.user = u THEN Append(Append(outbox[u], m), n) ELSE outbox[u]
         /\ \A n, r : Reply(Broadcast(outbox, r, n), t, m)[u] =
              IF t.alive /\ t.user = u THEN Append(Broadcast(outbox, r, n)[u], m)
              ELSE Broadcast(outbox, r, n)[u]
<1>1. t.user \in Users /\ outbox \in [Users -> Seq(ServerMessages)]  BY DEF Tasks, ServerTypeOK
<1>2. Emit(outbox, t.user, m) =
        [v \in Users |-> IF v = t.user THEN Append(outbox[v], m) ELSE outbox[v]]
  BY <1>1 DEF Emit
<1>3. \A n : Emit(Emit(outbox, t.user, m), t.user, n)[u] =
        IF t.user = u THEN Append(Append(outbox[u], m), n) ELSE outbox[u]
  BY <1>1, <1>2 DEF Emit
<1>4. CASE t.alive
  <2>1. \A b, n : Reply(b, t, n) = Emit(b, t.user, n)  BY <1>4 DEF Reply
  <2>2. Reply(outbox, t, m)[u] = IF t.user = u THEN Append(outbox[u], m) ELSE outbox[u]
    BY <1>2, <1>4 DEF Reply
  <2>3. ASSUME NEW n
        PROVE  Reply(Reply(outbox, t, m), t, n)[u] =
                 IF t.user = u THEN Append(Append(outbox[u], m), n) ELSE outbox[u]
    <3>1. Reply(Reply(outbox, t, m), t, n) = Emit(Emit(outbox, t.user, m), t.user, n)
      BY <2>1
    <3> QED  BY <1>3, <3>1
  <2>4. ASSUME NEW n, NEW r
        PROVE  Reply(Broadcast(outbox, r, n), t, m)[u] =
                 IF t.user = u THEN Append(Broadcast(outbox, r, n)[u], m)
                 ELSE Broadcast(outbox, r, n)[u]
    <3> DEFINE B == Broadcast(outbox, r, n)
    <3>1. Reply(B, t, m) = Emit(B, t.user, m)  BY <1>4 DEF Reply
    <3>2. B = [v \in Users |-> B[v]]  BY DEF Broadcast
    <3> HIDE DEF B
    <3>3. Emit(B, t.user, m)[u] = IF t.user = u THEN Append(B[u], m) ELSE B[u]
      BY <1>1, <3>2 DEF Emit
    <3> QED  BY <3>1, <3>3 DEF B
  <2> QED  BY <1>4, <2>2, <2>3, <2>4
<1>5. CASE ~t.alive
  <2>1. \A b, n : Reply(b, t, n) = b  BY <1>5 DEF Reply
  <2> QED  BY <1>5, <2>1
<1> QED  BY <1>4, <1>5

LEMMA NeutralMessages ==
  /\ \A t \in Tasks, code \in Codes, rev \in Nat :
       code # "NOT_JOINED" => Ack(t, code, rev) \in Neutral
  /\ [type |-> "access-revoked"] \in Neutral /\ Dooms([type |-> "access-revoked"])
  /\ \A p \in {"view", "edit"} : [type |-> "access-changed", permission |-> p] \in Neutral
  /\ \A o \in Ops, r \in Nat : [type |-> "op", op |-> o, rev |-> r] \in Neutral
BY MessageTypes DEF Neutral, Refuses, Dooms, Ack

\* The steps of the queue.
LEMMA OpStepLeaves ==
  ASSUME SyncInv, UNCHANGED tab, NEW u \in Users, NEW i \in DOMAIN line,
         OpStep(i) \/ OpCommitLost(i)
  PROVE  Untouched(u)
<1> USE DEF dbVars, lineVars, socketVars
<1> DEFINE t == line[i]
<1>1. ServerTypeOK /\ t \in Tasks /\ t.op \in Ops /\ t.rev \in Nat /\ dedupe \in [Ops -> Nat]
  <2>1. ServerTypeOK  BY DEF SyncInv, ServerInv
  <2>2. t \in Tasks  BY <2>1, TasksLeave DEF ServerTypeOK
  <2> QED  BY <2>1, <2>2 DEF Tasks, ServerTypeOK
<1>2. ASSUME NEW m \in Neutral, outbox' = Reply(outbox, t, m),
             UNCHANGED <<conn, room, joined, joining, inbox>>
      PROVE  Untouched(u)
  <2>1. Grown(outbox[u], outbox'[u], Neutral)
    BY ZenonT(40), <1>1, <1>2, RepliesGrow DEF Grown
  <2> QED  BY <1>2, <2>1 DEF Untouched, InRoom, Handlers
<1>3. ASSUME UNCHANGED <<conn, room, joined, joining, inbox, outbox>> PROVE Untouched(u)
  BY <1>3 DEF Untouched, InRoom, Handlers, Grown
<1>4. CASE OpAuthorize(i) \/ OpCommit(i)  BY <1>3, <1>4 DEF OpAuthorize, OpCommit
<1>5. CASE OpDuplicate(i)
  <2>1. Ack(t, "OK", dedupe[t.op]) \in Neutral  BY <1>1, NeutralMessages DEF Codes
  <2> QED  BY <1>2, <1>5, <2>1 DEF OpDuplicate
<1>6. CASE OpReadOnly(i) \/ OpNotWritable(i) \/ OpFails(i) \/ OpCommitLost(i)
  <2>1. \A code \in FailureCodes \cup {"READ_ONLY", "SHEET_NOT_WRITABLE"} :
          Ack(t, code, 0) \in Neutral
    BY <1>1, NeutralMessages DEF Codes, FailureCodes
  <2>2. "SERVER_ERROR" \in FailureCodes  BY DEF FailureCodes
  <2>3. UNCHANGED <<conn, room, joined, joining, inbox>>
    BY <1>6 DEF OpReadOnly, OpNotWritable, OpFails, OpCommitLost
  <2>4. \E code \in FailureCodes \cup {"READ_ONLY", "SHEET_NOT_WRITABLE"} :
          outbox' = Reply(outbox, t, Ack(t, code, 0))
    BY <1>6, <2>2 DEF OpReadOnly, OpNotWritable, OpFails, OpCommitLost
  <2> QED  BY <1>2, <2>1, <2>3, <2>4
<1>7. CASE OpNotFound(i)
  <2> DEFINE m == [type |-> "access-revoked"]
             n == Ack(t, "NOT_FOUND", 0)
  <2>1. m \in Neutral /\ n \in Neutral /\ Dooms(m)  BY <1>1, NeutralMessages DEF Codes
  <2>0. outbox' = Reply(Reply(outbox, t, m), t, n)  BY <1>7 DEF OpNotFound
  <2> HIDE DEF m, n, t
  <2>2. outbox'[u] = IF t.alive /\ t.user = u THEN Append(Append(outbox[u], m), n)
                     ELSE outbox[u]
    BY <1>1, <2>0, RepliesGrow
  <2> USE DEF t
  <2>3. Grown(outbox[u], outbox'[u], Neutral)  BY <2>1, <2>2 DEF Grown
  <2>4. CASE t.alive /\ t.user = u
    <3> DEFINE a == Append(outbox[u], m)
    <3>1. outbox[u] \in Seq(ServerMessages) /\ m \in ServerMessages /\ n \in ServerMessages
      BY <1>1, <2>1 DEF ServerTypeOK, Neutral
    <3>2. /\ a \in Seq(ServerMessages) /\ Len(outbox[u]) + 1 \in DOMAIN a
          /\ a[Len(outbox[u]) + 1] = m
      BY <3>1, AppendExtends
    <3>3. outbox'[u] = Append(a, n)  BY <2>2, <2>4
    <3> HIDE DEF a
    <3>4. Extends(a, outbox'[u], {n})  BY <3>1, <3>2, <3>3, AppendExtends
    <3>5. Doomed(u)'  BY <2>1, <3>2, <3>4 DEF Extends, Doomed
    <3> QED  BY <1>7, <2>3, <3>5 DEF OpNotFound, Untouched, Handlers
  <2>5. CASE ~(t.alive /\ t.user = u)
    <3>1. InRoom(u) => InRoom(u)'  BY <1>7, <2>5 DEF OpNotFound, InRoom
    <3> QED  BY <1>7, <2>3, <3>1 DEF OpNotFound, Untouched, Handlers
  <2> QED  BY <2>4, <2>5
<1>8. CASE OpAnnounce(i)
  <2> DEFINE m == [type |-> "op", op |-> t.op, rev |-> t.rev]
             n == Ack(t, "OK", t.rev)
  <2>1. m \in Neutral /\ n \in Neutral  BY <1>1, NeutralMessages DEF Codes
  <2>2. PICK others : outbox' = Reply(Broadcast(outbox, others, m), t, n)
    BY <1>8 DEF OpAnnounce
  <2>3. outbox'[u] = IF t.alive /\ t.user = u THEN Append(Broadcast(outbox, others, m)[u], n)
                     ELSE Broadcast(outbox, others, m)[u]
    BY <1>1, <2>2, RepliesGrow
  <2>4. Broadcast(outbox, others, m)[u] = outbox[u]
        \/ Broadcast(outbox, others, m)[u] = Append(outbox[u], m)
    BY DEF Broadcast
  <2> HIDE DEF m, n
  <2>5. Grown(outbox[u], outbox'[u], Neutral)  BY <2>1, <2>3, <2>4 DEF Grown
  <2> QED  BY <1>8, <2>5 DEF OpAnnounce, Untouched, Handlers, InRoom
<1> QED  BY <1>4, <1>5, <1>6, <1>7, <1>8 DEF OpStep

\* Admins, evictions and forgetting.
LEMMA ManagementLeaves ==
  ASSUME SyncInv, RoomIsConnected, UNCHANGED tab, NEW u \in Users,
         Management \/ (\E e \in evicting : Evict(e)) \/ (\E o \in Ops : Forget(o))
  PROVE  Untouched(u)
<1> USE DEF dbVars, lineVars, socketVars
<1>1. outbox \in [Users -> Seq(ServerMessages)] /\ room \subseteq Users
  BY DEF SyncInv, ServerInv, ServerTypeOK
<1>2. ASSUME UNCHANGED <<conn, room, joined, joining, inbox, outbox>> PROVE Untouched(u)
  BY <1>2 DEF Untouched, InRoom, Handlers, Grown
<1>3. ASSUME NEW v \in Users, NEW p \in {"view", "edit"}, Assign(v, p) PROVE Untouched(u)
  <2>1. [type |-> "access-changed", permission |-> p] \in Neutral  BY NeutralMessages
  <2>2. Grown(outbox[u], outbox'[u], Neutral)
    BY <1>1, <1>3, <2>1 DEF Assign, Emit, Grown
  <2> QED  BY <1>3, <2>2 DEF Assign, Untouched, InRoom, Handlers
<1>4. ASSUME NEW e \in evicting, Evict(e) PROVE Untouched(u)
  <2> DEFINE m == [type |-> "access-revoked"]
             told == IF e = Users THEN room ELSE e \cap conn
  <2>1. m \in Neutral /\ Dooms(m) /\ m \in ServerMessages
    BY NeutralMessages DEF Neutral
  <2>2. outbox'[u] = IF u \in told THEN Append(outbox[u], m) ELSE outbox[u]
    BY <1>4 DEF Evict, Broadcast
  <2>3. u \in room /\ u \in e => u \in told  BY DEF RoomIsConnected
  <2> HIDE DEF m, told
  <2>4. Grown(outbox[u], outbox'[u], Neutral)  BY <2>1, <2>2 DEF Grown
  <2>5. u \in told => Doomed(u)'
    BY SMTT(30), <1>1, <2>1, <2>2, AppendExtends DEF Doomed
  <2>6. InRoom(u) => InRoom(u)' \/ Doomed(u)'  BY <1>4, <2>3, <2>5 DEF Evict, InRoom
  <2> QED  BY <1>4, <2>4, <2>6 DEF Evict, Untouched, Handlers
<1> QED  BY <1>2, <1>3, <1>4 DEF Management, Unassign, SetStatus, SetAccount, Forget


(* The steps of the tab itself. *)

\* Neither its join nor its place among the phases is disturbed.
Steady(s, t) ==
  /\ t.shut = s.shut /\ t.joinNo = s.joinNo /\ t.online = s.online
  /\ t.sync = s.sync \/ s.sync # "joining"
  /\ t.sync \in PastJoining /\ ~t.rerun => s.sync \in PastJoining /\ ~s.rerun
  /\ t.sync = "live" => ~t.rerun \/ (s.sync = "live" /\ t.rerun = s.rerun)
  /\ ~t.first => ~s.first
  /\ s.sync \in {"off", "due"} => t.sync \in {"off", "due"}

LEMMA SteadyAsItIs ==
  ASSUME NEW t \in Tabs
  PROVE  /\ Steady(t, t) /\ Steady(t, Settled(t))
         /\ \A x : Steady(t, [t EXCEPT !.sender = x]) /\ Steady(t, [t EXCEPT !.buffered = x])
                 /\ Steady(t, [t EXCEPT !.editable = x]) /\ Steady(t, [t EXCEPT !.screen = x])
BY DEF Steady, Settled, Tabs

LEMMA PhasedStep ==
  ASSUME NEW u \in Users, Phased(u), Steady(tab[u], tab'[u]), u \in conn' <=> u \in conn
  PROVE  Phased(u)'
BY DEF Phased, Steady

LEMMA TabOnlyStep ==
  ASSUME NEW u \in Users, TabInStep(u), Steady(tab[u], tab'[u]),
         UNCHANGED <<conn, room, joined, joining, inbox, outbox>>
  PROVE  TabInStep(u)'
<1> SUFFICES ASSUME ~tab'[u].shut PROVE (OneJoin(u) /\ Placed(u) /\ Warned(u) /\ Phased(u))'
  BY DEF TabInStep
<1>1. OneJoin(u) /\ Placed(u) /\ Warned(u) /\ Phased(u)  BY DEF TabInStep, Steady
<1>2. Asks(u)' = Asks(u) /\ Answers(u)' = Answers(u) /\ Handlers(u)' = Handlers(u)
  BY DEF Asks, Answers, Handlers
<1>3. OneJoin(u)'
  <2>1. \A k \in Asks(u) \cup Answers(u) \cup Handlers(u) : tab'[u].sync = "joining"
    BY <1>1 DEF OneJoin, Steady
  <2> QED  BY <1>1, <1>2, <2>1 DEF OneJoin, Steady
<1>4. Placed(u)'  BY <1>1, <1>2 DEF Placed, BelongsIn, InRoom, Doomed, Steady
<1>5. Warned(u)'  BY <1>1 DEF Warned
<1>6. Phased(u)'  BY <1>1, PhasedStep
<1> QED  BY <1>3, <1>4, <1>5, <1>6

\* A message that is no answer to a join, puts no overlay up and refuses nothing.
LEMMA ReceiveStep ==
  ASSUME ServerTypeOK, NEW u \in Users, TabInStep(u), Steady(tab[u], tab'[u]),
         outbox[u] # << >>, Message(u).type # "joined", Message(u).type # "access-revoked",
         outbox' = [outbox EXCEPT ![u] = Tail(@)],
         UNCHANGED <<conn, room, joined, joining, inbox>>
  PROVE  TabInStep(u)'
<1> SUFFICES ASSUME ~tab'[u].shut PROVE (OneJoin(u) /\ Placed(u) /\ Warned(u) /\ Phased(u))'
  BY DEF TabInStep
<1>1. OneJoin(u) /\ Placed(u) /\ Warned(u) /\ Phased(u)  BY DEF TabInStep, Steady
<1> DEFINE b == outbox[u]
           c == Tail(outbox[u])
<1>2. outbox'[u] = c /\ b \in Seq(ServerMessages)  BY DEF ServerTypeOK
<1>3. /\ 1 \in DOMAIN b /\ Message(u) = b[1]
      /\ \A k \in DOMAIN c : k + 1 \in DOMAIN b /\ c[k] = b[k + 1] /\ k \in Nat
      /\ \A k \in DOMAIN b : k # 1 => k - 1 \in DOMAIN c /\ c[k - 1] = b[k]
      /\ \A k \in DOMAIN b : k \in Nat
  <2>1. \A k \in DOMAIN b : k \in Nat  BY <1>2, LenProperties
  <2> QED  BY <1>2, <2>1, TailShifts DEF Message
<1>4. \A k \in DOMAIN b : Dooms(b[k]) => k # 1  BY <1>3 DEF Dooms
<1> HIDE DEF b, c
<1>5. \A k \in Answers(u)' : k + 1 \in Answers(u) /\ outbox'[u][k] = outbox[u][k + 1]
  BY <1>2, <1>3 DEF Answers, b
<1>6. Asks(u)' = Asks(u) /\ Handlers(u)' = Handlers(u)  BY DEF Asks, Handlers
<1>7. OneJoin(u)'
  <2>1. \A k \in Asks(u) \cup Answers(u) \cup Handlers(u) : tab'[u].sync = "joining"
    BY <1>1 DEF OneJoin, Steady
  <2>2. Answers(u) = {} => Answers(u)' = {}  BY <1>5
  <2>3. \A k, l \in Answers(u)' : k = l
    <3> SUFFICES ASSUME NEW k \in Answers(u)', NEW l \in Answers(u)' PROVE k = l  OBVIOUS
    <3>1. k \in Nat /\ l \in Nat  BY <1>2, <1>3 DEF Answers
    <3>2. k + 1 = l + 1  BY <1>1, <1>5 DEF OneJoin
    <3> QED  BY <3>1, <3>2
  <2>4. \A k \in Answers(u)' : outbox'[u][k].n = tab'[u].joinNo /\ tab'[u].sync = "joining"
    BY <1>1, <1>5, <2>1 DEF OneJoin, Steady
  <2>5. tab'[u].joinNo = tab[u].joinNo  BY DEF Steady
  <2> QED  BY <1>1, <1>6, <2>1, <2>2, <2>3, <2>4, <2>5 DEF OneJoin
<1>8. Doomed(u) => Doomed(u)'  BY <1>2, <1>3, <1>4 DEF Doomed, b
<1>9. BelongsIn(u)' => BelongsIn(u)  BY <1>5, <1>6 DEF BelongsIn, Steady
<1>10. Placed(u)'  BY <1>1, <1>8, <1>9 DEF Placed, InRoom
<1>11. Warned(u)'
  <2> SUFFICES ASSUME NEW k \in DOMAIN c, Refuses(c[k])
               PROVE  \E l \in DOMAIN c : l < k /\ Dooms(c[l])
    BY <1>2 DEF Warned
  <2>1. PICK l \in DOMAIN b : l < k + 1 /\ Dooms(b[l])  BY <1>1, <1>3 DEF Warned, b
  <2>2. l # 1 /\ l \in Nat /\ k \in Nat  BY <1>3, <1>4, <2>1
  <2>3. l - 1 \in DOMAIN c /\ c[l - 1] = b[l] /\ l - 1 < k  BY <1>3, <2>1, <2>2
  <2> QED  BY <2>1, <2>3
<1>12. Phased(u)'  BY <1>1, PhasedStep
<1> QED  BY <1>7, <1>10, <1>11, <1>12

\* What the tab does with none of its messages.
LEMMA OwnSteps ==
  ASSUME SyncInv, NEW u \in Users, TabInStep(u), UNCHANGED serverVars,
         \/ Open(u) \/ PauseOver(u) \/ AckTimeout(u) \/ (\E o \in Ops : Type(u, o))
         \/ Drained(u) \/ DrainTimeout(u) \/ FetchRow(u) \/ FetchCells(u) \/ FetchFails(u)
         \/ Mount(u)
  PROVE  TabInStep(u)' /\ \A v \in Users : v # u => tab'[v] = tab[v]
<1>1. tab \in [Users -> Tabs]  BY DEF SyncInv, TabsInv, TabsTyped
<1> DEFINE t == tab[u]
           Elsewhere == \A v \in Users : v # u => tab'[v] = tab[v]
<1>2. t \in Tabs  BY <1>1
<1>3. ASSUME NEW x, tab' = [tab EXCEPT ![u] = x], Steady(t, x) PROVE TabInStep(u)' /\ Elsewhere
  <2>1. tab'[u] = x /\ Elsewhere  BY <1>1, <1>3
  <2>2. UNCHANGED <<conn, room, joined, joining, inbox, outbox>>  BY DEF serverVars, socketVars
  <2> QED  BY <1>3, <2>1, <2>2, TabOnlyStep
<1>4. CASE Open(u)
  <2>1. Steady(t, [t EXCEPT !.sync = "due"])
    BY <1>2, <1>4 DEF Open, Steady, Tabs, PastJoining
  <2> QED  BY <1>3, <1>4, <2>1 DEF Open
<1>5. CASE PauseOver(u)
  <2>1. Steady(t, [t EXCEPT !.sender = "idle"])  BY <1>2 DEF Steady, Tabs, PastJoining
  <2> QED  BY <1>3, <1>5, <2>1 DEF PauseOver
<1>6. CASE AckTimeout(u)
  <2>1. Steady(t, Settled(t)) /\ Steady(t, [t EXCEPT !.sender = "pausing", !.att = t.att + 1])
    BY <1>2 DEF Steady, Tabs, PastJoining, Settled
  <2> QED  BY <1>3, <1>6, <2>1 DEF AckTimeout, RetryOrGiveUp
<1>7. CASE \E o \in Ops : Type(u, o)
  <2>1. PICK o \in Ops : Type(u, o)  BY <1>7
  <2> DEFINE x == [t EXCEPT !.screen[ItemOf[o]] = o, !.unsaved = Append(t.unsaved, o)]
  <2>2. Steady(t, x)  BY <1>2 DEF Steady, Tabs, PastJoining
  <2>3. tab' = [tab EXCEPT ![u] = x]  BY <1>1, <2>1 DEF Type
  <2> QED  BY <1>3, <2>2, <2>3
<1>8. CASE Drained(u)
  <2>1. Steady(t, [t EXCEPT !.sync = "fetching"])
    BY <1>2, <1>8 DEF Drained, Steady, Tabs, PastJoining
  <2> QED  BY <1>3, <1>8, <2>1 DEF Drained
<1>9. CASE DrainTimeout(u) \/ FetchFails(u)
  <2>1. Steady(t, [t EXCEPT !.sync = "due"])
    BY <1>2, <1>9 DEF DrainTimeout, FetchFails, Steady, Tabs, PastJoining
  <2> QED  BY <1>3, <1>9, <2>1 DEF DrainTimeout, FetchFails
<1>10. CASE FetchRow(u)
  <2> DEFINE x == [t EXCEPT !.sync = "reading", !.snap = Len(log), !.granted = Access(u) = "edit"]
  <2>1. Steady(t, x)  BY <1>2, <1>10 DEF FetchRow, Steady, Tabs, PastJoining
  <2>2. tab' = [tab EXCEPT ![u] = x]  BY <1>1, <1>10 DEF FetchRow
  <2> QED  BY <1>3, <2>1, <2>2
<1>11. CASE FetchCells(u)
  <2> DEFINE x == [t EXCEPT !.sync = "mounting", !.cells = content]
  <2>1. Steady(t, x)  BY <1>2, <1>11 DEF FetchCells, Steady, Tabs, PastJoining
  <2>2. tab' = [tab EXCEPT ![u] = x]  BY <1>1, <1>11 DEF FetchCells
  <2> QED  BY <1>3, <2>1, <2>2
<1>12. CASE Mount(u)
  <2> DEFINE x == [t EXCEPT !.screen = Replay(t), !.buffered = {},
                            !.cells = [i \in Items |-> Blank],
                            !.editable = t.granted, !.rerun = FALSE,
                            !.sync = IF t.rerun THEN "due" ELSE "live",
                            !.first = t.first \/ ~t.rerun]
  <2>1. Steady(t, x)
    <3>1. /\ x.shut = t.shut /\ x.joinNo = t.joinNo /\ x.online = t.online
          /\ x.sync = (IF t.rerun THEN "due" ELSE "live") /\ x.rerun = FALSE
          /\ x.first = (t.first \/ ~t.rerun)
      BY <1>2 DEF Tabs
    <3>2. t.sync = "mounting" /\ t.rerun \in BOOLEAN /\ t.first \in BOOLEAN
      BY <1>2, <1>12 DEF Mount, Tabs
    <3> QED  BY <3>1, <3>2 DEF Steady, PastJoining
  <2>2. tab' = [tab EXCEPT ![u] = x]  BY <1>1, <1>12 DEF Mount
  <2> QED  BY <1>3, <2>1, <2>2
<1> QED  BY <1>4, <1>5, <1>6, <1>7, <1>8, <1>9, <1>10, <1>11, <1>12

LEMMA Receipts ==
  ASSUME SyncInv, NEW u \in Users, TabInStep(u),
         ReceiveOp(u) \/ ReceiveChanged(u) \/ ReceiveRevoked(u) \/ ReceiveAck(u)
  PROVE  TabInStep(u)'
<1> USE DEF Gets
<1>1. ServerTypeOK /\ tab \in [Users -> Tabs]
  BY DEF SyncInv, ServerInv, TabsInv, TabsTyped
<1> DEFINE t == tab[u]
<1>2. t \in Tabs  BY <1>1
<1>3. ASSUME NEW x, tab' = [tab EXCEPT ![u] = x], Steady(t, x),
             outbox[u] # << >>, Message(u).type \in {"op", "access-changed", "ack"},
             outbox' = [outbox EXCEPT ![u] = Tail(@)],
             UNCHANGED <<conn, room, joined, joining, inbox>>
      PROVE  TabInStep(u)'
  <2>1. tab'[u] = x  BY <1>1, <1>3
  <2> QED  BY <1>1, <1>3, <2>1, ReceiveStep
<1>4. CASE ReceiveOp(u)
  <2> DEFINE x == CASE t.sync = "live" -> ApplyOp(t, Message(u))
                    [] t.sync \in {"off", "due", "revoked"} -> t
                    [] OTHER -> [t EXCEPT !.buffered = t.buffered \cup {Message(u)}]
  <2>1. Steady(t, t) /\ Steady(t, [t EXCEPT !.buffered = t.buffered \cup {Message(u)}])
    BY <1>2, SteadyAsItIs
  <2>2. Steady(t, ApplyOp(t, Message(u)))
    BY <1>2, <2>1, SteadyAsItIs DEF ApplyOp
  <2>3. Steady(t, x)  BY <2>1, <2>2
  <2>4. tab' = [tab EXCEPT ![u] = x]  BY <1>1, <1>4 DEF ReceiveOp
  <2> HIDE DEF x
  <2> QED  BY <1>3, <1>4, <2>3, <2>4 DEF ReceiveOp
<1>5. CASE ReceiveChanged(u)
  <2> DEFINE x == [t EXCEPT !.editable = Message(u).permission = "edit"]
  <2>1. Steady(t, x)  BY <1>2, SteadyAsItIs
  <2>2. tab' = [tab EXCEPT ![u] = x]  BY <1>1, <1>5 DEF ReceiveChanged
  <2> HIDE DEF x
  <2> QED  BY <1>3, <1>5, <2>1, <2>2 DEF ReceiveChanged
<1>6. CASE ReceiveRevoked(u)
  <2>1. tab'[u].shut = TRUE  BY <1>1, <1>6 DEF ReceiveRevoked, Tabs
  <2> QED  BY <2>1 DEF TabInStep
<1>7. CASE ReceiveAck(u)
  <2> DEFINE m == Message(u)
             awaited == t.sender = "waiting" /\ m.op = UnsavedHead(u) /\ m.att = t.att
  <2>1. CASE t.shut
    <3> DEFINE some == {t, Settled(t), [t EXCEPT !.sender = "pausing"],
                        [t EXCEPT !.sender = "idle"]}
    <3>1. \A x \in some : x.shut  BY <1>2, <2>1 DEF Settled, Tabs
    <3>2. t \in some /\ Settled(t) \in some /\ [t EXCEPT !.sender = "pausing"] \in some
          /\ [t EXCEPT !.sender = "idle"] \in some
      OBVIOUS
    <3> HIDE DEF some
    <3>3. tab' = tab \/ \E x \in some : tab' = [tab EXCEPT ![u] = x]
      BY <1>7, <3>2 DEF ReceiveAck, RetryOrGiveUp
    <3>4. tab'[u].shut  BY <1>1, <2>1, <3>1, <3>3
    <3> QED  BY <3>4 DEF TabInStep
  <2>2. CASE ~t.shut
    <3>1. m.code # "NOT_JOINED"
      <4>1. /\ 1 \in DOMAIN outbox[u] /\ m = outbox[u][1]
            /\ \A l \in DOMAIN outbox[u] : l \in Nat /\ l >= 1
        BY <1>1, <1>7, MessagesAreTyped, LenProperties DEF ReceiveAck, ServerTypeOK
      <4>2. ~Refuses(m)  BY <2>2, <4>1 DEF TabInStep, Warned
      <4> QED  BY <1>7, <4>2 DEF ReceiveAck, Refuses
    <3>2. Steady(t, t) /\ Steady(t, Settled(t)) /\ Steady(t, [t EXCEPT !.sender = "pausing"])
      BY <1>2, SteadyAsItIs
    <3>3. PICK x \in {t, Settled(t), [t EXCEPT !.sender = "pausing"]} :
            tab' = [tab EXCEPT ![u] = x] /\ UNCHANGED inbox
      <4>1. tab = [tab EXCEPT ![u] = t]  BY <1>1
      <4> QED  BY <1>1, <1>7, <3>1, <4>1 DEF ReceiveAck, RetryOrGiveUp
    <3>4. Steady(t, x)  BY <3>2
    <3> QED  BY <1>3, <1>7, <3>3, <3>4 DEF ReceiveAck
  <2> QED  BY <2>1, <2>2
<1> QED  BY <1>4, <1>5, <1>6, <1>7

\* The answer to the attempt's join lets the tab in, or it begins again, or shuts.
LEMMA JoinReceived ==
  ASSUME SyncInv, NEW u \in Users, TabInStep(u), ReceiveJoined(u)
  PROVE  TabInStep(u)'
<1> USE DEF Gets
<1>1. ServerTypeOK /\ tab \in [Users -> Tabs]
  BY DEF SyncInv, ServerInv, TabsInv, TabsTyped
<1> DEFINE t == tab[u]
           m == Message(u)
           b == outbox[u]
           c == Tail(outbox[u])
<1>2. /\ t \in Tabs /\ outbox'[u] = c /\ b \in Seq(ServerMessages) /\ b # << >>
      /\ m.type = "joined" /\ UNCHANGED <<conn, room, joined, joining, inbox>>
  BY <1>1 DEF ReceiveJoined, ServerTypeOK
<1>3. /\ m \in ServerMessages /\ 1 \in DOMAIN b /\ m = b[1]
      /\ \A k \in DOMAIN c : k + 1 \in DOMAIN b /\ c[k] = b[k + 1] /\ k \in Nat
      /\ \A k \in DOMAIN b : k # 1 => k - 1 \in DOMAIN c /\ c[k - 1] = b[k]
      /\ \A k \in DOMAIN b : k \in Nat /\ k >= 1
  <2>1. \A k \in DOMAIN b : k \in Nat /\ k >= 1  BY <1>2, LenProperties
  <2> QED  BY <1>2, <2>1, TailShifts DEF Message
<1>4. m.code \in {"OK", "NOT_FOUND", "SERVER_ERROR"}
  BY <1>2, <1>3 DEF ServerMessages, JoinCodes
<1> SUFFICES ASSUME ~tab'[u].shut PROVE (OneJoin(u) /\ Placed(u) /\ Warned(u) /\ Phased(u))'
  BY DEF TabInStep
<1>5. ~t.shut
  <2> DEFINE again == [t EXCEPT !.sync = "due", !.rerun = FALSE]
             some == {t, [t EXCEPT !.online = TRUE, !.sync = IF t.unsaved = << >> THEN "fetching"
                                                             ELSE "draining"],
                      [t EXCEPT !.sync = "due"], [again EXCEPT !.shut = TRUE],
                      [t EXCEPT !.sync = "revoked", !.shut = TRUE, !.first = TRUE]}
  <2>1. \A x \in some : t.shut => x.shut  BY <1>2 DEF Tabs
  <2>2. tab' = tab \/ \E x \in some : tab' = [tab EXCEPT ![u] = x]
    BY <1>1, <1>4 DEF ReceiveJoined
  <2> HIDE DEF some
  <2> QED  BY <1>1, <2>1, <2>2
<1>6. OneJoin(u) /\ Placed(u) /\ Warned(u) /\ Phased(u)  BY <1>5 DEF TabInStep
<1>7. 1 \in Answers(u)  BY <1>2, <1>3 DEF Answers
<1>8. t.sync = "joining" /\ m.n = t.joinNo  BY <1>3, <1>6, <1>7 DEF OneJoin
<1>9. Asks(u) = {} /\ Handlers(u) = {}  BY <1>6, <1>7 DEF OneJoin
<1>10. m.code # "NOT_FOUND"
  <2> SUFFICES ASSUME m.code = "NOT_FOUND" PROVE tab'[u].shut = TRUE  OBVIOUS
  <2>1. tab' = [tab EXCEPT ![u] =
          IF t.rerun THEN [t EXCEPT !.sync = "due", !.rerun = FALSE, !.shut = TRUE]
          ELSE [t EXCEPT !.sync = "revoked", !.shut = TRUE, !.first = TRUE]]
    BY <1>1, <1>8 DEF ReceiveJoined
  <2> QED  BY <1>1, <1>2, <2>1 DEF Tabs
<1>11. /\ m.code = "OK" => tab'[u].online /\ tab'[u].sync \in {"fetching", "draining"}
       /\ m.code = "SERVER_ERROR" => tab'[u].online = t.online /\ tab'[u].sync = "due"
       /\ tab'[u].rerun = t.rerun /\ tab'[u].first = t.first
  <2>1. tab' = [tab EXCEPT ![u] =
          IF m.code = "OK"
          THEN [t EXCEPT !.online = TRUE,
                         !.sync = IF t.unsaved = << >> THEN "fetching" ELSE "draining"]
          ELSE [t EXCEPT !.sync = "due"]]
    BY <1>1, <1>4, <1>8, <1>10 DEF ReceiveJoined
  <2> QED  BY <1>1, <1>2, <2>1 DEF Tabs
<1> HIDE DEF m, b, c
<1>12. Answers(u)' = {}
  <2> SUFFICES ASSUME NEW k \in Answers(u)' PROVE FALSE  OBVIOUS
  <2>1. k + 1 \in Answers(u) /\ k \in Nat  BY <1>2, <1>3 DEF Answers, b
  <2>2. k + 1 = 1  BY <1>6, <1>7, <2>1 DEF OneJoin
  <2>3. k = 0  BY <2>1, <2>2
  <2>4. c \in Seq(ServerMessages)  BY <1>2, TailShifts DEF b, c
  <2>5. k \in DOMAIN c  BY <1>2 DEF Answers
  <2> QED  BY <2>3, <2>4, <2>5, LenProperties
<1>13. Asks(u)' = {} /\ Handlers(u)' = {}  BY <1>2, <1>9 DEF Asks, Handlers
<1>14. OneJoin(u)'  BY <1>12, <1>13 DEF OneJoin
<1>15. ~Dooms(m)  BY <1>2, <1>10 DEF Dooms
<1>16. Doomed(u) => Doomed(u)'  BY <1>2, <1>3, <1>15 DEF Doomed, b
<1>17. BelongsIn(u)' => BelongsIn(u)
  <2>1. m.code = "OK" => BelongsIn(u)  BY <1>3, <1>7 DEF BelongsIn, b
  <2> QED  BY <1>2, <1>4, <1>10, <1>11, <1>12, <1>13, <2>1 DEF BelongsIn
<1>18. Placed(u)'  BY <1>2, <1>6, <1>16, <1>17 DEF Placed, InRoom
<1>19. Warned(u)'
  <2> SUFFICES ASSUME NEW k \in DOMAIN c, Refuses(c[k])
               PROVE  \E l \in DOMAIN c : l < k /\ Dooms(c[l])
    BY <1>2 DEF Warned
  <2>1. PICK l \in DOMAIN b : l < k + 1 /\ Dooms(b[l])  BY <1>3, <1>6 DEF Warned, b
  <2>2. l # 1 /\ l \in Nat /\ k \in Nat  BY <1>3, <1>15, <2>1
  <2>3. l - 1 \in DOMAIN c /\ c[l - 1] = b[l] /\ l - 1 < k  BY <1>3, <2>1, <2>2
  <2> QED  BY <2>1, <2>3
<1>20. Phased(u)'
  <2>1. u \notin conn => t.first  BY <1>6, <1>8 DEF Phased
  <2> QED  BY <1>2, <1>4, <1>10, <1>11, <2>1 DEF Phased, PastJoining
<1> QED  BY <1>14, <1>18, <1>19, <1>20

(* The steps that put a message on the wire, and the server's answers. *)

LEMMA SendHeadStep ==
  ASSUME SyncInv, NEW u \in Users, TabInStep(u), SendHead(u)
  PROVE  TabInStep(u)'
<1>1. ServerTypeOK /\ tab \in [Users -> Tabs]
  BY DEF SyncInv, ServerInv, TabsInv, TabsTyped
<1> DEFINE t == tab[u]
           m == [type |-> "op", op |-> UnsavedHead(u), att |-> t.att]
<1>2. /\ tab'[u] = [t EXCEPT !.sender = "waiting"] /\ t \in Tabs /\ t.online
      /\ inbox'[u] = Append(inbox[u], m) /\ inbox[u] \in Seq(ClientMessages)
      /\ UNCHANGED <<conn, room, joined, joining, outbox>>
  BY <1>1 DEF SendHead, Sends, Emit, ServerTypeOK
<1>3. Steady(t, tab'[u])
  <2>1. t \in Tabs /\ tab'[u] = [t EXCEPT !.sender = "waiting"]  BY <1>2
  <2> HIDE DEF t
  <2> QED  BY <2>1 DEF Steady, Tabs
<1> SUFFICES ASSUME ~tab'[u].shut PROVE (OneJoin(u) /\ Placed(u) /\ Warned(u) /\ Phased(u))'
  BY DEF TabInStep
<1>4. OneJoin(u) /\ Placed(u) /\ Warned(u) /\ Phased(u)  BY <1>3 DEF TabInStep, Steady
<1>5. /\ m.type = "op"
      /\ \A k \in DOMAIN inbox[u] : k \in DOMAIN inbox'[u] /\ inbox'[u][k] = inbox[u][k]
      /\ \A k \in DOMAIN inbox'[u] : k \notin DOMAIN inbox[u] => inbox'[u][k] = m
  BY <1>2, AppendProperties, LenProperties
<1> HIDE DEF m
<1>6. Asks(u)' = Asks(u) /\ \A k \in Asks(u) : inbox'[u][k] = inbox[u][k]
  BY <1>5 DEF Asks
<1>7. Answers(u)' = Answers(u) /\ Handlers(u)' = Handlers(u)  BY <1>2 DEF Answers, Handlers
<1>8. tab'[u].sync = t.sync /\ tab'[u].joinNo = t.joinNo  BY <1>2 DEF Tabs
<1>9. OneJoin(u)'
  <2>1. \A k \in Asks(u)' : /\ inbox'[u][k].n = tab'[u].joinNo /\ tab'[u].sync = "joining"
                            /\ \A l \in Asks(u)' : l = k
                            /\ Handlers(u)' = {} /\ Answers(u)' = {}
    BY <1>4, <1>6, <1>7, <1>8 DEF OneJoin
  <2>2. outbox' = outbox  BY <1>2
  <2> QED  BY <1>4, <1>7, <1>8, <2>1, <2>2 DEF OneJoin
<1>10. Placed(u)'  BY <1>2, <1>4 DEF Placed, BelongsIn, InRoom, Doomed
<1>11. Warned(u)'  BY <1>2, <1>4 DEF Warned
<1>12. Phased(u)'  BY <1>2, <1>3, <1>4, PhasedStep
<1> QED  BY <1>9, <1>10, <1>11, <1>12

\* A new attempt begins with nothing of an earlier one under way.
LEMMA AttemptStep ==
  ASSUME SyncInv, NEW u \in Users, TabInStep(u), Attempt(u)
  PROVE  TabInStep(u)'
<1>1. ServerTypeOK /\ tab \in [Users -> Tabs]
  BY DEF SyncInv, ServerInv, TabsInv, TabsTyped
<1> DEFINE t == tab[u]
<1>2. t \in Tabs /\ t.sync = "due"  BY <1>1 DEF Attempt
<1>3. PICK n \in Joins \ {Rejoin} :
        /\ Sends(u, [type |-> "join", n |-> n])
        /\ tab' = [tab EXCEPT ![u] = [t EXCEPT !.sync = "joining", !.joinNo = n,
                                               !.buffered = {}]]
  BY <1>1 DEF Attempt
<1> DEFINE m == [type |-> "join", n |-> n]
<1>4. /\ inbox'[u] = Append(inbox[u], m) /\ inbox[u] \in Seq(ClientMessages)
      /\ UNCHANGED <<conn, room, joined, joining, outbox>>
  BY <1>1, <1>3 DEF Sends, Emit, ServerTypeOK
<1>5. /\ tab'[u].sync = "joining" /\ tab'[u].joinNo = n /\ tab'[u].online = t.online
      /\ tab'[u].shut = t.shut /\ tab'[u].first = t.first /\ u \in conn
  BY <1>1, <1>2, <1>3 DEF Tabs, Attempt
<1> SUFFICES ASSUME ~tab'[u].shut PROVE (OneJoin(u) /\ Placed(u) /\ Warned(u) /\ Phased(u))'
  BY DEF TabInStep
<1>6. OneJoin(u) /\ Placed(u) /\ Warned(u) /\ Phased(u)  BY <1>5 DEF TabInStep
<1>7. Asks(u) = {} /\ Handlers(u) = {} /\ Answers(u) = {}  BY <1>2, <1>6 DEF OneJoin
<1>8. /\ m.type = "join" /\ m.n = n
      /\ \A k \in DOMAIN inbox'[u] : IF k = Len(inbox[u]) + 1 THEN inbox'[u][k] = m
           ELSE k \in DOMAIN inbox[u] /\ inbox'[u][k] = inbox[u][k]
  BY <1>4, AppendProperties, LenProperties
<1> HIDE DEF m
<1>9. Answers(u)' = {} /\ Handlers(u)' = {}  BY <1>4, <1>7 DEF Answers, Handlers
<1>10. \A k \in Asks(u)' : k = Len(inbox[u]) + 1 /\ inbox'[u][k] = m
  BY <1>7, <1>8 DEF Asks
<1>11. OneJoin(u)'  BY <1>5, <1>8, <1>9, <1>10 DEF OneJoin
<1>12. BelongsIn(u)' => BelongsIn(u)
  <2>1. \A k \in DOMAIN inbox'[u] : inbox'[u][k].type = "op" =>
          k \in DOMAIN inbox[u] /\ inbox[u][k].type = "op"
    BY <1>8
  <2> QED  BY <1>5, <1>9, <2>1 DEF BelongsIn
<1>13. Placed(u)'  BY <1>4, <1>6, <1>12 DEF Placed, InRoom, Doomed
<1>14. Warned(u)'  BY <1>4, <1>6 DEF Warned
<1>15. Phased(u)'  BY <1>4, <1>5 DEF Phased, PastJoining
<1> QED  BY <1>11, <1>13, <1>14, <1>15

\* The server takes a message out of the inbox.
LEMMA InboxShifts ==
  ASSUME ServerTypeOK, NEW u \in Users, NEW kind, Arrives(u, kind)
  PROVE  /\ 1 \in DOMAIN inbox[u] /\ inbox[u][1].type = kind /\ Head(inbox[u]) = inbox[u][1]
         /\ Head(inbox[u]) \in ClientMessages
         /\ inbox'[u] = Tail(inbox[u])
         /\ \A k \in DOMAIN inbox'[u] :
              k + 1 \in DOMAIN inbox[u] /\ inbox'[u][k] = inbox[u][k + 1] /\ k \in Nat /\ k # 0
<1>1. inbox[u] \in Seq(ClientMessages) /\ inbox[u] # << >> /\ inbox'[u] = Tail(inbox[u])
  BY DEF ServerTypeOK, Arrives
<1>2. Tail(inbox[u]) \in Seq(ClientMessages)  BY <1>1, TailShifts
<1>3. \A k \in DOMAIN Tail(inbox[u]) : k \in Nat /\ k # 0  BY <1>2, LenProperties
<1>4. /\ Head(inbox[u]) = inbox[u][1] /\ Head(inbox[u]) \in ClientMessages
      /\ 1 \in DOMAIN inbox[u]
      /\ \A k \in DOMAIN Tail(inbox[u]) :
           k + 1 \in DOMAIN inbox[u] /\ Tail(inbox[u])[k] = inbox[u][k + 1]
  BY <1>1, TailShifts
<1>5. Head(inbox[u]).type = kind  BY DEF Arrives
<1> QED  BY <1>1, <1>3, <1>4, <1>5

LEMMA JoinArrivesStep ==
  ASSUME SyncInv, NEW u \in Users, TabInStep(u), JoinArrives(u), UNCHANGED tab
  PROVE  TabInStep(u)'
<1>1. ServerTypeOK /\ Arrives(u, "join")
  BY DEF SyncInv, ServerInv, JoinArrives
<1>2. /\ 1 \in DOMAIN inbox[u] /\ inbox[u][1].type = "join" /\ Head(inbox[u]) = inbox[u][1]
      /\ \A k \in DOMAIN inbox'[u] :
           k + 1 \in DOMAIN inbox[u] /\ inbox'[u][k] = inbox[u][k + 1] /\ k \in Nat /\ k # 0
  BY <1>1, InboxShifts
<1> DEFINE h == [user |-> u, n |-> Head(inbox[u]).n, stage |-> "checking"]
<1>3. /\ joining' = joining \cup {h} /\ joined' = (IF u \in room THEN joined ELSE joined \ {u})
      /\ UNCHANGED <<conn, room, outbox>>
  BY DEF JoinArrives
<1>4. h.user = u /\ h.n = inbox[u][1].n /\ h.stage = "checking"  BY <1>2
<1> HIDE DEF h
<1> SUFFICES ASSUME ~tab'[u].shut PROVE (OneJoin(u) /\ Placed(u) /\ Warned(u) /\ Phased(u))'
  BY DEF TabInStep
<1>5. OneJoin(u) /\ Placed(u) /\ Warned(u) /\ Phased(u)  BY DEF TabInStep
<1>6. 1 \in Asks(u)  BY <1>2 DEF Asks
<1>7. /\ inbox[u][1].n = tab[u].joinNo /\ tab[u].sync = "joining"
      /\ Handlers(u) = {} /\ Answers(u) = {}
  BY <1>5, <1>6 DEF OneJoin
<1>8. Asks(u)' = {}
  <2> SUFFICES ASSUME NEW k \in Asks(u)' PROVE FALSE  OBVIOUS
  <2>1. k + 1 \in Asks(u) /\ k \in Nat /\ k # 0  BY <1>2 DEF Asks
  <2>2. k + 1 = 1  BY <1>5, <1>6, <2>1 DEF OneJoin
  <2> QED  BY <2>1, <2>2
<1>9. Handlers(u)' = {h} /\ Answers(u)' = {}  BY <1>3, <1>4, <1>7 DEF Handlers, Answers
<1>10. OneJoin(u)'  BY <1>4, <1>7, <1>8, <1>9 DEF OneJoin
<1>11. BelongsIn(u)' => BelongsIn(u)  BY <1>2, <1>4, <1>9 DEF BelongsIn
<1>12. Placed(u)'  BY <1>3, <1>5, <1>11 DEF Placed, InRoom, Doomed
<1>13. Warned(u)'  BY <1>3, <1>5 DEF Warned
<1>14. Phased(u)'  BY <1>3, <1>5 DEF Phased
<1> QED  BY <1>10, <1>12, <1>13, <1>14

\* A change that arrives is queued or refused; it is refused only outside the room.
LEMMA OpArrivesStep ==
  ASSUME SyncInv, NEW u \in Users, TabInStep(u), OpArrives(u) \/ OpRateLimited(u),
         UNCHANGED tab
  PROVE  TabInStep(u)'
<1>1. ServerTypeOK /\ Arrives(u, "op")
  BY DEF SyncInv, ServerInv, OpArrives, OpRateLimited
<1>2. /\ 1 \in DOMAIN inbox[u] /\ inbox[u][1].type = "op" /\ Head(inbox[u]) = inbox[u][1]
      /\ Head(inbox[u]) \in ClientMessages
      /\ \A k \in DOMAIN inbox'[u] :
           k + 1 \in DOMAIN inbox[u] /\ inbox'[u][k] = inbox[u][k + 1] /\ k \in Nat /\ k # 0
  BY <1>1, InboxShifts
<1>3. UNCHANGED <<conn, room, joined, joining>>  BY DEF OpArrives, OpRateLimited
<1> DEFINE q == Request(u, Head(inbox[u]))
<1>4. q \in Tasks  BY <1>1, ArrivalTypes
<1>5. PICK code \in {"NOT_JOINED", "RATE_LIMITED"} :
        /\ outbox' = outbox \/ outbox' = Emit(outbox, u, Ack(q, code, 0))
        /\ code = "NOT_JOINED" => outbox' = outbox \/ ~InRoom(u)
  BY DEF OpArrives, OpRateLimited, InRoom
<1> DEFINE m == Ack(q, code, 0)
<1>6. m \in ServerMessages /\ m.type = "ack" /\ m.code = code
  BY <1>4, MessageTypes DEF Ack, Codes
<1>7. outbox'[u] = outbox[u] \/ outbox'[u] = Append(outbox[u], m)
  BY <1>1, <1>5 DEF Emit, ServerTypeOK
<1> HIDE DEF q, m
<1>8. Extends(outbox[u], outbox'[u], {m})
  <2>1. Grown(outbox[u], outbox'[u], {m})  BY <1>7 DEF Grown
  <2> QED  BY <1>1, <1>6, <2>1, GrownExtends DEF ServerTypeOK
<1> SUFFICES ASSUME ~tab'[u].shut PROVE (OneJoin(u) /\ Placed(u) /\ Warned(u) /\ Phased(u))'
  BY DEF TabInStep
<1>9. OneJoin(u) /\ Placed(u) /\ Warned(u) /\ Phased(u)  BY DEF TabInStep
<1>10. Answers(u)' = Answers(u) /\ \A k \in Answers(u) : outbox'[u][k] = outbox[u][k]
  BY <1>6, <1>8 DEF Answers, Extends
<1>11. Handlers(u)' = Handlers(u)  BY <1>3 DEF Handlers
<1>12. \A k \in Asks(u)' : k + 1 \in Asks(u) /\ inbox'[u][k] = inbox[u][k + 1] /\ k \in Nat
  BY <1>2 DEF Asks
<1>13. OneJoin(u)'
  <2>1. \A k, l \in Asks(u)' : k = l
    <3> SUFFICES ASSUME NEW k \in Asks(u)', NEW l \in Asks(u)' PROVE k = l  OBVIOUS
    <3>1. k + 1 = l + 1 /\ k \in Nat /\ l \in Nat  BY <1>9, <1>12 DEF OneJoin
    <3> QED  BY <3>1
  <2> QED  BY <1>9, <1>10, <1>11, <1>12, <2>1 DEF OneJoin
<1>14. BelongsIn(u)  BY <1>2 DEF BelongsIn
<1>15. Doomed(u) => Doomed(u)'  BY <1>8 DEF Doomed, Extends
<1>16. Placed(u)'  BY <1>3, <1>9, <1>14, <1>15 DEF Placed, InRoom
<1>17. Warned(u)'
  <2> SUFFICES ASSUME NEW k \in DOMAIN outbox'[u], Refuses(outbox'[u][k])
               PROVE  \E l \in DOMAIN outbox'[u] : l < k /\ Dooms(outbox'[u][l])
    BY DEF Warned
  <2>1. CASE k \in DOMAIN outbox[u]
    <3>1. PICK l \in DOMAIN outbox[u] : l < k /\ Dooms(outbox[u][l])
      BY <1>8, <1>9, <2>1 DEF Extends, Warned
    <3> QED  BY <1>8, <3>1 DEF Extends
  <2>2. CASE k \notin DOMAIN outbox[u]
    <3>1. outbox'[u][k] = m /\ \A l \in DOMAIN outbox[u] : l < k
      BY <1>8, <2>2 DEF Extends
    <3>2. outbox' # outbox  BY <2>2
    <3>3. Doomed(u)  BY <1>5, <1>6, <1>9, <1>14, <3>1, <3>2 DEF Refuses, Placed
    <3> QED  BY <1>8, <3>1, <3>3 DEF Extends, Doomed
  <2> QED  BY <2>1, <2>2
<1>18. Phased(u)'  BY <1>3, <1>9 DEF Phased
<1> QED  BY <1>13, <1>16, <1>17, <1>18

\* A handler that goes on to its next query, or answers.
LEMMA HandlerSteps ==
  ASSUME SyncInv, NEW j \in joining, TabInStep(j.user), UNCHANGED tab,
         JoinStep(j) \/ (JoinFails(j) /\ j.stage # "rechecking")
  PROVE  TabInStep(j.user)'
<1> DEFINE u == j.user
<1>1. ServerTypeOK /\ j \in JoinHandlers /\ u \in Users
  BY DEF SyncInv, ServerInv, ServerTypeOK, JoinHandlers
<1>2. UNCHANGED <<conn, inbox>>
  BY DEF JoinStep, JoinCheck, JoinEnters, JoinRecheck, JoinAnswers, JoinFails
<1> SUFFICES ASSUME ~tab'[u].shut PROVE (OneJoin(u) /\ Placed(u) /\ Warned(u) /\ Phased(u))'
  BY DEF TabInStep
<1>3. OneJoin(u) /\ Placed(u) /\ Warned(u) /\ Phased(u)  BY DEF TabInStep
<1>4. j \in Handlers(u)  BY DEF Handlers
<1>5. /\ j.n = tab[u].joinNo /\ tab[u].sync = "joining"
      /\ Handlers(u) = {j} /\ Asks(u) = {} /\ Answers(u) = {}
  BY <1>3, <1>4 DEF OneJoin
<1>6. Asks(u)' = {}  BY <1>2, <1>5 DEF Asks
<1>7. Phased(u)'  BY <1>2, <1>3 DEF Phased
<1>8. ASSUME NEW s \in {"entering", "rechecking", "answering"}, Proceeds(j, s), UNCHANGED outbox,
             \/ InRoom(u)'
             \/ /\ InRoom(u) => InRoom(u)'
                /\ s = "entering" \/ j.stage \in {"rechecking", "answering"}
      PROVE  OneJoin(u)' /\ Placed(u)' /\ Warned(u)'
  <2> DEFINE h == [j EXCEPT !.stage = s]
  <2>1. h.user = u /\ h.n = j.n /\ h.stage = s  BY <1>1 DEF JoinHandlers
  <2>2. joining' = (joining \ {j}) \cup {h}  BY <1>8 DEF Proceeds
  <2> HIDE DEF h
  <2>3. Handlers(u)' = {h}
    <3>1. \A x \in joining : x.user = u => x = j  BY <1>5 DEF Handlers
    <3> QED  BY <2>1, <2>2, <3>1 DEF Handlers
  <2>4. Answers(u)' = {}  BY <1>5, <1>8 DEF Answers
  <2>5. OneJoin(u)'  BY <1>5, <1>6, <2>1, <2>3, <2>4 DEF OneJoin
  <2>6. Doomed(u)' <=> Doomed(u)  BY <1>8 DEF Doomed
  <2>7. CASE InRoom(u)'  BY <1>3, <1>8, <2>5, <2>7 DEF Placed, Warned
  <2>8. CASE ~InRoom(u)'
    <3>1. BelongsIn(u)' => BelongsIn(u)
      BY <1>2, <1>4, <1>8, <2>1, <2>3, <2>4, <2>8 DEF BelongsIn
    <3> QED  BY <1>3, <1>8, <2>5, <2>6, <2>8, <3>1 DEF Placed, Warned
  <2> QED  BY <2>7, <2>8
<1>9. ASSUME NEW code \in JoinCodes, AnswersJoin(j, code),
             \/ code = "NOT_FOUND"
             \/ /\ InRoom(u) => InRoom(u)'
                /\ code = "SERVER_ERROR" \/ j.stage \in {"rechecking", "answering"}
      PROVE  OneJoin(u)' /\ Placed(u)' /\ Warned(u)'
  <2> DEFINE m == Joined(j, code)
  <2>1. m \in ServerMessages /\ m.type = "joined" /\ m.n = j.n /\ m.code = code
    BY <1>1, MessageTypes DEF Joined
  <2>2. outbox'[u] = Append(outbox[u], m) /\ outbox[u] \in Seq(ServerMessages)
    BY <1>1, <1>9 DEF AnswersJoin, Emit, ServerTypeOK
  <2> HIDE DEF m
  <2>3. /\ Extends(outbox[u], outbox'[u], {m}) /\ Len(outbox[u]) + 1 \in DOMAIN outbox'[u]
        /\ outbox'[u][Len(outbox[u]) + 1] = m
        /\ \A k \in DOMAIN outbox'[u] : k # Len(outbox[u]) + 1 => k \in DOMAIN outbox[u]
    <3>1. outbox'[u] \in Seq(ServerMessages) /\ Len(outbox'[u]) = Len(outbox[u]) + 1
      BY <2>1, <2>2, AppendProperties
    <3>2. \A k \in DOMAIN outbox'[u] : k # Len(outbox[u]) + 1 => k \in DOMAIN outbox[u]
      BY <2>2, <3>1, LenProperties
    <3> QED  BY <2>1, <2>2, <3>2, AppendExtends
  <2>4. Handlers(u)' = {}
    <3>1. \A x \in joining : x.user = u => x = j  BY <1>5 DEF Handlers
    <3> QED  BY <1>9, <3>1 DEF AnswersJoin, Handlers
  <2>5. \A k \in Answers(u)' : k = Len(outbox[u]) + 1
    <3> SUFFICES ASSUME NEW k \in Answers(u)', k # Len(outbox[u]) + 1 PROVE FALSE  OBVIOUS
    <3>1. k \in DOMAIN outbox[u] /\ outbox'[u][k] = outbox[u][k]
      BY <2>3 DEF Answers, Extends
    <3> QED  BY <1>5, <3>1 DEF Answers
  <2>6. OneJoin(u)'  BY <1>5, <1>6, <2>1, <2>3, <2>4, <2>5 DEF OneJoin
  <2>7. Warned(u)'  BY <1>3, <2>1, <2>3 DEF Warned, Refuses, Extends
  <2>8. Doomed(u) => Doomed(u)'  BY <2>3 DEF Doomed, Extends
  <2>9. Placed(u)'
    <3>1. CASE code = "NOT_FOUND"
      <4>1. Doomed(u)'  BY <2>1, <2>3, <3>1 DEF Doomed, Dooms
      <4> QED  BY <4>1 DEF Placed
    <3>2. CASE code # "NOT_FOUND"
      <4>1. BelongsIn(u)' => BelongsIn(u)
        BY <1>2, <1>4, <1>9, <2>1, <2>3, <2>4, <2>5, <3>2 DEF BelongsIn
      <4> QED  BY <1>3, <1>9, <2>8, <3>2, <4>1 DEF Placed
    <3> QED  BY <3>1, <3>2
  <2> QED  BY <2>6, <2>7, <2>9
<1>10. CASE JoinCheck(j)
  <2>1. UNCHANGED <<room, joined>>  BY <1>10 DEF JoinCheck
  <2>2. CASE Access(u) # "none"
    BY <1>7, <1>8, <1>10, <2>1, <2>2 DEF JoinCheck, InRoom
  <2>3. CASE Access(u) = "none"
    BY <1>7, <1>9, <1>10, <2>1, <2>3 DEF JoinCheck, InRoom, JoinCodes
  <2> QED  BY <2>2, <2>3
<1>11. CASE JoinEnters(j)
  <2>1. InRoom(u)'  BY <1>11 DEF JoinEnters, InRoom
  <2> QED  BY <1>7, <1>8, <1>11, <2>1 DEF JoinEnters
<1>12. CASE JoinRecheck(j)
  <2>1. CASE Access(u) # "none"
    BY <1>7, <1>8, <1>12, <2>1 DEF JoinRecheck, InRoom
  <2>2. CASE Access(u) = "none"
    BY <1>7, <1>9, <1>12, <2>2 DEF JoinRecheck, JoinCodes
  <2> QED  BY <2>1, <2>2
<1>13. CASE JoinAnswers(j)
  BY <1>7, <1>9, <1>13 DEF JoinAnswers, InRoom, JoinCodes
<1>14. CASE JoinFails(j) /\ j.stage # "rechecking"
  BY <1>7, <1>9, <1>14 DEF JoinFails, InRoom, JoinCodes
<1> QED  BY <1>10, <1>11, <1>12, <1>13, <1>14 DEF JoinStep

(* Connections. *)

LEMMA ConnectStep ==
  ASSUME SyncInv, NEW u \in Users, TabInStep(u), TabConnects(u)
  PROVE  TabInStep(u)'
<1>1. tab \in [Users -> Tabs]  BY DEF SyncInv, TabsInv, TabsTyped
<1> DEFINE t == tab[u]
<1>2. /\ t \in Tabs /\ u \notin conn /\ u \in conn'
      /\ UNCHANGED <<room, joined, joining, inbox, outbox>>
  BY <1>1 DEF TabConnects, Connect, socketVars
<1>3. /\ tab'[u].shut = t.shut /\ tab'[u].joinNo = t.joinNo /\ tab'[u].online = t.online
      /\ tab'[u].sync = t.sync \/ t.sync \in {"live", "revoked"}
      /\ t.first /\ tab'[u].sync \in PastJoining => tab'[u].rerun /\ tab'[u].sync # "live"
      /\ ~t.first => tab'[u] = t
  <2>1. CASE ~t.first
    <3>1. tab'[u] = t  BY <1>1, <2>1 DEF TabConnects
    <3> QED  BY <2>1, <3>1
  <2>2. CASE t.first /\ t.sync \in {"live", "revoked"}
    <3>1. tab'[u] = [t EXCEPT !.sync = "due"]  BY <1>1, <2>2 DEF TabConnects
    <3> QED  BY <1>2, <2>2, <3>1 DEF Tabs, PastJoining
  <2>3. CASE t.first /\ t.sync \notin {"live", "revoked"}
    <3>1. tab'[u] = [t EXCEPT !.rerun = TRUE]  BY <1>1, <2>3 DEF TabConnects
    <3> QED  BY <1>2, <2>3, <3>1 DEF Tabs, PastJoining
  <2> QED  BY <2>1, <2>2, <2>3
<1> SUFFICES ASSUME ~tab'[u].shut PROVE (OneJoin(u) /\ Placed(u) /\ Warned(u) /\ Phased(u))'
  BY DEF TabInStep
<1>4. OneJoin(u) /\ Placed(u) /\ Warned(u) /\ Phased(u)  BY <1>3 DEF TabInStep
<1>5. Asks(u)' = Asks(u) /\ Answers(u)' = Answers(u) /\ Handlers(u)' = Handlers(u)
  BY <1>2 DEF Asks, Answers, Handlers
<1>6. OneJoin(u)'
  <2>1. \A k \in Asks(u) \cup Answers(u) \cup Handlers(u) : tab'[u].sync = "joining"
    BY <1>3, <1>4 DEF OneJoin
  <2> QED  BY <1>2, <1>3, <1>4, <1>5, <2>1 DEF OneJoin
<1>7. Placed(u)'  BY <1>2, <1>3, <1>4, <1>5 DEF Placed, BelongsIn, InRoom, Doomed
<1>8. Warned(u)'  BY <1>2, <1>4 DEF Warned
<1>9. Phased(u)'
  <2>1. CASE t.first  BY <1>2, <1>3, <2>1 DEF Phased, PastJoining
  <2>2. CASE ~t.first
    <3>1. t.sync \in {"off", "due"}  BY <1>2, <1>4, <2>2 DEF Phased
    <3> QED  BY <1>2, <1>3, <2>2, <3>1 DEF Phased, PastJoining
  <2> QED  BY <2>1, <2>2
<1> QED  BY <1>6, <1>7, <1>8, <1>9

\* A tab that is cut off has nothing under way and sends nothing.
LEMMA CutStep ==
  ASSUME NEW u \in Users, tab[u] \in Tabs, TabInStep(u), tab'[u] \in Tabs,
         tab'[u].shut = tab[u].shut, ~tab'[u].online,
         tab'[u].rerun = tab[u].rerun, tab'[u].first = tab[u].first,
         tab'[u].sync # "joining",
         tab'[u].sync \in {tab[u].sync, "due"},
         u \notin conn', inbox'[u] = << >>, outbox'[u] = << >>, Handlers(u)' = {},
         u \in conn => tab[u].first \/ tab[u].sync \in {"off", "due", "joining"}
  PROVE  TabInStep(u)'
<1> SUFFICES ASSUME ~tab'[u].shut PROVE (OneJoin(u) /\ Placed(u) /\ Warned(u) /\ Phased(u))'
  BY DEF TabInStep
<1>1. Phased(u)  BY DEF TabInStep
<1>2. DOMAIN inbox'[u] = {} /\ DOMAIN outbox'[u] = {}  OBVIOUS
<1>3. Asks(u)' = {} /\ Answers(u)' = {}  BY <1>2 DEF Asks, Answers
<1>4. OneJoin(u)'  BY <1>3 DEF OneJoin
<1>5. Placed(u)' /\ Warned(u)'  BY <1>2, <1>3 DEF Placed, BelongsIn, Warned
<1>6. Phased(u)'  BY <1>1 DEF Phased, Tabs
<1> QED  BY <1>4, <1>5, <1>6

LEMMA CutFields ==
  ASSUME NEW t \in Tabs, NEW r \in {t, Settled(t)}
  PROVE  /\ Cut(r).shut = t.shut /\ ~Cut(r).online /\ Cut(r).rerun = t.rerun
         /\ Cut(r).first = t.first /\ Cut(r).sync # "joining"
         /\ Cut(r).sync \in {t.sync, "due"}
<1>1. /\ r.shut = t.shut /\ r.rerun = t.rerun /\ r.first = t.first /\ r.sync = t.sync
      /\ Cut(r).shut = r.shut /\ Cut(r).online = FALSE /\ Cut(r).rerun = r.rerun
      /\ Cut(r).first = r.first
      /\ Cut(r).sync = IF r.sync = "joining" THEN "due" ELSE r.sync
  BY DEF Cut, Settled, Tabs
<1> QED  BY <1>1

LEMMA CutOffStep ==
  ASSUME SyncInv, SyncInv', NEW u \in Users, TabInStep(u), TabDisconnects(u),
         tab[u].first \/ tab[u].sync \in {"off", "due", "joining"}
  PROVE  TabInStep(u)'
<1>1. tab \in [Users -> Tabs] /\ tab' \in [Users -> Tabs] /\ ServerTypeOK
  BY DEF SyncInv, ServerInv, TabsInv, TabsTyped
<1>2. PICK r \in {tab[u], Settled(tab[u])} : tab' = [tab EXCEPT ![u] = Cut(r)]
  BY DEF TabDisconnects
<1>3. tab'[u] = Cut(r)  BY <1>1, <1>2
<1>4. u \notin conn' /\ inbox'[u] = << >> /\ outbox'[u] = << >> /\ Handlers(u)' = {}
  BY <1>1 DEF TabDisconnects, Disconnect, Handlers, ServerTypeOK
<1>5. tab[u] \in Tabs /\ tab'[u] \in Tabs  BY <1>1
<1> QED  BY <1>3, <1>4, <1>5, CutFields, CutStep

LEMMA CutOffAllStep ==
  ASSUME SyncInv, SyncInv', NEW u \in Users, TabInStep(u), TabsRestart,
         u \in conn => tab[u].first \/ tab[u].sync \in {"off", "due", "joining"}
  PROVE  TabInStep(u)'
<1>1. tab[u] \in Tabs /\ tab'[u] \in Tabs  BY DEF SyncInv, TabsInv, TabsTyped
<1>2. PICK givingUp \in SUBSET Users :
        tab' = [v \in Users |->
          LET t == Cut(IF v \in givingUp THEN Settled(tab[v]) ELSE tab[v]) IN
            [t EXCEPT !.sync = IF @ \in {"fetching", "reading"} THEN "due" ELSE @]]
  BY DEF TabsRestart
<1> DEFINE r == IF u \in givingUp THEN Settled(tab[u]) ELSE tab[u]
<1>3. tab'[u] = [Cut(r) EXCEPT !.sync = IF Cut(r).sync \in {"fetching", "reading"} THEN "due"
                                        ELSE Cut(r).sync]
  BY <1>2
<1>4. r \in {tab[u], Settled(tab[u])}  OBVIOUS
<1> HIDE DEF r
<1>5. /\ tab'[u].shut = Cut(r).shut /\ tab'[u].online = Cut(r).online
      /\ tab'[u].rerun = Cut(r).rerun /\ tab'[u].first = Cut(r).first
      /\ tab'[u].sync \in {Cut(r).sync, "due"}
  BY <1>3 DEF Cut
<1>6. u \notin conn' /\ inbox'[u] = << >> /\ outbox'[u] = << >> /\ Handlers(u)' = {}
  BY DEF TabsRestart, Restart, Handlers
<1>7. /\ tab'[u].shut = tab[u].shut /\ ~tab'[u].online /\ tab'[u].rerun = tab[u].rerun
      /\ tab'[u].first = tab[u].first /\ tab'[u].sync # "joining"
      /\ tab'[u].sync \in {tab[u].sync, "due"}
  BY <1>1, <1>4, <1>5, CutFields
<1> QED  BY <1>1, <1>6, <1>7, CutStep

(* The others, and the whole. *)

\* What one tab, or the server for one tab, does leaves the other tabs alone.
LEMMA OthersUntouched ==
  ASSUME SyncInv, NEW u \in Users, NEW w \in Users, w # u,
         \/ QueueStep(u) \/ ControllerStep(u) \/ TabConnects(u) \/ TabDisconnects(u)
         \/ Arrival(u) /\ UNCHANGED tab
         \/ \E j \in joining : j.user = u /\ (JoinStep(j) \/ JoinFails(j)) /\ UNCHANGED tab
  PROVE  Untouched(w)
<1> USE DEF dbVars, lineVars, socketVars, serverVars
<1>1. /\ tab \in [Users -> Tabs] /\ inbox \in [Users -> Seq(ClientMessages)]
      /\ outbox \in [Users -> Seq(ServerMessages)] /\ joining \subseteq JoinHandlers
  BY DEF SyncInv, ServerInv, ServerTypeOK, TabsInv, TabsTyped
<1>2. ASSUME tab'[w] = tab[w], inbox'[w] = inbox[w], outbox'[w] = outbox[w],
             Handlers(w)' = Handlers(w), w \in conn' <=> w \in conn, InRoom(w) => InRoom(w)'
      PROVE  Untouched(w)
  BY <1>2 DEF Untouched, Grown
<1>3. ASSUME tab'[w] = tab[w], inbox'[w] = inbox[w], outbox'[w] = outbox[w],
             UNCHANGED <<conn, room, joined, joining>>
      PROVE  Untouched(w)
  BY <1>2, <1>3 DEF Handlers, InRoom
<1>4. CASE QueueStep(u) \/ ControllerStep(u)
  <2>1. tab'[w] = tab[w]
    BY ZenonT(40), <1>1, <1>4
       DEF QueueStep, SendHead, PauseOver, ReceiveAck, RetryOrGiveUp, ControllerStep, Attempt,
           Drained, DrainTimeout, FetchRow, FetchCells, FetchFails, Mount, ReceiveJoined,
           ReceiveOp, ReceiveRevoked, ReceiveChanged
  <2>2. inbox'[w] = inbox[w]
    BY ZenonT(40), <1>1, <1>4
       DEF QueueStep, SendHead, PauseOver, ReceiveAck, ControllerStep, Attempt, Sends, Emit,
           Drained, DrainTimeout, FetchRow, FetchCells, FetchFails, Mount, ReceiveJoined,
           ReceiveOp, ReceiveRevoked, ReceiveChanged
  <2>3. outbox'[w] = outbox[w] /\ UNCHANGED <<conn, room, joined, joining>>
    BY <1>1, <1>4
       DEF QueueStep, SendHead, PauseOver, ReceiveAck, ControllerStep, Attempt, Sends, Gets,
           Drained, DrainTimeout, FetchRow, FetchCells, FetchFails, Mount, ReceiveJoined,
           ReceiveOp, ReceiveRevoked, ReceiveChanged
  <2> QED  BY SMTT(30), <1>3, <2>1, <2>2, <2>3
<1>5. CASE TabConnects(u)
  BY <1>1, <1>2, <1>5 DEF TabConnects, Connect, Handlers, InRoom
<1>6. CASE TabDisconnects(u)
  <2>1. tab'[w] = tab[w]  BY <1>1, <1>6 DEF TabDisconnects
  <2>2. /\ inbox'[w] = inbox[w] /\ outbox'[w] = outbox[w] /\ Handlers(w)' = Handlers(w)
        /\ w \in conn' <=> w \in conn
        /\ InRoom(w) => InRoom(w)'
    BY <1>1, <1>6 DEF TabDisconnects, Disconnect, Handlers, InRoom
  <2> QED  BY <1>2, <2>1, <2>2
<1>7. CASE Arrival(u) /\ UNCHANGED tab
  <2>1. inbox'[w] = inbox[w]
    BY <1>1, <1>7
       DEF Arrival, JoinArrives, LeaveArrives, OpArrives, OpRateLimited, Arrives
  <2>2. outbox'[w] = outbox[w] /\ UNCHANGED conn
    BY <1>1, <1>7
       DEF Arrival, JoinArrives, LeaveArrives, OpArrives, OpRateLimited, Emit
  <2>3. (InRoom(w) => InRoom(w)') /\ Handlers(w)' = Handlers(w)
    BY <1>7
       DEF Arrival, JoinArrives, LeaveArrives, OpArrives, OpRateLimited, InRoom, Handlers
  <2> QED  BY <1>2, <1>7, <2>1, <2>2, <2>3
<1>8. ASSUME NEW j \in joining, j.user = u, JoinStep(j) \/ JoinFails(j), UNCHANGED tab
      PROVE  Untouched(w)
  <2>1. inbox'[w] = inbox[w] /\ outbox'[w] = outbox[w] /\ UNCHANGED conn
    BY <1>1, <1>8
       DEF JoinStep, JoinFails, JoinCheck, JoinEnters, JoinRecheck, JoinAnswers, AnswersJoin,
           Emit
  <2>2. InRoom(w) => InRoom(w)'
    BY <1>8
       DEF JoinStep, JoinFails, JoinCheck, JoinEnters, JoinRecheck, JoinAnswers, Leaves, InRoom
  <2>3. Handlers(w)' = Handlers(w)
    <3>1. \A s : [j EXCEPT !.stage = s].user = u  BY <1>1, <1>8 DEF JoinHandlers
    <3>2. joining' = joining \ {j} \/ \E s : Proceeds(j, s)
      BY <1>8
         DEF JoinStep, JoinFails, JoinCheck, JoinEnters, JoinRecheck, JoinAnswers, AnswersJoin
    <3> QED  BY <1>8, <3>1, <3>2 DEF Proceeds, Handlers
  <2> QED  BY <1>2, <1>8, <2>1, <2>2, <2>3
<1> QED  BY <1>4, <1>5, <1>6, <1>7, <1>8

LEMMA NobodyLeavesStep ==
  ASSUME SyncInv, NobodyLeaves, SyncNext
  PROVE  NobodyLeaves'
<1> USE DEF dbVars, lineVars, socketVars, serverVars
<1>1. inbox \in [Users -> Seq(ClientMessages)]  BY DEF SyncInv, ServerInv, ServerTypeOK
<1>2. ASSUME \A v \in Users : inbox'[v] = inbox[v] \/ inbox'[v] = << >> PROVE NobodyLeaves'
  BY <1>2 DEF NobodyLeaves
<1>3. ASSUME NEW u \in Users, NEW kind, Arrives(u, kind) PROVE NobodyLeaves'
  <2>1. \A v \in Users : v # u => inbox'[v] = inbox[v]  BY <1>1, <1>3 DEF Arrives
  <2>2. \A k \in DOMAIN inbox'[u] : k + 1 \in DOMAIN inbox[u] /\ inbox'[u][k] = inbox[u][k + 1]
    BY <1>3, InboxShifts DEF SyncInv, ServerInv
  <2> QED  BY <2>1, <2>2 DEF NobodyLeaves
<1>4. ASSUME NEW u \in Users, NEW m, m.type # "leave", inbox' = Emit(inbox, u, m)
      PROVE  NobodyLeaves'
  <2>1. \A v \in Users : v # u => inbox'[v] = inbox[v]  BY <1>1, <1>4 DEF Emit
  <2>2. inbox'[u] = Append(inbox[u], m) /\ inbox[u] \in Seq(ClientMessages)
    BY <1>1, <1>4 DEF Emit
  <2>3. \A k \in DOMAIN inbox'[u] : \/ inbox'[u][k] = m
                                    \/ k \in DOMAIN inbox[u] /\ inbox'[u][k] = inbox[u][k]
    BY <2>2, AppendProperties, LenProperties
  <2> QED  BY <1>4, <2>1, <2>3 DEF NobodyLeaves
<1>5. ASSUME NEW u \in Users, SendHead(u) PROVE NobodyLeaves'
  <2> DEFINE m == [type |-> "op", op |-> UnsavedHead(u), att |-> tab[u].att]
  <2>1. m.type # "leave" /\ inbox' = Emit(inbox, u, m)  BY <1>5 DEF SendHead, Sends
  <2> HIDE DEF m
  <2> QED  BY <1>4, <2>1
<1>6. ASSUME NEW u \in Users, NEW n, inbox' = Emit(inbox, u, [type |-> "join", n |-> n])
      PROVE  NobodyLeaves'
  <2> DEFINE m == [type |-> "join", n |-> n]
  <2>1. m.type # "leave" /\ inbox' = Emit(inbox, u, m)  BY <1>6
  <2> HIDE DEF m
  <2> QED  BY <1>4, <2>1
<1>7. ASSUME NEW u \in Users, ReceiveAck(u) \/ Attempt(u) PROVE NobodyLeaves'
  BY <1>2, <1>6, <1>7 DEF ReceiveAck, Attempt, Sends
<1>8. ASSUME NEW u \in Users, QueueStep(u) \/ ControllerStep(u), ~SendHead(u)
      PROVE  NobodyLeaves'
  BY <1>2, <1>7, <1>8
     DEF QueueStep, ControllerStep, PauseOver, Drained, DrainTimeout, FetchRow, FetchCells,
         FetchFails, Mount, ReceiveJoined, ReceiveOp, ReceiveRevoked, ReceiveChanged
<1>9. ASSUME ServerStep \/ Management PROVE NobodyLeaves'
  <2>1. UNCHANGED inbox \/ \E u \in Users, kind \in {"join", "leave", "op"} : Arrives(u, kind)
    BY ZenonT(40), <1>9 DEF ServerStep, Management, Arrival, JoinArrives, LeaveArrives, OpArrives,
         OpRateLimited, JoinStep, JoinCheck, JoinEnters, JoinRecheck, JoinAnswers, JoinFails,
         OpStep, OpDuplicate, OpAuthorize, OpReadOnly, OpNotFound, OpCommit, OpNotWritable,
         OpFails, OpAnnounce, Evict, Assign, Unassign, SetStatus, SetAccount
  <2> QED  BY SMTT(30), <1>2, <1>3, <2>1
<1>10. ASSUME NEW u \in Users, TabDisconnects(u) PROVE NobodyLeaves'
  <2>1. \A v \in Users : inbox'[v] = inbox[v] \/ inbox'[v] = << >>
    BY <1>1, <1>10 DEF TabDisconnects, Disconnect
  <2> QED  BY <1>2, <2>1
<1>11. ASSUME TabsRestart PROVE NobodyLeaves'
  BY <1>2, <1>11 DEF TabsRestart, Restart
<1>12. ASSUME UserStep \/ SyncFaults, ~TabsRestart, \A u \in Users : ~TabDisconnects(u)
       PROVE  NobodyLeaves'
  BY <1>2, <1>12
     DEF UserStep, Open, TabConnects, Connect, Type, SyncFaults, AckTimeout, JoinTimeout,
         Forget, OpCommitLost
<1> QED  BY <1>5, <1>8, <1>9, <1>10, <1>11, <1>12 DEF SyncNext, SyncStep, SyncFaults

LEMMA RoomIsConnectedStep ==
  ASSUME SyncInv, RoomIsConnected, SyncNext
  PROVE  RoomIsConnected'
<1> USE DEF dbVars, lineVars, socketVars, serverVars
<1>1. joining \subseteq JoinHandlers  BY DEF SyncInv, ServerInv, ServerTypeOK
<1>2. ASSUME conn \subseteq conn', room' \subseteq room, joining' \subseteq joining
      PROVE  RoomIsConnected'
  BY SMTT(30), <1>2 DEF RoomIsConnected
<1>3. ASSUME NEW u \in Users, QueueStep(u) \/ ControllerStep(u) PROVE RoomIsConnected'
  BY <1>2, <1>3
     DEF QueueStep, SendHead, PauseOver, ReceiveAck, ControllerStep, Attempt, Sends, Gets,
         Drained, DrainTimeout, FetchRow, FetchCells, FetchFails, Mount, ReceiveJoined,
         ReceiveOp, ReceiveRevoked, ReceiveChanged
<1>4. ASSUME NEW u \in Users, Arrival(u) PROVE RoomIsConnected'
  <2>1. CASE JoinArrives(u)
    BY <2>1 DEF JoinArrives, Arrives, RoomIsConnected
  <2>2. CASE ~JoinArrives(u)
    BY <1>2, <1>4, <2>2 DEF Arrival, LeaveArrives, OpArrives, OpRateLimited, Arrives
  <2> QED  BY <2>1, <2>2
<1>5. ASSUME NEW j \in joining, JoinStep(j) \/ JoinFails(j) PROVE RoomIsConnected'
  <2>1. \A s : [j EXCEPT !.stage = s].user = j.user  BY <1>1, <1>5 DEF JoinHandlers
  <2>2. joining' = joining \ {j} \/ \E s : Proceeds(j, s)
    BY <1>5 DEF JoinStep, JoinFails, JoinCheck, JoinEnters, JoinRecheck, JoinAnswers, AnswersJoin
  <2>3. \A h \in joining' : h \in joining \/ h.user = j.user  BY <2>1, <2>2 DEF Proceeds
  <2>4. room' \subseteq room \cup {j.user} /\ UNCHANGED conn
    BY <1>5 DEF JoinStep, JoinFails, JoinCheck, JoinEnters, JoinRecheck, JoinAnswers, Leaves
  <2> QED  BY <1>5, <2>3, <2>4 DEF RoomIsConnected
<1>6. ASSUME NEW i \in DOMAIN line, OpStep(i) \/ OpCommitLost(i) PROVE RoomIsConnected'
  BY <1>2, <1>6
     DEF OpStep, OpDuplicate, OpAuthorize, OpReadOnly, OpNotFound, OpCommit, OpNotWritable,
         OpFails, OpAnnounce, OpCommitLost
<1>7. ASSUME Management \/ (\E e \in evicting : Evict(e)) \/ (\E o \in Ops : Forget(o))
      PROVE  RoomIsConnected'
  BY <1>2, <1>7 DEF Management, Assign, Unassign, SetStatus, SetAccount, Evict, Forget
<1>8. ASSUME NEW u \in Users, TabDisconnects(u) PROVE RoomIsConnected'
  BY <1>8 DEF TabDisconnects, Disconnect, RoomIsConnected
<1>9. ASSUME TabsRestart PROVE RoomIsConnected'
  BY <1>9 DEF TabsRestart, Restart, RoomIsConnected
<1>10. ASSUME UserStep PROVE RoomIsConnected'
  BY <1>2, <1>10 DEF UserStep, Open, TabConnects, Connect, Type
<1>11. ASSUME NEW u \in Users, AckTimeout(u) \/ JoinTimeout(u) PROVE RoomIsConnected'
  BY <1>2, <1>11 DEF AckTimeout, JoinTimeout
<1> QED
  BY <1>3, <1>4, <1>5, <1>6, <1>7, <1>8, <1>9, <1>10, <1>11
     DEF SyncNext, SyncStep, SyncFaults, ServerStep

LEMMA StepInvInit == SyncInit => StepInv
<1> SUFFICES ASSUME SyncInit PROVE StepInv  OBVIOUS
<1>1. \A u \in Users : /\ inbox[u] = << >> /\ outbox[u] = << >> /\ ~tab[u].online
                       /\ tab[u].sync = "off"
  BY DEF SyncInit, ServerInit
<1>2. joining = {} /\ room = {} /\ DOMAIN << >> = {}  BY DEF SyncInit, ServerInit
<1>3. \A u \in Users : Asks(u) = {} /\ Answers(u) = {} /\ Handlers(u) = {}
  BY <1>1, <1>2 DEF Asks, Answers, Handlers
<1>4. \A u \in Users : TabInStep(u)
  BY <1>1, <1>2, <1>3
     DEF TabInStep, OneJoin, Placed, BelongsIn, Warned, Phased, PastJoining
<1> QED  BY <1>1, <1>2, <1>4 DEF StepInv, NobodyLeaves, RoomIsConnected

LEMMA StepInvStep ==
  ASSUME SyncInv, SyncInv', StepInv, [CarefulStep]_syncVars
  PROVE  StepInv'
<1>1. CASE UNCHANGED syncVars
  BY <1>1
     DEF syncVars, serverVars, socketVars, tabVars, StepInv, NobodyLeaves, RoomIsConnected,
         TabInStep, OneJoin, Placed, BelongsIn, InRoom, Doomed, Warned, Phased, Asks, Answers,
         Handlers
<1>2. CASE CarefulStep
  <2>1. SyncNext  BY <1>2 DEF CarefulStep
  <2>2. NobodyLeaves' /\ RoomIsConnected'
    BY <2>1, NobodyLeavesStep, RoomIsConnectedStep DEF StepInv
  <2> SUFFICES ASSUME NEW w \in Users PROVE TabInStep(w)'  BY <2>2 DEF StepInv
  <2>3. TabInStep(w) /\ RoomIsConnected /\ NobodyLeaves /\ ServerTypeOK
    BY DEF StepInv, SyncInv, ServerInv
  <2>4. Untouched(w) => TabInStep(w)'  BY <2>3, UntouchedStep
  <2>5. ASSUME NEW u \in Users, QueueStep(u) \/ ControllerStep(u) PROVE TabInStep(w)'
    <3>1. CASE u # w  BY SMTT(30), <2>4, <2>5, <3>1, OthersUntouched
    <3>2. CASE u = w
      BY <2>3, <2>5, <3>2, OwnSteps, Receipts, JoinReceived, SendHeadStep, AttemptStep
         DEF QueueStep, ControllerStep, PauseOver, Drained, DrainTimeout, FetchRow, FetchCells,
             FetchFails, Mount
    <3> QED  BY <3>1, <3>2
  <2>6. ASSUME NEW u \in Users, Arrival(u), UNCHANGED tabVars PROVE TabInStep(w)'
    <3>1. UNCHANGED tab  BY <2>6 DEF tabVars
    <3>2. CASE u # w  BY <2>4, <2>6, <3>1, <3>2, OthersUntouched
    <3>3. CASE u = w
      <4>1. ~LeaveArrives(u)  BY <2>3, <3>3, InboxShifts DEF LeaveArrives, NobodyLeaves
      <4> QED  BY <2>3, <2>6, <3>1, <3>3, <4>1, JoinArrivesStep, OpArrivesStep DEF Arrival
    <3> QED  BY <3>2, <3>3
  <2>7. ASSUME NEW j \in joining, JoinStep(j) \/ JoinFails(j), UNCHANGED tabVars
        PROVE  TabInStep(w)'
    <3>1. UNCHANGED tab /\ j.user \in Users
      BY <2>3, <2>7 DEF tabVars, ServerTypeOK, JoinHandlers
    <3>2. CASE j.user # w  BY <2>4, <2>7, <3>1, <3>2, OthersUntouched
    <3>3. CASE j.user = w
      <4>1. j.stage = "rechecking" => ~JoinFails(j)  BY <1>2 DEF CarefulStep
      <4> QED  BY <2>3, <2>7, <3>1, <3>3, <4>1, HandlerSteps
    <3> QED  BY <3>2, <3>3
  <2>8. ASSUME NEW i \in DOMAIN line, OpStep(i) \/ OpCommitLost(i), UNCHANGED tabVars
        PROVE  TabInStep(w)'
    BY <2>4, <2>8, OpStepLeaves DEF tabVars
  <2>9. ASSUME Management \/ (\E e \in evicting : Evict(e)) \/ (\E o \in Ops : Forget(o)),
               UNCHANGED tabVars
        PROVE  TabInStep(w)'
    BY <2>3, <2>4, <2>9, ManagementLeaves DEF tabVars
  <2>10. ASSUME NEW u \in Users, TabConnects(u) PROVE TabInStep(w)'
    <3>1. CASE u # w  BY <2>4, <2>10, <3>1, OthersUntouched
    <3>2. CASE u = w  BY <2>3, <2>10, <3>2, ConnectStep
    <3> QED  BY <3>1, <3>2
  <2>11. ASSUME NEW u \in Users,
                Open(u) \/ AckTimeout(u) \/ (\E o \in Ops : Type(u, o))
         PROVE  TabInStep(w)'
    <3>1. UNCHANGED serverVars  BY <2>11 DEF Open, AckTimeout, Type
    <3>2. TabInStep(u)  BY DEF StepInv
    <3>3. TabInStep(u)' /\ \A v \in Users : v # u => tab'[v] = tab[v]
      BY <2>11, <3>1, <3>2, OwnSteps
    <3>4. CASE u # w
      <4>1. Untouched(w)
        BY <3>1, <3>3, <3>4 DEF Untouched, Grown, InRoom, Handlers, serverVars, socketVars
      <4> QED  BY <2>4, <4>1
    <3> QED  BY <3>3, <3>4
  <2>12. ASSUME NEW u \in Users, TabDisconnects(u) PROVE TabInStep(w)'
    <3>1. CASE u # w  BY <2>4, <2>12, <3>1, OthersUntouched
    <3>2. CASE u = w
      <4>1. u \in conn /\ u \notin conn'  BY <2>12 DEF TabDisconnects, Disconnect
      <4>2. tab[u].first \/ tab[u].sync \in {"off", "due", "joining"}
        BY <1>2, <4>1 DEF CarefulStep
      <4> QED  BY <2>3, <2>12, <3>2, <4>2, CutOffStep
    <3> QED  BY <3>1, <3>2
  <2>13. ASSUME TabsRestart PROVE TabInStep(w)'
    <3>1. w \notin conn'  BY <2>13 DEF TabsRestart, Restart
    <3>2. w \in conn => tab[w].first \/ tab[w].sync \in {"off", "due", "joining"}
      BY <1>2, <3>1 DEF CarefulStep
    <3> QED  BY <2>3, <2>13, <3>2, CutOffAllStep
  <2>14. \A u \in Users : ~JoinTimeout(u)  BY <1>2 DEF CarefulStep
  <2> QED
    BY <2>1, <2>5, <2>6, <2>7, <2>8, <2>9, <2>10, <2>11, <2>12, <2>13, <2>14
       DEF SyncNext, SyncStep, UserStep, SyncFaults, ServerStep
<1> QED  BY <1>1, <1>2

\* A tab that lets its user type and shows no warning is in the room and its queue
\* is sending, or it is about to hear that the access is gone (smartSheetSession.js,
\* 3 and 4) - if joins answer in time, the second query of a join does not fail, and
\* the first loading of the sheet is not cut off.  Without these three TLC shows a
\* tab that is live and out of step.
THEOREM LiveIsConnected == CarefulSpec => []LiveIsInStep
<1>1. SyncInv /\ StepInv => LiveIsInStep
  <2> SUFFICES ASSUME SyncInv, StepInv, NEW u \in Users, InTouch(u)
               PROVE  \/ tab[u].online /\ u \in room /\ u \in joined
                      \/ \E k \in DOMAIN outbox[u] : outbox[u][k].type = "access-revoked"
    BY DEF LiveIsInStep
  <2>1. OneJoin(u) /\ Placed(u) /\ Phased(u)  BY DEF StepInv, TabInStep, InTouch
  <2>2. tab[u].online  BY <2>1 DEF Phased, PastJoining, InTouch
  <2>3. InRoom(u) \/ Doomed(u)  BY <2>1, <2>2 DEF Placed, BelongsIn
  <2>4. Answers(u) = {}  BY <2>1 DEF OneJoin, InTouch
  <2> QED  BY <2>2, <2>3, <2>4 DEF InRoom, Doomed, Dooms, Answers
<1>2. SyncInit => SyncInv /\ StepInv  BY SyncInvInit, StepInvInit
<1>3. SyncInv /\ StepInv /\ [CarefulStep]_syncVars => (SyncInv /\ StepInv)'
  <2> SUFFICES ASSUME SyncInv, StepInv, [CarefulStep]_syncVars PROVE (SyncInv /\ StepInv)'
    OBVIOUS
  <2>1. [SyncNext]_syncVars  BY DEF CarefulStep
  <2>2. SyncInv'  BY <2>1, SyncInvStep
  <2> QED  BY <2>2, StepInvStep
<1> QED  BY <1>1, <1>2, <1>3, PTL DEF CarefulSpec

----------------------------------------------------------------------------
(* What everybody sees in the end is what is stored.                       *)

\* Answers come before a tab stops waiting for them, and no COMMIT is lost on its
\* way back: otherwise a change is in the database and nobody is told of it, or an
\* edit is sent again that somebody else has written over.
PromptStep ==
  /\ CarefulStep
  /\ \A u \in Users : ~AckTimeout(u)
  /\ \A i \in DOMAIN line : ~OpCommitLost(i)

PromptSpec == SyncInit /\ [][PromptStep]_syncVars

\* Where the request a tab awaits an answer to is: sent, in the queue, answered.
Emitted(u) == {k \in DOMAIN inbox[u] : inbox[u][k].type = "op"}
InLine(u) == {i \in DOMAIN line : line[i].alive /\ line[i].user = u}
Acked(u) == {k \in DOMAIN outbox[u] : outbox[u][k].type = "ack"}

AwaitsAnswer(u, r) ==
  tab[u].sender = "waiting" /\ r.op = UnsavedHead(u) /\ r.att = tab[u].att

\* There is at most one of them, and it is for the head of the queue.
OneRequest(u) ==
  /\ \A k \in Emitted(u) : /\ AwaitsAnswer(u, inbox[u][k]) /\ \A l \in Emitted(u) : l = k
                           /\ InLine(u) = {} /\ Acked(u) = {}
  /\ \A i \in InLine(u) : /\ AwaitsAnswer(u, line[i]) /\ \A l \in InLine(u) : l = i
                          /\ Acked(u) = {}
  /\ \A k \in Acked(u) : AwaitsAnswer(u, outbox[u][k]) /\ \A l \in Acked(u) : l = k

\* Nothing is on its way to or from a tab without a connection, and it sends nothing.
Unplugged(u) ==
  u \notin conn => /\ inbox[u] = << >> /\ outbox[u] = << >> /\ InLine(u) = {}
                   /\ ~tab[u].online

\* The messages that tell of a saved change, and the change about to be told of.
Tells(m) == m.type = "op" \/ (m.type = "ack" /\ m.code = "OK")
Announcing == 1 \in DOMAIN line /\ line[1].stage = "committed"

\* The wire carries them in the order of their revisions; only an answer given
\* from memory may be about an older one.
InOrder(u) ==
  \A k \in DOMAIN outbox[u] : Tells(outbox[u][k]) =>
    /\ Announcing => outbox[u][k].rev < line[1].rev
    /\ \A l \in DOMAIN outbox[u] : k < l /\ outbox[u][l].type = "op" =>
         outbox[u][k].rev < outbox[u][l].rev

\* A tab that will not learn from its outbox that it has lost its access.
Hears(u) == u \in conn /\ ~tab[u].shut /\ ~Doomed(u)

\* The revisions a tab is still to hear of, from the others or at all.
Others(u) == Announcing /\ ~(line[1].alive /\ line[1].user = u)
IsComing(u, r) ==
  \/ \E k \in DOMAIN outbox[u] : outbox[u][k].type = "op" /\ outbox[u][k].rev = r
  \/ Others(u) /\ line[1].rev = r
IsToBeTold(u, r) ==
  \/ \E k \in DOMAIN outbox[u] : Tells(outbox[u][k]) /\ outbox[u][k].rev = r
  \/ Announcing /\ line[1].rev = r

\* From the first one it hears of on, it hears of all.
NoGap(u) ==
  Hears(u) => \A k \in DOMAIN outbox[u] : outbox[u][k].type = "op" =>
    u \in room /\ \A r \in DOMAIN log : outbox[u][k].rev < r => IsToBeTold(u, r)

Wired(u) == Unplugged(u) /\ OneRequest(u) /\ InOrder(u) /\ NoGap(u)

\* The revision that wrote an item last.
Latest(i, r) ==
  /\ r \in DOMAIN log /\ ItemOf[log[r]] = i
  /\ \A s \in DOMAIN log : r < s => ItemOf[log[s]] # i
LatestIsStored == \A i \in Items : \A r \in DOMAIN log : Latest(i, r) => content[i] = log[r]

\* A tab that loads will have, with what it has held back and what is still to
\* come, everything newer than the revision it has read.
NewerIsHeld(u) ==
  Hears(u) /\ ~tab[u].rerun => \A r \in DOMAIN log : tab[u].snap < r =>
    IsComing(u, r) \/ \E m \in tab[u].buffered : m.rev = r
CellsAreRead(u) ==
  \A i \in Items : tab[u].cells[i] = content[i] \/ \E r \in DOMAIN log : Latest(i, r) /\ tab[u].snap < r
Loads(u) ==
  /\ tab[u].sync \in {"reading", "mounting"} => tab[u].snap <= Len(log) /\ NewerIsHeld(u)
  /\ tab[u].sync = "mounting" => CellsAreRead(u)

\* A live tab shows its own unsaved edits, ...
ShowsOwn(u) ==
  \A k \in DOMAIN tab[u].unsaved :
    /\ ItemOf[tab[u].unsaved[k]] \in CellItems
    /\ \A l \in DOMAIN tab[u].unsaved : k < l => ItemOf[tab[u].unsaved[l]] # ItemOf[tab[u].unsaved[k]]
    => tab[u].screen[ItemOf[tab[u].unsaved[k]]] = tab[u].unsaved[k]

\* ... which no earlier connection has sent, and which are saved only if the answer
\* is about to come, ...
NoneIsOld(u) ==
  \A k \in DOMAIN tab[u].unsaved :
    /\ \A i \in DOMAIN line : line[i].op = tab[u].unsaved[k] => i \in InLine(u)
    /\ \A r \in DOMAIN log : log[r] = tab[u].unsaved[k] =>
         \/ Announcing /\ line[1].rev = r
         \/ \E l \in Acked(u) : outbox[u][l].code = "OK" /\ outbox[u][l].rev = r

\* ... in its place among the announcements;
AckInOrder(u) ==
  \A k \in Acked(u) : outbox[u][k].code = "OK" =>
    /\ \A l \in DOMAIN outbox[u] : l < k /\ outbox[u][l].type = "op" =>
         outbox[u][l].rev < outbox[u][k].rev
    /\ \A r \in DOMAIN log : outbox[u][k].rev < r => IsComing(u, r)

\* everywhere else it shows what is stored, or is about to be told, or shows its own
\* lost edit.
IsLost(u, o) == o \in Ops /\ AuthorOf[o] = u /\ fate[o] = "rejected"
ItemShown(u, i) ==
  \/ tab[u].screen[i] = content[i]
  \/ IsLost(u, tab[u].screen[i])
  \/ \E r \in DOMAIN log : Latest(i, r) /\ IsComing(u, r)
Shows(u) == \A i \in CellItems : ~Pending(tab[u], i) => ItemShown(u, i)

Lives(u) ==
  tab[u].sync = "live" /\ Hears(u) =>
    ShowsOwn(u) /\ NoneIsOld(u) /\ AckInOrder(u) /\ Shows(u)

ScreensInv == LatestIsStored /\ \A u \in Users : Wired(u) /\ Loads(u) /\ Lives(u)

LEMMA Shapes ==
  ASSUME SyncInv, NEW u \in Users
  PROVE  /\ outbox[u] \in Seq(ServerMessages) /\ inbox[u] \in Seq(ClientMessages)
         /\ \A k \in DOMAIN outbox[u] : k \in Nat /\ k >= 1 /\ outbox[u][k] \in ServerMessages
         /\ \A k \in DOMAIN inbox[u] : k \in Nat /\ k >= 1 /\ inbox[u][k] \in ClientMessages
         /\ line \in Seq(Tasks) /\ Len(line) \in Nat /\ DOMAIN line = 1..Len(line)
         /\ \A i \in DOMAIN line : line[i] \in Tasks /\ i \in Nat
         /\ log \in Seq(Ops) /\ Len(log) \in Nat /\ DOMAIN log = 1..Len(log)
         /\ \A r \in DOMAIN log : log[r] \in Ops
         /\ tab \in [Users -> Tabs] /\ tab[u] \in Tabs
<1>1. /\ outbox[u] \in Seq(ServerMessages) /\ inbox[u] \in Seq(ClientMessages)
      /\ line \in Seq(Tasks) /\ log \in Seq(Ops) /\ tab \in [Users -> Tabs]
  BY DEF SyncInv, ServerInv, ServerTypeOK, TabsInv, TabsTyped
<1>2. ASSUME NEW S, NEW b \in Seq(S)
      PROVE  /\ Len(b) \in Nat /\ DOMAIN b = 1..Len(b)
             /\ \A k \in DOMAIN b : k \in Nat /\ k >= 1 /\ b[k] \in S
  BY LenProperties
<1>3. tab[u] \in Tabs  BY <1>1
<1>4. \A k \in DOMAIN outbox[u] : k \in Nat /\ k >= 1 /\ outbox[u][k] \in ServerMessages
  BY <1>1, <1>2
<1>5. \A k \in DOMAIN inbox[u] : k \in Nat /\ k >= 1 /\ inbox[u][k] \in ClientMessages
  BY <1>1, <1>2
<1>6. /\ Len(line) \in Nat /\ DOMAIN line = 1..Len(line)
      /\ \A i \in DOMAIN line : line[i] \in Tasks /\ i \in Nat
  BY <1>1, <1>2
<1>7. /\ Len(log) \in Nat /\ DOMAIN log = 1..Len(log)
      /\ \A r \in DOMAIN log : log[r] \in Ops
  BY <1>1, <1>2
<1> QED  BY <1>1, <1>3, <1>4, <1>5, <1>6, <1>7

(* Steps that neither tell a tab of a change nor answer it. *)

Plain == {m \in ServerMessages : m.type # "op" /\ m.type # "ack"}

\* The queue keeps its tasks, and those that come are somebody else's.
QueueGoesOn(u) ==
  /\ \A i \in DOMAIN line :
       /\ i \in DOMAIN line'
       /\ line'[i].user = line[i].user /\ line'[i].op = line[i].op
       /\ line'[i].att = line[i].att /\ line'[i].rev = line[i].rev
       /\ line'[i].stage = "committed" <=> line[i].stage = "committed"
       /\ line[i].user = u => line'[i].alive = line[i].alive
  /\ \A i \in DOMAIN line' : i \notin DOMAIN line =>
       line'[i].stage = "waiting" /\ line'[i].user # u /\ AuthorOf[line'[i].op] # u

\* What it has sent is where it was, or one place further in front.
RequestsStay(u) ==
  \E d \in {0, 1} : \A k \in Emitted(u)' :
    k \in Nat /\ k + d \in Emitted(u) /\ inbox'[u][k] = inbox[u][k + d]

Calm(u) ==
  /\ UNCHANGED <<log, content>>
  /\ u \in conn' <=> u \in conn
  /\ Extends(outbox[u], outbox'[u], Plain)
  /\ u \notin conn => inbox'[u] = inbox[u] /\ outbox'[u] = outbox[u]
  /\ RequestsStay(u)
  /\ u \in room => u \in room' \/ Doomed(u)'
  /\ QueueGoesOn(u)

LEMMA CalmView ==
  ASSUME SyncInv, NEW u \in Users, Calm(u)
  PROVE  /\ InLine(u)' = InLine(u)
         /\ Announcing' <=> Announcing
         /\ Announcing => line'[1].rev = line[1].rev /\ line'[1].op = line[1].op
         /\ Acked(u)' = Acked(u) /\ \A k \in Acked(u) : outbox'[u][k] = outbox[u][k]
         /\ \A k \in DOMAIN outbox'[u] : Tells(outbox'[u][k]) \/ outbox'[u][k].type = "op" =>
              k \in DOMAIN outbox[u] /\ outbox'[u][k] = outbox[u][k]
         /\ \A r : /\ IsComing(u, r)' <=> IsComing(u, r)
                   /\ IsToBeTold(u, r)' <=> IsToBeTold(u, r)
         /\ Doomed(u) => Doomed(u)'
<1>1. line \in Seq(Tasks) /\ \A i \in DOMAIN line : line[i] \in Tasks  BY Shapes
<1>2. InLine(u)' = InLine(u)  BY <1>1 DEF Calm, QueueGoesOn, InLine
<1>3. /\ Announcing' <=> Announcing
      /\ Announcing => line'[1].rev = line[1].rev /\ line'[1].op = line[1].op
  BY <1>1 DEF Calm, QueueGoesOn, Announcing
<1>4. Others(u)' <=> Others(u)
  <2>1. Others(u) <=> Announcing /\ 1 \notin InLine(u)  BY DEF Others, InLine, Announcing
  <2>2. Others(u)' <=> Announcing' /\ 1 \notin InLine(u)'  BY DEF Others, InLine, Announcing
  <2> QED  BY <1>2, <1>3, <2>1, <2>2
<1>5. /\ Acked(u)' = Acked(u) /\ \A k \in Acked(u) : outbox'[u][k] = outbox[u][k]
      /\ \A k \in DOMAIN outbox'[u] : Tells(outbox'[u][k]) \/ outbox'[u][k].type = "op" =>
           k \in DOMAIN outbox[u] /\ outbox'[u][k] = outbox[u][k]
      /\ \A k \in DOMAIN outbox[u] : k \in DOMAIN outbox'[u] /\ outbox'[u][k] = outbox[u][k]
  BY DEF Calm, Extends, Plain, Acked, Tells
<1>6. ASSUME NEW r PROVE /\ IsComing(u, r)' <=> IsComing(u, r)
                         /\ IsToBeTold(u, r)' <=> IsToBeTold(u, r)
  <2>1. IsComing(u, r)' <=> IsComing(u, r)  BY <1>3, <1>4, <1>5 DEF IsComing, Others
  <2>2. IsToBeTold(u, r)' <=> IsToBeTold(u, r)  BY <1>3, <1>5 DEF IsToBeTold
  <2> QED  BY <2>1, <2>2
<1>7. Doomed(u) => Doomed(u)'  BY <1>5 DEF Doomed
<1> QED  BY <1>2, <1>3, <1>5, <1>6, <1>7

\* The tab still awaits what it awaited, ...
StillAwaits(u) ==
  tab[u].sender = "waiting" => /\ tab'[u].sender = "waiting" /\ tab'[u].att = tab[u].att
                               /\ UnsavedHead(u)' = UnsavedHead(u)

\* ... its queue does not begin to send, and an overlay stays up.
StillAsks(u) ==
  /\ tab[u].shut => tab'[u].shut
  /\ tab'[u].online => tab[u].online
  /\ StillAwaits(u)

LEMMA CalmWire ==
  ASSUME SyncInv, NEW u \in Users, Wired(u), Calm(u), StillAsks(u)
  PROVE  Wired(u)' /\ (Hears(u)' => Hears(u))
<1>1. /\ InLine(u)' = InLine(u)
      /\ Announcing' <=> Announcing
      /\ Announcing => line'[1].rev = line[1].rev
      /\ Acked(u)' = Acked(u) /\ \A k \in Acked(u) : outbox'[u][k] = outbox[u][k]
      /\ \A k \in DOMAIN outbox'[u] : Tells(outbox'[u][k]) \/ outbox'[u][k].type = "op" =>
           k \in DOMAIN outbox[u] /\ outbox'[u][k] = outbox[u][k]
      /\ \A r : IsToBeTold(u, r)' <=> IsToBeTold(u, r)
      /\ Doomed(u) => Doomed(u)'
  BY CalmView
<1>2. Hears(u)' => Hears(u)  BY <1>1 DEF Hears, Calm, StillAsks
<1>3. Unplugged(u)'  BY <1>1 DEF Calm, Wired, Unplugged, StillAsks
<1>4. OneRequest(u)'
  <2> DEFINE Asked(x) == tab'[u].sender = "waiting" /\ x.op = UnsavedHead(u)' /\ x.att = tab'[u].att
  <2>1. OneRequest(u)  BY DEF Wired
  <2>2. \A x, y : AwaitsAnswer(u, x) /\ y.op = x.op /\ y.att = x.att => Asked(y)
    BY DEF AwaitsAnswer, StillAsks, StillAwaits
  <2>3. PICK d \in {0, 1} : \A k \in Emitted(u)' :
          k \in Nat /\ k + d \in Emitted(u) /\ inbox'[u][k] = inbox[u][k + d]
    BY DEF Calm, RequestsStay
  <2>4. ASSUME NEW k \in Emitted(u)'
        PROVE  /\ Asked(inbox'[u][k]) /\ \A l \in Emitted(u)' : l = k
               /\ InLine(u)' = {} /\ Acked(u)' = {}
    <3>1. /\ AwaitsAnswer(u, inbox[u][k + d]) /\ \A l \in Emitted(u) : l = k + d
          /\ InLine(u) = {} /\ Acked(u) = {}
      BY <2>1, <2>3 DEF OneRequest
    <3>2. Asked(inbox'[u][k])  BY <2>2, <2>3, <3>1
    <3> HIDE DEF Asked
    <3> QED  BY <1>1, <2>3, <3>1, <3>2
  <2>5. ASSUME NEW i \in InLine(u) PROVE Asked(line'[i])
    <3>1. AwaitsAnswer(u, line[i])  BY <2>1 DEF OneRequest
    <3>2. line'[i].op = line[i].op /\ line'[i].att = line[i].att
      BY DEF Calm, QueueGoesOn, InLine
    <3> QED  BY <2>2, <3>1, <3>2
  <2>6. ASSUME NEW k \in Acked(u) PROVE Asked(outbox'[u][k])
    <3>1. AwaitsAnswer(u, outbox[u][k]) /\ outbox'[u][k] = outbox[u][k]
      BY <1>1, <2>1 DEF OneRequest
    <3> QED  BY <2>2, <3>1
  <2> QED  BY <1>1, <2>1, <2>4, <2>5, <2>6 DEF OneRequest, AwaitsAnswer
<1>5. InOrder(u)'  BY <1>1 DEF Wired, InOrder
<1>6. NoGap(u)'
  <2> SUFFICES ASSUME Hears(u)', NEW k \in DOMAIN outbox'[u], outbox'[u][k].type = "op"
               PROVE  u \in room' /\ \A r \in DOMAIN log' : outbox'[u][k].rev < r => IsToBeTold(u, r)'
    BY DEF NoGap
  <2>1. k \in DOMAIN outbox[u] /\ outbox'[u][k] = outbox[u][k] /\ Hears(u)  BY <1>1, <1>2
  <2>2. u \in room /\ \A r \in DOMAIN log : outbox[u][k].rev < r => IsToBeTold(u, r)
    BY <2>1 DEF Wired, NoGap
  <2>3. ~Doomed(u)'  BY DEF Hears
  <2> QED  BY <1>1, <2>1, <2>2, <2>3 DEF Calm
<1> QED  BY <1>2, <1>3, <1>4, <1>5, <1>6 DEF Wired

\* The unsaved edits of a tab are its user's own, and different.
LEMMA UnsavedEdits ==
  ASSUME SyncInv, OrderInv, NEW u \in Users
  PROVE  /\ DOMAIN tab[u].unsaved = 1..Len(tab[u].unsaved) /\ Len(tab[u].unsaved) \in Nat
         /\ \A k \in DOMAIN tab[u].unsaved :
              /\ tab[u].unsaved[k] \in Ops /\ AuthorOf[tab[u].unsaved[k]] = u
              /\ fate[tab[u].unsaved[k]] = "pending"
              /\ \A l \in DOMAIN tab[u].unsaved : tab[u].unsaved[l] = tab[u].unsaved[k] => l = k
         /\ tab[u].unsaved # << >> => UnsavedHead(u) = tab[u].unsaved[1] /\ 1 \in DOMAIN tab[u].unsaved
<1> DEFINE U == tab[u].unsaved
           T == typed[u]
<1>1. /\ U \in Seq(Ops) /\ T \in Seq(Ops) /\ IsEndOf(U, T)
      /\ \A k \in 1..Len(U) : fate[U[k]] = "pending"
      /\ \A k \in 1..Len(T) : AuthorOf[T[k]] = u /\ \A l \in 1..Len(T) : T[k] = T[l] => k = l
  BY DEF SyncInv, TabsInv, TabsTyped, Tabs, OrderInv, QueueIsEnd, TypedOnce
<1>2. U # << >> => UnsavedHead(u) = U[1] /\ 1 \in DOMAIN U
  BY <1>1, HeadTailProperties, LenProperties, EmptySeq DEF UnsavedHead
<1> HIDE DEF U, T
<1>3. /\ Len(U) \in Nat /\ Len(T) \in Nat /\ DOMAIN U = 1..Len(U)
      /\ \A k \in DOMAIN U : U[k] \in Ops
  BY <1>1, LenProperties
<1>4. \A k \in DOMAIN U : /\ Len(T) - Len(U) + k \in 1..Len(T)
                          /\ U[k] = T[Len(T) - Len(U) + k]
  BY <1>1, <1>3 DEF IsEndOf
<1>5. ASSUME NEW k \in DOMAIN U PROVE AuthorOf[U[k]] = u /\ \A l \in DOMAIN U : U[l] = U[k] => l = k
  <2>1. AuthorOf[U[k]] = u  BY <1>1, <1>4
  <2>2. ASSUME NEW l \in DOMAIN U, U[l] = U[k] PROVE l = k
    <3> DEFINE d == Len(T) - Len(U)
    <3>1. d \in Int /\ k \in Int /\ l \in Int  BY <1>3
    <3>2. d + k = d + l  BY <1>1, <1>4, <2>2
    <3> HIDE DEF d
    <3> QED  BY <3>1, <3>2
  <2> QED  BY <2>1, <2>2
<1> QED  BY <1>1, <1>2, <1>3, <1>5 DEF U

\* What a tab has read, and what it is still to hear of, stays.
LEMMA LoadsStay ==
  ASSUME NEW u \in Users, Loads(u), UNCHANGED <<log, content>>,
         tab'[u].sync = tab[u].sync, tab'[u].snap = tab[u].snap,
         tab'[u].cells = tab[u].cells, tab'[u].rerun = tab[u].rerun,
         tab[u].buffered \subseteq tab'[u].buffered,
         Hears(u)' => Hears(u),
         Hears(u)' /\ ~tab[u].rerun /\ tab[u].sync \in {"reading", "mounting"} =>
           \A r : IsComing(u, r) => IsComing(u, r)' \/ \E m \in tab'[u].buffered : m.rev = r
  PROVE  Loads(u)'
<1>1. \A i, r : Latest(i, r)' <=> Latest(i, r)  BY DEF Latest
<1>2. CellsAreRead(u) => CellsAreRead(u)'  BY <1>1 DEF CellsAreRead
<1>3. NewerIsHeld(u) /\ tab[u].sync \in {"reading", "mounting"} => NewerIsHeld(u)'
  BY DEF NewerIsHeld
<1> QED  BY <1>2, <1>3 DEF Loads

\* So does what a live tab shows.
LEMMA LivesStay ==
  ASSUME NEW u \in Users, Lives(u), UNCHANGED <<log, content>>,
         tab'[u].sync = tab[u].sync, tab'[u].unsaved = tab[u].unsaved,
         tab'[u].screen = tab[u].screen,
         \A o \in Ops : fate[o] = "rejected" => fate'[o] = "rejected",
         Hears(u)' => Hears(u),
         tab[u].sync = "live" /\ Hears(u)' /\ NoneIsOld(u) /\ AckInOrder(u) =>
           /\ NoneIsOld(u)' /\ AckInOrder(u)'
           /\ \A r : IsComing(u, r) => IsComing(u, r)'
  PROVE  Lives(u)'
<1> SUFFICES ASSUME tab[u].sync = "live", Hears(u)'
             PROVE  ShowsOwn(u)' /\ NoneIsOld(u)' /\ AckInOrder(u)' /\ Shows(u)'
  BY DEF Lives
<1>1. ShowsOwn(u) /\ NoneIsOld(u) /\ AckInOrder(u) /\ Shows(u)  BY DEF Lives
<1>2. \A r : IsComing(u, r) => IsComing(u, r)'  BY <1>1
<1>3. ShowsOwn(u)'  BY <1>1 DEF ShowsOwn
<1>4. Shows(u)'
  <2>1. \A i, r : Latest(i, r)' <=> Latest(i, r)  BY DEF Latest
  <2>2. \A i : Pending(tab'[u], i) <=> Pending(tab[u], i)  BY DEF Pending
  <2>3. \A i : ItemShown(u, i) => ItemShown(u, i)'
    BY <1>2, <2>1 DEF ItemShown, IsLost
  <2> QED  BY <1>1, <2>2, <2>3 DEF Shows
<1> QED  BY <1>1, <1>3, <1>4

\* A calm step, of somebody else or of a part of the tab that does not show.
SameView(u) ==
  /\ StillAsks(u)
  /\ tab'[u].sync = tab[u].sync /\ tab'[u].snap = tab[u].snap
  /\ tab'[u].cells = tab[u].cells /\ tab'[u].rerun = tab[u].rerun
  /\ tab'[u].buffered = tab[u].buffered
  /\ tab'[u].unsaved = tab[u].unsaved /\ tab'[u].screen = tab[u].screen
  /\ \A o \in Ops : fate[o] = "rejected" => fate'[o] = "rejected"

\* What a live tab knows of its own edits outlives a calm step.
LEMMA CalmKnows ==
  ASSUME SyncInv, OrderInv, NEW u \in Users, Calm(u), tab'[u].unsaved = tab[u].unsaved
  PROVE  /\ NoneIsOld(u) => NoneIsOld(u)'
         /\ AckInOrder(u) => AckInOrder(u)'
<1>1. /\ InLine(u)' = InLine(u)
      /\ Announcing' <=> Announcing
      /\ Announcing => line'[1].rev = line[1].rev
      /\ Acked(u)' = Acked(u) /\ \A k \in Acked(u) : outbox'[u][k] = outbox[u][k]
      /\ \A k \in DOMAIN outbox'[u] : Tells(outbox'[u][k]) \/ outbox'[u][k].type = "op" =>
           k \in DOMAIN outbox[u] /\ outbox'[u][k] = outbox[u][k]
      /\ \A r : IsComing(u, r)' <=> IsComing(u, r)
  BY CalmView
<1>2. UNCHANGED log /\ QueueGoesOn(u)  BY DEF Calm
<1>3. ASSUME NoneIsOld(u) PROVE NoneIsOld(u)'
  <2> SUFFICES ASSUME NEW k \in DOMAIN tab[u].unsaved
               PROVE  /\ \A i \in DOMAIN line' : line'[i].op = tab[u].unsaved[k] => i \in InLine(u)'
                      /\ \A r \in DOMAIN log' : log'[r] = tab[u].unsaved[k] =>
                           \/ Announcing' /\ line'[1].rev = r
                           \/ \E l \in Acked(u)' : outbox'[u][l].code = "OK" /\ outbox'[u][l].rev = r
    BY DEF NoneIsOld
  <2>1. AuthorOf[tab[u].unsaved[k]] = u  BY UnsavedEdits
  <2>2. \A i \in DOMAIN line' : line'[i].op = tab[u].unsaved[k] => i \in InLine(u)
    BY <1>2, <1>3, <2>1 DEF QueueGoesOn, NoneIsOld
  <2>3. \A r \in DOMAIN log : log[r] = tab[u].unsaved[k] =>
          \/ Announcing /\ line[1].rev = r
          \/ \E l \in Acked(u) : outbox[u][l].code = "OK" /\ outbox[u][l].rev = r
    BY <1>3 DEF NoneIsOld
  <2> QED  BY <1>1, <1>2, <2>2, <2>3
<1>4. ASSUME AckInOrder(u) PROVE AckInOrder(u)'
  BY <1>1, <1>2, <1>4 DEF AckInOrder
<1> QED  BY <1>3, <1>4

LEMMA CalmStep ==
  ASSUME SyncInv, OrderInv, NEW u \in Users, Wired(u), Loads(u), Lives(u), Calm(u), SameView(u)
  PROVE  Wired(u)' /\ Loads(u)' /\ Lives(u)'
<1>1. Wired(u)' /\ (Hears(u)' => Hears(u))  BY CalmWire DEF SameView
<1>2. \A r : IsComing(u, r)' <=> IsComing(u, r)  BY CalmView
<1>3. Loads(u)'  BY <1>1, <1>2, LoadsStay DEF SameView, Calm
<1>4. Lives(u)'  BY <1>1, <1>2, CalmKnows, LivesStay DEF SameView, Calm
<1> QED  BY <1>1, <1>3, <1>4

\* Neither the queue nor what the tab has sent is touched.
LEMMA CalmWithoutQueue ==
  ASSUME SyncInv, NEW u \in Users, UNCHANGED <<log, content, line>>,
         u \in conn' <=> u \in conn, inbox'[u] = inbox[u],
         Grown(outbox[u], outbox'[u], Plain),
         u \notin conn => outbox'[u] = outbox[u],
         u \in room => u \in room' \/ Doomed(u)'
  PROVE  Calm(u)
<1>1. outbox[u] \in Seq(ServerMessages) /\ Plain \in SUBSET ServerMessages
  BY Shapes DEF Plain
<1>2. Extends(outbox[u], outbox'[u], Plain)  BY <1>1, GrownExtends
<1>3. RequestsStay(u)
  <2>1. \A k \in Emitted(u)' : k \in Nat /\ k + 0 \in Emitted(u) /\ inbox'[u][k] = inbox[u][k + 0]
    <3>1. \A k \in Emitted(u) : k \in Nat /\ k + 0 = k  BY Shapes DEF Emitted
    <3>2. Emitted(u)' = Emitted(u)  BY DEF Emitted
    <3> QED  BY <3>1, <3>2
  <2> QED  BY <2>1 DEF RequestsStay
<1>4. QueueGoesOn(u)  BY DEF QueueGoesOn
<1> QED  BY <1>2, <1>3, <1>4 DEF Calm

LEMMA SameTabSameView ==
  ASSUME NEW u \in Users, tab'[u] = tab[u],
         \A o \in Ops : fate[o] = "rejected" => fate'[o] = "rejected"
  PROVE  SameView(u)
BY DEF SameView, StillAsks, StillAwaits, UnsavedHead

\* Everybody's requests are their own edits.
RequestsAreOwn ==
  \A v \in Users : \A k \in Emitted(v) : AuthorOf[inbox[v][k].op] = v

LEMMA OwnRequests ==
  ASSUME SyncInv, OrderInv, \A v \in Users : Wired(v)
  PROVE  RequestsAreOwn
<1> SUFFICES ASSUME NEW v \in Users, NEW k \in Emitted(v)
             PROVE  AuthorOf[inbox[v][k].op] = v
  BY DEF RequestsAreOwn
<1>1. tab[v].sender = "waiting" /\ inbox[v][k].op = UnsavedHead(v)
  BY DEF Wired, OneRequest, AwaitsAnswer
<1>2. tab[v].unsaved # << >>  BY <1>1 DEF SyncInv, TabsInv, SenderHasHead
<1> QED  BY <1>1, <1>2, UnsavedEdits

\* A step of another tab.
LEMMA OtherTabsCalm ==
  ASSUME SyncInv, NEW u \in Users, NEW v \in Users, v # u,
         \/ QueueStep(v) \/ ControllerStep(v) \/ TabConnects(v) \/ TabDisconnects(v)
         \/ Open(v) \/ (\E o \in Ops : Type(v, o))
  PROVE  Calm(u) /\ tab'[u] = tab[u]
<1> USE DEF dbVars, lineVars, socketVars, serverVars
<1>1. /\ tab \in [Users -> Tabs] /\ inbox \in [Users -> Seq(ClientMessages)]
      /\ outbox \in [Users -> Seq(ServerMessages)]
  BY DEF SyncInv, ServerInv, ServerTypeOK, TabsInv, TabsTyped
<1>2. CASE QueueStep(v) \/ ControllerStep(v) \/ TabConnects(v) \/ Open(v) \/ (\E o \in Ops : Type(v, o))
  <2>1. tab'[u] = tab[u]
    BY ZenonT(40), <1>1, <1>2
       DEF QueueStep, SendHead, PauseOver, ReceiveAck, RetryOrGiveUp, ControllerStep, Attempt,
           Drained, DrainTimeout, FetchRow, FetchCells, FetchFails, Mount, ReceiveJoined,
           ReceiveOp, ReceiveRevoked, ReceiveChanged, TabConnects, Open, Type
  <2>2. inbox'[u] = inbox[u]
    BY ZenonT(40), <1>1, <1>2
       DEF QueueStep, SendHead, PauseOver, ReceiveAck, ControllerStep, Attempt, Sends, Emit,
           Drained, DrainTimeout, FetchRow, FetchCells, FetchFails, Mount, ReceiveJoined,
           ReceiveOp, ReceiveRevoked, ReceiveChanged, TabConnects, Connect, Open, Type
  <2>3. outbox'[u] = outbox[u] /\ UNCHANGED <<log, content, line, room>>
    BY ZenonT(40), <1>1, <1>2
       DEF QueueStep, SendHead, PauseOver, ReceiveAck, ControllerStep, Attempt, Sends, Gets,
           Drained, DrainTimeout, FetchRow, FetchCells, FetchFails, Mount, ReceiveJoined,
           ReceiveOp, ReceiveRevoked, ReceiveChanged, TabConnects, Connect, Open, Type
  <2>4. u \in conn' <=> u \in conn
    BY <1>1, <1>2
       DEF QueueStep, SendHead, PauseOver, ReceiveAck, ControllerStep, Attempt, Sends, Gets,
           Drained, DrainTimeout, FetchRow, FetchCells, FetchFails, Mount, ReceiveJoined,
           ReceiveOp, ReceiveRevoked, ReceiveChanged, TabConnects, Connect, Open, Type
  <2> QED  BY <2>1, <2>2, <2>3, <2>4, CalmWithoutQueue DEF Grown
<1>3. CASE TabDisconnects(v)
  <2>1. tab'[u] = tab[u]  BY <1>1, <1>3 DEF TabDisconnects
  <2>2. /\ UNCHANGED <<log, content>> /\ inbox'[u] = inbox[u] /\ outbox'[u] = outbox[u]
        /\ u \in conn' <=> u \in conn
        /\ u \in room => u \in room'
        /\ line' = [i \in DOMAIN line |-> [line[i] EXCEPT !.alive = @ /\ line[i].user # v]]
    BY <1>1, <1>3 DEF TabDisconnects, Disconnect
  <2>3. RequestsStay(u)
    <3>1. \A k \in Emitted(u)' : k \in Nat /\ k + 0 \in Emitted(u) /\ inbox'[u][k] = inbox[u][k + 0]
      <4>1. \A k \in Emitted(u) : k \in Nat /\ k + 0 = k  BY Shapes DEF Emitted
      <4>2. Emitted(u)' = Emitted(u)  BY <2>2 DEF Emitted
      <4> QED  BY <2>2, <4>1, <4>2
    <3> QED  BY <3>1 DEF RequestsStay
  <2>4. QueueGoesOn(u)
    <3>1. \A i \in DOMAIN line : line[i] \in Tasks  BY Shapes
    <3>2. \A i \in DOMAIN line :
            /\ line'[i].user = line[i].user /\ line'[i].op = line[i].op
            /\ line'[i].att = line[i].att /\ line'[i].rev = line[i].rev
            /\ line'[i].stage = line[i].stage
            /\ line'[i].alive = (line[i].alive /\ line[i].user # v)
      BY <2>2, <3>1 DEF Tasks
    <3>3. \A i \in DOMAIN line : line[i].alive \in BOOLEAN  BY <3>1 DEF Tasks
    <3>4. DOMAIN line' = DOMAIN line  BY <2>2
    <3> QED  BY <3>2, <3>3, <3>4 DEF QueueGoesOn
  <2>5. Extends(outbox[u], outbox'[u], Plain)  BY <2>2 DEF Extends
  <2> QED  BY <2>1, <2>2, <2>3, <2>4, <2>5 DEF Calm
<1> QED  BY <1>2, <1>3

\* A message that arrives, unless it is a change of this tab.
LEMMA ArrivalsCalm ==
  ASSUME SyncInv, RequestsAreOwn, NEW u \in Users, NEW v \in Users, Arrival(v),
         v = u => JoinArrives(u)
  PROVE  Calm(u)
<1> USE DEF dbVars, lineVars, socketVars
<1>1. /\ inbox \in [Users -> Seq(ClientMessages)] /\ outbox \in [Users -> Seq(ServerMessages)]
      /\ line \in Seq(Tasks) /\ Len(line) \in Nat /\ DOMAIN line = 1..Len(line) /\ ServerTypeOK
  BY Shapes DEF SyncInv, ServerInv, ServerTypeOK
<1>2. CASE v = u
  <2>1. Arrives(u, "join")  BY <1>2 DEF JoinArrives
  <2>2. \A k \in DOMAIN inbox'[u] :
          k + 1 \in DOMAIN inbox[u] /\ inbox'[u][k] = inbox[u][k + 1] /\ k \in Nat
    BY <1>1, <2>1, InboxShifts
  <2>3. RequestsStay(u)
    <3>1. \A k \in Emitted(u)' : k \in Nat /\ k + 1 \in Emitted(u) /\ inbox'[u][k] = inbox[u][k + 1]
      BY <2>2 DEF Emitted
    <3> QED  BY <3>1 DEF RequestsStay
  <2>4. u \in conn  BY <2>1 DEF Arrives
  <2>5. UNCHANGED <<log, content, line, conn, room, outbox>>  BY <1>2 DEF JoinArrives
  <2> QED  BY <2>3, <2>4, <2>5 DEF Calm, QueueGoesOn, Extends
<1>3. CASE v # u
  <2>1. inbox'[u] = inbox[u]
    BY <1>1, <1>3
       DEF Arrival, JoinArrives, LeaveArrives, OpArrives, OpRateLimited, Arrives
  <2>2. outbox'[u] = outbox[u] /\ UNCHANGED <<log, content, conn>> /\ (u \in room => u \in room')
    BY <1>1, <1>3
       DEF Arrival, JoinArrives, LeaveArrives, OpArrives, OpRateLimited, Emit
  <2>3. CASE UNCHANGED line  BY <2>1, <2>2, <2>3, CalmWithoutQueue DEF Grown
  <2>4. CASE line' # line
    <3>1. OpArrives(v) /\ line' = Append(line, Request(v, Head(inbox[v]))) /\ Arrives(v, "op")
      BY <2>4 DEF Arrival, JoinArrives, LeaveArrives, OpArrives, OpRateLimited
    <3> DEFINE t == Request(v, Head(inbox[v]))
    <3>2. t \in Tasks /\ t.user = v /\ t.stage = "waiting" /\ t.op = Head(inbox[v]).op
      BY <1>1, <3>1, ArrivalTypes DEF Request
    <3>3. 1 \in Emitted(v) /\ Head(inbox[v]) = inbox[v][1]
      BY <1>1, <3>1, InboxShifts DEF Emitted
    <3>4. AuthorOf[t.op] # u  BY <1>3, <3>2, <3>3 DEF RequestsAreOwn
    <3> HIDE DEF t
    <3>5. line' = Append(line, t)  BY <3>1 DEF t
    <3>6. /\ \A i \in DOMAIN line : i \in DOMAIN line' /\ line'[i] = line[i]
          /\ \A i \in DOMAIN line' : i \notin DOMAIN line => line'[i] = t
      <4>1. Extends(line, line', {t})  BY <1>1, <3>2, <3>5, AppendExtends
      <4> QED  BY <4>1 DEF Extends
    <3>7. QueueGoesOn(u)  BY <1>3, <3>2, <3>4, <3>6 DEF QueueGoesOn
    <3>8. RequestsStay(u)
      <4>1. \A k \in Emitted(u) : k \in Nat /\ k + 0 = k  BY Shapes DEF Emitted
      <4>2. Emitted(u)' = Emitted(u)  BY <2>1 DEF Emitted
      <4>3. \A k \in Emitted(u)' : k \in Nat /\ k + 0 \in Emitted(u) /\ inbox'[u][k] = inbox[u][k + 0]
        BY <2>1, <4>1, <4>2
      <4> QED  BY <4>3 DEF RequestsStay
    <3>9. Extends(outbox[u], outbox'[u], Plain)  BY <2>2 DEF Extends
    <3> QED  BY <2>1, <2>2, <3>7, <3>8, <3>9 DEF Calm
  <2> QED  BY <2>3, <2>4
<1> QED  BY <1>2, <1>3

\* Nothing but the sender's progress, and a change of the first in the queue that
\* is no commit.
LEMMA AuthorizeCalm ==
  ASSUME SyncInv, NEW u \in Users, NEW i \in DOMAIN line, OpAuthorize(i)
  PROVE  Calm(u)
<1> USE DEF dbVars, lineVars, socketVars
<1>1. /\ i = 1 /\ line[i].stage = "waiting"
      /\ line' = [line EXCEPT ![i].stage = "authorized"]
      /\ UNCHANGED <<log, content, conn, room, inbox, outbox>>
  BY DEF OpAuthorize, MayRun
<1>2. \A k \in DOMAIN line : line[k] \in Tasks  BY Shapes
<1>3. /\ DOMAIN line' = DOMAIN line
      /\ \A k \in DOMAIN line :
           /\ line'[k].user = line[k].user /\ line'[k].op = line[k].op
           /\ line'[k].att = line[k].att /\ line'[k].rev = line[k].rev
           /\ line'[k].alive = line[k].alive
           /\ line'[k].stage = "committed" <=> line[k].stage = "committed"
  BY <1>1, <1>2 DEF Tasks
<1>4. QueueGoesOn(u)  BY <1>3 DEF QueueGoesOn
<1>5. RequestsStay(u)
  <2>1. \A k \in Emitted(u) : k \in Nat /\ k + 0 = k  BY Shapes DEF Emitted
  <2>2. Emitted(u)' = Emitted(u)  BY <1>1 DEF Emitted
  <2>3. \A k \in Emitted(u)' : k \in Nat /\ k + 0 \in Emitted(u) /\ inbox'[u][k] = inbox[u][k + 0]
    BY <1>1, <2>1, <2>2
  <2> QED  BY <2>3 DEF RequestsStay
<1> QED  BY <1>1, <1>4, <1>5 DEF Calm, Extends

\* A join handler goes on, or answers; it puts a tab out of the room with an answer.
LEMMA HandlersCalm ==
  ASSUME SyncInv, RoomIsConnected, NEW u \in Users, NEW j \in joining,
         JoinStep(j) \/ (JoinFails(j) /\ j.stage # "rechecking")
  PROVE  Calm(u)
<1> USE DEF dbVars, lineVars, socketVars
<1>1. /\ j \in JoinHandlers /\ j.user \in Users /\ j.user \in conn
      /\ outbox \in [Users -> Seq(ServerMessages)] /\ outbox[u] \in Seq(ServerMessages)
  BY DEF SyncInv, ServerInv, ServerTypeOK, JoinHandlers, RoomIsConnected
<1>2. UNCHANGED <<log, content, line, conn, inbox>>
  BY DEF JoinStep, JoinCheck, JoinEnters, JoinRecheck, JoinAnswers, JoinFails
<1>3. ASSUME UNCHANGED outbox, room \subseteq room' PROVE Calm(u)
  BY <1>2, <1>3, CalmWithoutQueue DEF Grown
<1>4. ASSUME NEW code \in JoinCodes, AnswersJoin(j, code),
             room \subseteq room' \/ (code = "NOT_FOUND" /\ room' = room \ {j.user})
      PROVE  Calm(u)
  <2> DEFINE m == Joined(j, code)
  <2>1. m \in ServerMessages /\ m.type = "joined" /\ m.code = code
    BY <1>1, MessageTypes DEF Joined
  <2>2. outbox'[u] = IF u = j.user THEN Append(outbox[u], m) ELSE outbox[u]
    BY <1>1, <1>4 DEF AnswersJoin, Emit
  <2> HIDE DEF m
  <2>3. Grown(outbox[u], outbox'[u], Plain)  BY <2>1, <2>2 DEF Grown, Plain
  <2>4. u = j.user /\ code = "NOT_FOUND" => Doomed(u)'
    <3>1. u = j.user => /\ Len(outbox[u]) + 1 \in DOMAIN outbox'[u]
                        /\ outbox'[u][Len(outbox[u]) + 1] = m
      BY <1>1, <2>1, <2>2, AppendExtends
    <3> QED  BY <2>1, <3>1 DEF Doomed, Dooms
  <2> QED  BY <1>1, <1>2, <1>4, <2>2, <2>3, <2>4, CalmWithoutQueue
<1>5. CASE JoinCheck(j)
  <2>1. room' = room  BY <1>5 DEF JoinCheck
  <2> QED  BY <1>3, <1>4, <1>5, <2>1 DEF JoinCheck, JoinCodes
<1>6. CASE JoinEnters(j)  BY <1>3, <1>6 DEF JoinEnters
<1>7. CASE JoinRecheck(j)  BY <1>3, <1>4, <1>7 DEF JoinRecheck, Leaves, JoinCodes
<1>8. CASE JoinAnswers(j)
  <2>1. room' = room  BY <1>8 DEF JoinAnswers
  <2> QED  BY <1>4, <1>8, <2>1 DEF JoinAnswers, JoinCodes
<1>9. CASE JoinFails(j) /\ j.stage # "rechecking"
  <2>1. room' = room  BY <1>9 DEF JoinFails
  <2> QED  BY <1>4, <1>9, <2>1 DEF JoinFails, JoinCodes
<1> QED  BY <1>5, <1>6, <1>7, <1>8, <1>9 DEF JoinStep

LEMMA ManagementCalm ==
  ASSUME SyncInv, RoomIsConnected, NEW u \in Users,
         Management \/ (\E e \in evicting : Evict(e)) \/ (\E o \in Ops : Forget(o))
  PROVE  Calm(u)
<1> USE DEF dbVars, lineVars, socketVars
<1>1. outbox \in [Users -> Seq(ServerMessages)] /\ outbox[u] \in Seq(ServerMessages)
  BY DEF SyncInv, ServerInv, ServerTypeOK
<1>2. ASSUME UNCHANGED <<log, content, line, conn, room, inbox, outbox>> PROVE Calm(u)
  BY <1>2, CalmWithoutQueue DEF Grown
<1>3. ASSUME NEW v \in Users, NEW p \in {"view", "edit"}, Assign(v, p) PROVE Calm(u)
  <2> DEFINE m == [type |-> "access-changed", permission |-> p]
  <2>1. m \in Plain  BY MessageTypes DEF Plain
  <2>2. /\ outbox'[u] = IF u = v /\ v \in conn THEN Append(outbox[u], m) ELSE outbox[u]
        /\ UNCHANGED <<log, content, line, conn, room, inbox>>
    BY <1>1, <1>3 DEF Assign, Emit
  <2> HIDE DEF m
  <2>3. Grown(outbox[u], outbox'[u], Plain)  BY <2>1, <2>2 DEF Grown
  <2> QED  BY <2>2, <2>3, CalmWithoutQueue
<1>4. ASSUME NEW e \in evicting, Evict(e) PROVE Calm(u)
  <2> DEFINE m == [type |-> "access-revoked"]
             told == IF e = Users THEN room ELSE e \cap conn
  <2>1. m \in Plain /\ Dooms(m) /\ m \in ServerMessages  BY MessageTypes DEF Plain, Dooms
  <2>2. /\ outbox'[u] = IF u \in told THEN Append(outbox[u], m) ELSE outbox[u]
        /\ UNCHANGED <<log, content, line, conn, inbox>> /\ room' = room \ e
    BY <1>4 DEF Evict, Broadcast
  <2>3. (u \in room /\ u \in e => u \in told) /\ (u \in told => u \in conn)
    BY DEF RoomIsConnected
  <2> HIDE DEF m, told
  <2>4. Grown(outbox[u], outbox'[u], Plain)  BY <2>1, <2>2 DEF Grown
  <2>5. u \in told => Doomed(u)'  BY <1>1, <2>1, <2>2, AppendExtends DEF Doomed
  <2>6. u \in room => u \in room' \/ Doomed(u)'  BY <2>2, <2>3, <2>5
  <2> QED  BY <2>2, <2>3, <2>4, <2>6, CalmWithoutQueue
<1> QED  BY <1>2, <1>3, <1>4 DEF Management, Unassign, SetStatus, SetAccount, Forget

(* The steps of the tab itself that are calm. *)

OwnStep(u) ==
  \/ Open(u) \/ PauseOver(u) \/ (\E o \in Ops : Type(u, o)) \/ Attempt(u) \/ Drained(u)
  \/ DrainTimeout(u) \/ FetchRow(u) \/ FetchCells(u) \/ FetchFails(u) \/ Mount(u)

LEMMA OwnStepsCalm ==
  ASSUME SyncInv, NEW u \in Users, OwnStep(u)
  PROVE  Calm(u) /\ StillAsks(u) /\ (Hears(u)' => ~tab[u].shut)
<1> USE DEF dbVars, lineVars, socketVars, serverVars
<1>1. /\ tab \in [Users -> Tabs] /\ tab[u] \in Tabs /\ inbox \in [Users -> Seq(ClientMessages)]
      /\ inbox[u] \in Seq(ClientMessages) /\ (tab[u].sender # "idle" => tab[u].unsaved # << >>)
  BY Shapes DEF SyncInv, ServerInv, ServerTypeOK, TabsInv, SenderHasHead
<1>2. Calm(u)
  <2>1. CASE Attempt(u)
    <3>1. PICK n \in Joins : Sends(u, [type |-> "join", n |-> n])  BY <2>1 DEF Attempt
    <3> DEFINE m == [type |-> "join", n |-> n]
    <3>2. /\ inbox'[u] = Append(inbox[u], m) /\ m.type = "join" /\ m \in ClientMessages
          /\ UNCHANGED <<log, content, line, conn, room, outbox>>
      BY <1>1, <3>1 DEF Sends, Emit, ClientMessages
    <3> HIDE DEF m
    <3>3. Extends(inbox[u], inbox'[u], {m})  BY <1>1, <3>2, AppendExtends
    <3>4. \A k \in Emitted(u)' : k \in Nat /\ k + 0 \in Emitted(u) /\ inbox'[u][k] = inbox[u][k + 0]
      <4> SUFFICES ASSUME NEW k \in Emitted(u)'
                   PROVE  k \in Nat /\ k + 0 \in Emitted(u) /\ inbox'[u][k] = inbox[u][k + 0]
        OBVIOUS
      <4>1. k \in Emitted(u) /\ inbox'[u][k] = inbox[u][k]
        BY <3>2, <3>3 DEF Emitted, Extends
      <4>2. k \in Nat /\ k + 0 = k  BY <4>1, Shapes DEF Emitted
      <4> QED  BY <4>1, <4>2
    <3>5. RequestsStay(u)  BY <3>4 DEF RequestsStay
    <3>6. u \in conn  BY <2>1 DEF Attempt
    <3> QED  BY <3>2, <3>5, <3>6 DEF Calm, QueueGoesOn, Extends
  <2>2. CASE ~Attempt(u)
    <3>1. UNCHANGED serverVars
      BY <2>2 DEF OwnStep, Open, PauseOver, Type, Drained, DrainTimeout, FetchRow, FetchCells,
                  FetchFails, Mount
    <3> QED  BY SMTT(30), <3>1, CalmWithoutQueue DEF Grown
  <2> QED  BY <2>1, <2>2
<1>3. ASSUME NEW o \in Ops, Type(u, o) PROVE StillAsks(u) /\ (Hears(u)' => ~tab[u].shut)
  <2> DEFINE x == [tab[u] EXCEPT !.screen[ItemOf[o]] = o, !.unsaved = Append(tab[u].unsaved, o)]
  <2>1. tab'[u] = x  BY <1>1, <1>3 DEF Type
  <2>2. /\ x.shut = tab[u].shut /\ x.sender = tab[u].sender /\ x.att = tab[u].att
        /\ x.online = tab[u].online
        /\ x.unsaved = Append(tab[u].unsaved, o)
    BY <1>1 DEF Tabs
  <2>3. ASSUME tab[u].unsaved # << >> PROVE UnsavedHead(u)' = UnsavedHead(u)
    <3>1. tab[u].unsaved \in Seq(Ops) /\ tab'[u].unsaved = Append(tab[u].unsaved, o)
      BY <1>1, <2>1, <2>2 DEF Tabs
    <3> DEFINE U == tab[u].unsaved
    <3>2. Head(Append(U, o)) = Head(U)
      <4>1. Append(U, o) \in Seq(Ops) /\ Append(U, o) # << >>  BY <3>1, AppendProperties, EmptySeq, LenProperties
      <4>2. Head(Append(U, o)) = Append(U, o)[1] /\ Head(U) = U[1] /\ 1 \in 1..Len(U)
        BY <2>3, <3>1, <4>1, TailShifts, LenProperties
      <4> QED  BY <3>1, <4>2, AppendProperties
    <3> QED  BY <3>1, <3>2 DEF UnsavedHead
  <2> QED  BY <1>1, <2>1, <2>2, <2>3 DEF StillAsks, StillAwaits, Hears
<1>4. ASSUME OwnStep(u), \A o \in Ops : ~Type(u, o) PROVE StillAsks(u) /\ (Hears(u)' => ~tab[u].shut)
  <2>1. /\ tab'[u].shut = tab[u].shut /\ tab'[u].att = tab[u].att
        /\ tab'[u].unsaved = tab[u].unsaved /\ tab'[u].online = tab[u].online
        /\ tab'[u].sender = tab[u].sender \/ tab[u].sender = "pausing"
    <3>1. CASE Open(u) \/ PauseOver(u) \/ Drained(u) \/ DrainTimeout(u) \/ FetchCells(u) \/ FetchFails(u)
      BY <1>1, <3>1 DEF Open, PauseOver, Drained, DrainTimeout, FetchCells, FetchFails, Tabs
    <3>2. CASE Attempt(u)
      <4>1. PICK n : tab' = [tab EXCEPT ![u] = [tab[u] EXCEPT !.sync = "joining", !.joinNo = n,
                                                               !.buffered = {}]]
        BY <1>1, <3>2 DEF Attempt
      <4> QED  BY <1>1, <4>1 DEF Tabs
    <3>3. CASE FetchRow(u)  BY <1>1, <3>3 DEF FetchRow, Tabs
    <3>4. CASE Mount(u)  BY <1>1, <3>4 DEF Mount, Tabs
    <3> QED  BY <1>4, <3>1, <3>2, <3>3, <3>4 DEF OwnStep
  <2> QED  BY <2>1 DEF StillAsks, StillAwaits, UnsavedHead, Hears
<1> QED  BY <1>2, <1>3, <1>4

\* Where a tab is not loading, and not live, nothing is said of it.
LEMMA NothingShown ==
  ASSUME NEW u \in Users, tab'[u].sync \notin {"reading", "mounting", "live"}
  PROVE  Loads(u)' /\ Lives(u)'
BY DEF Loads, Lives

\* The revision is read, and then the cells.
LEMMA FetchShows ==
  ASSUME SyncInv, NEW u \in Users, Loads(u), Hears(u)' => Hears(u), Calm(u),
         FetchRow(u) \/ FetchCells(u)
  PROVE  Loads(u)' /\ Lives(u)'
<1> USE DEF dbVars, lineVars, socketVars, serverVars
<1>1. /\ tab[u] \in Tabs /\ tab \in [Users -> Tabs]
      /\ Len(log) \in Nat /\ DOMAIN log = 1..Len(log) /\ UNCHANGED serverVars
  BY Shapes DEF FetchRow, FetchCells
<1>2. CASE FetchRow(u)
  <2>1. tab'[u].sync = "reading" /\ tab'[u].snap = Len(log)  BY <1>1, <1>2 DEF FetchRow, Tabs
  <2>2. \A r \in DOMAIN log : ~(Len(log) < r)  BY <1>1
  <2>3. NewerIsHeld(u)'  BY <1>1, <2>1, <2>2 DEF NewerIsHeld
  <2> QED  BY <1>1, <2>1, <2>3 DEF Loads, Lives
<1>3. CASE FetchCells(u)
  <2>1. /\ tab'[u].sync = "mounting" /\ tab'[u].snap = tab[u].snap /\ tab'[u].cells = content
        /\ tab'[u].rerun = tab[u].rerun /\ tab'[u].buffered = tab[u].buffered
        /\ tab[u].sync = "reading"
    BY <1>1, <1>3 DEF FetchCells, Tabs
  <2>2. \A r : IsComing(u, r)' <=> IsComing(u, r)  BY CalmView
  <2>3. NewerIsHeld(u)'  BY <1>1, <2>1, <2>2 DEF Loads, NewerIsHeld
  <2>4. CellsAreRead(u)'  BY <1>1, <2>1 DEF CellsAreRead
  <2> QED  BY <1>1, <2>1, <2>3, <2>4 DEF Loads, Lives
<1> QED  BY <1>2, <1>3

LEMMA LatestExists ==
  ASSUME SyncInv, NEW q \in DOMAIN log
  PROVE  \E r \in DOMAIN log : q <= r /\ Latest(ItemOf[log[q]], r)
<1> DEFINE S == {s \in DOMAIN log : q <= s /\ ItemOf[log[s]] = ItemOf[log[q]]}
<1>1. Len(log) \in Nat /\ DOMAIN log = 1..Len(log)
  <2>1. log \in Seq(Ops)  BY DEF SyncInv, ServerInv, ServerTypeOK
  <2> QED  BY <2>1, LenProperties
<1>2. S \in SUBSET Nat /\ q \in S /\ \A s \in S : s <= Len(log)  BY <1>1
<1>3. PICK m \in S : \A s \in S : s <= m
  <2> HIDE DEF S
  <2> QED  BY <1>1, <1>2, GreatestNumber
<1>4. \A s \in DOMAIN log : m < s => s \notin S  BY <1>1, <1>3
<1>5. Latest(ItemOf[log[q]], m)  BY <1>1, <1>2, <1>3, <1>4 DEF Latest
<1> QED  BY <1>3, <1>5

\* A tab that awaits nothing has nothing on its way.
LEMMA NothingAwaited ==
  ASSUME NEW u \in Users, Wired(u), tab[u].sender # "waiting"
  PROVE  Emitted(u) = {} /\ InLine(u) = {} /\ Acked(u) = {}
BY DEF Wired, OneRequest, AwaitsAnswer

\* What is mounted is what is stored, up to what is still to come.
LEMMA MountShows ==
  ASSUME SyncInv, MountDiscardsNothing, NEW u \in Users, Wired(u), Loads(u), LatestIsStored,
         Calm(u), Hears(u)' => Hears(u), Mount(u)
  PROVE  Loads(u)' /\ Lives(u)'
<1> USE DEF dbVars, lineVars, socketVars, serverVars
<1> DEFINE t == tab[u]
           x == tab'[u]
<1>1. /\ t \in Tabs /\ tab \in [Users -> Tabs] /\ log \in Seq(Ops)
      /\ Len(log) \in Nat /\ DOMAIN log = 1..Len(log)
  BY Shapes
<1>2. /\ UNCHANGED <<log, content>> /\ t.sync = "mounting"
      /\ x.screen = Replay(t) /\ x.unsaved = t.unsaved
      /\ x.sync = IF t.rerun THEN "due" ELSE "live"
  BY <1>1 DEF Mount, Tabs
<1>3. CASE t.rerun  BY <1>2, <1>3, NothingShown
<1>4. CASE ~t.rerun
  <2> SUFFICES ASSUME Hears(u)' PROVE (ShowsOwn(u) /\ NoneIsOld(u) /\ AckInOrder(u) /\ Shows(u))'
    BY <1>2, <1>4 DEF Loads, Lives
  <2>1. t.unsaved = << >> /\ t.sender = "idle"
    BY <1>1, <1>2 DEF MountDiscardsNothing, SyncInv, TabsInv, SenderHasHead, Tabs
  <2>2. DOMAIN x.unsaved = {}  BY <1>2, <2>1
  <2>3. Acked(u)' = {} /\ \A r : IsComing(u, r)' <=> IsComing(u, r)
    BY <2>1, NothingAwaited, CalmView
  <2>4. (ShowsOwn(u) /\ NoneIsOld(u) /\ AckInOrder(u))'
    BY <2>2, <2>3 DEF ShowsOwn, NoneIsOld, AckInOrder
  <2>5. NewerIsHeld(u) /\ CellsAreRead(u)  BY <1>2 DEF Loads
  <2>6. Hears(u)  OBVIOUS
  <2>7. ASSUME NEW r \in DOMAIN log, t.snap < r
        PROVE  \/ IsComing(u, r)
               \/ \E m \in Missed(t) : m.rev = r /\ m.op = log[r]
    BY <1>4, <2>5, <2>6, <2>7
       DEF NewerIsHeld, Missed, SyncInv, TabsInv, HeldBackIsSaved, SavedMessages
  <2>8. ASSUME NEW i \in Items
        PROVE  \/ x.screen[i] = content[i]
               \/ \E r \in DOMAIN log : Latest(i, r) /\ IsComing(u, r)
    <3> DEFINE held == {m \in Missed(t) : ItemOf[m.op] = i}
    <3>1. x.screen[i] = IF held = {} THEN t.cells[i]
                        ELSE (CHOOSE m \in held : \A n \in held : n.rev <= m.rev).op
      BY <1>2 DEF Replay
    <3>2. \A m \in held : m.rev \in DOMAIN log /\ log[m.rev] = m.op /\ ItemOf[m.op] = i /\ t.snap < m.rev
      BY <1>1 DEF Missed, SyncInv, TabsInv, HeldBackIsSaved, SavedMessages, Tabs
    <3>3. \A r \in DOMAIN log : Latest(i, r) /\ t.snap < r =>
            IsComing(u, r) \/ \E m \in held : m.rev = r
      BY <2>7 DEF Latest
    <3> HIDE DEF held
    <3>4. CASE held = {}  BY <2>5, <3>1, <3>3, <3>4 DEF CellsAreRead
    <3>5. CASE held # {}
      <4> DEFINE n == CHOOSE m \in held : \A l \in held : l.rev <= m.rev
                 R == {m.rev : m \in held}
      <4>1. R \in SUBSET Nat /\ R # {} /\ \A r \in R : r <= Len(log)  BY <1>1, <3>2, <3>5
      <4>2. \E r \in R : \A s \in R : s <= r
        <5> HIDE DEF R
        <5> QED  BY <1>1, <4>1, GreatestNumber
      <4>3. n \in held /\ \A l \in held : l.rev <= n.rev  BY <4>2
      <4> HIDE DEF n
      <4>4. x.screen[i] = n.op  BY <3>1, <3>5 DEF n
      <4>5. n.rev \in DOMAIN log /\ log[n.rev] = n.op /\ ItemOf[n.op] = i /\ t.snap < n.rev
        BY <3>2, <4>3
      <4>6. PICK r \in DOMAIN log : n.rev <= r /\ Latest(i, r)  BY <4>5, LatestExists
      <4>7. t.snap < r
        <5>1. t.snap \in Nat /\ n.rev \in Nat /\ r \in Nat  BY <1>1, <4>5 DEF Tabs
        <5> QED  BY <4>5, <4>6, <5>1
      <4>8. CASE IsComing(u, r)  BY <4>6, <4>8
      <4>9. CASE \E m \in held : m.rev = r
        <5>1. r <= n.rev  BY <4>3, <4>9
        <5>2. r = n.rev  BY <1>1, <4>5, <4>6, <5>1
        <5> QED  BY <4>4, <4>5, <4>6, <5>2 DEF LatestIsStored
      <4> QED  BY <3>3, <4>6, <4>7, <4>8, <4>9
    <3> QED  BY <3>4, <3>5
  <2>9. Shows(u)'
    <3>1. \A i, r : Latest(i, r)' <=> Latest(i, r)  BY <1>2 DEF Latest
    <3>2. \A i \in CellItems : i \in Items  BY CellItemsAreItems
    <3> QED  BY <1>2, <2>3, <2>8, <3>1, <3>2 DEF Shows, ItemShown
  <2> QED  BY <2>4, <2>9
<1> QED  BY <1>3, <1>4

\* What is typed is shown, and nobody has ever sent it.
LEMMA TypeShows ==
  ASSUME SyncInv, OrderInv, NEW u \in Users, Lives(u), Hears(u)' => Hears(u), Loads(u),
         NEW o \in Ops, Type(u, o)
  PROVE  Loads(u)' /\ Lives(u)'
<1> USE DEF dbVars, lineVars, socketVars, serverVars
<1> DEFINE t == tab[u]
           x == tab'[u]
           U == t.unsaved
           V == x.unsaved
<1>1. /\ t \in Tabs /\ tab \in [Users -> Tabs] /\ U \in Seq(Ops) /\ ItemOf[o] \in Items
      /\ t.screen \in [Items -> Ops \cup {Blank}] /\ fate \in [Ops -> {"untyped", "pending", "confirmed", "rejected"}]
  BY Shapes, TabFields, ItemOfType DEF SyncInv, TabsInv, TabsTyped
<1>2. /\ UNCHANGED serverVars /\ t.sync = "live" /\ x.sync = "live"
      /\ x.screen = [t.screen EXCEPT ![ItemOf[o]] = o] /\ V = Append(U, o)
      /\ fate[o] = "untyped" /\ fate' = [fate EXCEPT ![o] = "pending"]
  BY <1>1 DEF Type, Tabs
<1> SUFFICES ASSUME Hears(u)' PROVE (ShowsOwn(u) /\ NoneIsOld(u) /\ AckInOrder(u) /\ Shows(u))'
  BY <1>2 DEF Loads, Lives
<1>3. ShowsOwn(u) /\ NoneIsOld(u) /\ AckInOrder(u) /\ Shows(u)  BY <1>2 DEF Lives
<1>4. /\ \A k \in DOMAIN U : k \in DOMAIN V /\ V[k] = U[k]
      /\ \A k \in DOMAIN V : k \notin DOMAIN U => V[k] = o /\ \A l \in DOMAIN U : l < k
      /\ \E k \in DOMAIN V : V[k] = o /\ k \notin DOMAIN U
  BY <1>1, <1>2, AppendExtends DEF Extends
<1>5. x.screen[ItemOf[o]] = o /\ \A i : i # ItemOf[o] => x.screen[i] = t.screen[i]  BY <1>1, <1>2
<1> HIDE DEF t, x, U, V
<1>6. ShowsOwn(u)'
  <2> SUFFICES ASSUME NEW k \in DOMAIN V, ItemOf[V[k]] \in CellItems,
                      \A l \in DOMAIN V : k < l => ItemOf[V[l]] # ItemOf[V[k]]
               PROVE  x.screen[ItemOf[V[k]]] = V[k]
    BY DEF ShowsOwn, V, x
  <2>1. CASE k \notin DOMAIN U  BY <1>4, <1>5, <2>1
  <2>2. CASE k \in DOMAIN U
    <3>1. V[k] = U[k] /\ ItemOf[o] # ItemOf[U[k]]  BY <1>4, <2>2
    <3>2. t.screen[ItemOf[U[k]]] = U[k]  BY <1>3, <1>4, <2>2 DEF ShowsOwn, U, t
    <3> QED  BY <1>5, <3>1, <3>2
  <2> QED  BY <2>1, <2>2
<1>7. NoneIsOld(u)'
  <2> SUFFICES ASSUME NEW k \in DOMAIN V
               PROVE  /\ \A i \in DOMAIN line : line[i].op = V[k] => i \in InLine(u)
                      /\ \A r \in DOMAIN log : log[r] = V[k] =>
                           \/ Announcing /\ line[1].rev = r
                           \/ \E l \in Acked(u) : outbox[u][l].code = "OK" /\ outbox[u][l].rev = r
    BY <1>2 DEF NoneIsOld, V, x, InLine, Announcing, Acked
  <2>1. CASE k \notin DOMAIN U
    <3>1. ~InFlight(o)  BY <1>2 DEF OrderInv, NoneOvertakes
    <3> QED  BY <1>4, <2>1, <3>1 DEF InFlight, Queued, InLog
  <2>2. CASE k \in DOMAIN U  BY <1>3, <1>4, <2>2 DEF NoneIsOld, U, t
  <2> QED  BY <2>1, <2>2
<1>8. AckInOrder(u)'  BY <1>2, <1>3 DEF AckInOrder, Acked, IsComing, Others, Announcing
<1>9. Shows(u)'
  <2> SUFFICES ASSUME NEW i \in CellItems, ~Pending(x, i) PROVE ItemShown(u, i)'
    BY DEF Shows, x
  <2>1. i # ItemOf[o] /\ ~Pending(t, i)  BY <1>4 DEF Pending, U, V
  <2>2. ItemShown(u, i) /\ x.screen[i] = t.screen[i]  BY <1>3, <1>5, <2>1 DEF Shows, t
  <2>3. \A p : IsLost(u, p) => IsLost(u, p)'  BY <1>1, <1>2 DEF IsLost
  <2>4. \A r : (Latest(i, r)' <=> Latest(i, r)) /\ (IsComing(u, r)' <=> IsComing(u, r))
    BY <1>2 DEF Latest, IsComing, Others, Announcing
  <2> QED  BY <1>2, <2>2, <2>3, <2>4 DEF ItemShown, t, x
<1> QED  BY <1>6, <1>7, <1>8, <1>9

ScreenInv(u) == Wired(u) /\ Loads(u) /\ Lives(u)

LEMMA OwnStepsShow ==
  ASSUME SyncInv, OrderInv, MountDiscardsNothing, LatestIsStored,
         NEW u \in Users, ScreenInv(u), OwnStep(u)
  PROVE  ScreenInv(u)'
<1> USE DEF ScreenInv
<1>1. Calm(u) /\ StillAsks(u)  BY OwnStepsCalm
<1>2. Wired(u)' /\ (Hears(u)' => Hears(u))  BY <1>1, CalmWire
<1>3. tab \in [Users -> Tabs] /\ tab[u] \in Tabs  BY Shapes
<1>4. CASE PauseOver(u)
  <2>1. SameView(u)  BY <1>1, <1>3, <1>4 DEF PauseOver, SameView, Tabs
  <2> QED  BY <1>1, <2>1, CalmStep
<1>5. CASE Open(u) \/ Attempt(u) \/ Drained(u) \/ DrainTimeout(u) \/ FetchFails(u)
  <2>1. tab'[u].sync \notin {"reading", "mounting", "live"}
    <3>1. CASE Attempt(u)
      <4>1. PICK n : tab' = [tab EXCEPT ![u] = [tab[u] EXCEPT !.sync = "joining", !.joinNo = n,
                                                               !.buffered = {}]]
        BY <1>3, <3>1 DEF Attempt
      <4> QED  BY <1>3, <4>1 DEF Tabs
    <3>2. CASE ~Attempt(u)
      BY <1>3, <1>5, <3>2 DEF Open, Drained, DrainTimeout, FetchFails, Tabs
    <3> QED  BY <3>1, <3>2
  <2> QED  BY <1>2, <2>1, NothingShown
<1>6. CASE FetchRow(u) \/ FetchCells(u)  BY <1>1, <1>2, <1>6, FetchShows
<1>7. CASE Mount(u)  BY <1>1, <1>2, <1>7, MountShows
<1>8. ASSUME NEW o \in Ops, Type(u, o) PROVE ScreenInv(u)'  BY <1>2, <1>8, TypeShows
<1> QED  BY <1>4, <1>5, <1>6, <1>7, <1>8 DEF OwnStep

\* The head of the queue is sent: the one request the tab awaits an answer to.
LEMMA SendHeadShows ==
  ASSUME SyncInv, OrderInv, NEW u \in Users, ScreenInv(u), SendHead(u)
  PROVE  ScreenInv(u)'
<1> USE DEF ScreenInv, dbVars, lineVars
<1> DEFINE m == [type |-> "op", op |-> UnsavedHead(u), att |-> tab[u].att]
           Asked(x) == tab'[u].sender = "waiting" /\ x.op = UnsavedHead(u)' /\ x.att = tab'[u].att
<1>1. /\ tab[u] \in Tabs /\ tab \in [Users -> Tabs] /\ inbox \in [Users -> Seq(ClientMessages)]
      /\ inbox[u] \in Seq(ClientMessages) /\ tab[u].online /\ tab[u].sender = "idle"
      /\ tab[u].unsaved # << >>
  BY Shapes DEF SyncInv, ServerInv, ServerTypeOK, SendHead
<1>2. /\ inbox'[u] = Append(inbox[u], m) /\ UNCHANGED <<log, content, line, conn, room, outbox, fate>>
      /\ tab'[u] = [tab[u] EXCEPT !.sender = "waiting"]
  BY <1>1 DEF SendHead, Sends, Emit
<1>3. /\ tab'[u].sender = "waiting" /\ tab'[u].att = tab[u].att /\ UnsavedHead(u)' = UnsavedHead(u)
      /\ tab'[u].shut = tab[u].shut /\ SameView(u) /\ u \in conn
  BY <1>1, <1>2 DEF SameView, StillAsks, StillAwaits, Tabs, UnsavedHead, Wired, Unplugged
<1>4. Emitted(u) = {} /\ InLine(u)' = {} /\ Acked(u)' = {}
  BY <1>1, <1>2, NothingAwaited DEF InLine, Acked
<1>5. \A k \in Emitted(u)' : k = Len(inbox[u]) + 1 /\ inbox'[u][k] = m
  <2>1. m \in ClientMessages
    BY <1>1, UnsavedEdits DEF ClientMessages, Tabs
  <2> HIDE DEF m
  <2>2. Extends(inbox[u], inbox'[u], {m})  BY <1>1, <1>2, <2>1, AppendExtends
  <2>3. Len(inbox[u]) \in Nat /\ DOMAIN inbox[u] = 1..Len(inbox[u])
        /\ DOMAIN inbox'[u] = 1..(Len(inbox[u]) + 1)
    BY <1>1, <1>2, <2>1, AppendProperties, LenProperties
  <2>4. ASSUME NEW k \in Emitted(u)' PROVE k \notin DOMAIN inbox[u] /\ inbox'[u][k] = m
    BY <1>4, <2>2, <2>4 DEF Extends, Emitted
  <2> QED  BY <2>3, <2>4 DEF Emitted
<1>6. OneRequest(u)'
  <2>1. Asked(m)  BY <1>3
  <2> HIDE DEF m, Asked
  <2>2. \A k \in Emitted(u)' : Asked(inbox'[u][k]) /\ \A l \in Emitted(u)' : l = k  BY <1>5, <2>1
  <2> QED  BY <1>4, <2>2 DEF OneRequest, AwaitsAnswer, Asked
<1>7. (Hears(u)' <=> Hears(u)) /\ \A r : IsComing(u, r)' <=> IsComing(u, r)
  BY <1>2, <1>3 DEF Hears, Doomed, IsComing, Others, Announcing
<1>8. InOrder(u)' /\ NoGap(u)'
  BY <1>2, <1>7 DEF Wired, InOrder, NoGap, Announcing, IsToBeTold
<1>9. Wired(u)'  BY <1>2, <1>3, <1>6, <1>8 DEF Wired, Unplugged
<1>10. Loads(u)'  BY <1>2, <1>3, <1>7, LoadsStay DEF SameView
<1>11. Lives(u)'
  <2>1. NoneIsOld(u) => NoneIsOld(u)'
    BY <1>2, <1>3 DEF NoneIsOld, SameView, InLine, Announcing, Acked
  <2>2. AckInOrder(u)'  BY <1>4 DEF AckInOrder
  <2> QED  BY <1>2, <1>3, <1>7, <2>1, <2>2, LivesStay DEF SameView
<1> QED  BY <1>9, <1>10, <1>11

(* A tab takes a message. *)

Takes(u) ==
  /\ outbox[u] # << >>
  /\ outbox' = [outbox EXCEPT ![u] = Tail(@)]
  /\ UNCHANGED <<log, content, line, conn, room>>

LEMMA TakesView ==
  ASSUME SyncInv, NEW u \in Users, Takes(u)
  PROVE  /\ Message(u) = outbox[u][1] /\ 1 \in DOMAIN outbox[u] /\ Message(u) \in ServerMessages
         /\ \A k \in DOMAIN outbox'[u] :
              k + 1 \in DOMAIN outbox[u] /\ outbox'[u][k] = outbox[u][k + 1] /\ k \in Nat /\ k # 0
         /\ \A k \in DOMAIN outbox[u] :
              k # 1 => k - 1 \in DOMAIN outbox'[u] /\ outbox'[u][k - 1] = outbox[u][k]
         /\ \A r : IsComing(u, r) => IsComing(u, r)' \/ (Message(u).type = "op" /\ Message(u).rev = r)
         /\ \A r : IsToBeTold(u, r) => IsToBeTold(u, r)' \/ (Tells(Message(u)) /\ Message(u).rev = r)
         /\ Doomed(u) => Doomed(u)' \/ Dooms(Message(u))
<1>1. outbox \in [Users -> Seq(ServerMessages)] /\ outbox[u] \in Seq(ServerMessages) /\ outbox[u] # << >>
  BY DEF SyncInv, ServerInv, ServerTypeOK, Takes
<1>2. outbox'[u] = Tail(outbox[u])  BY <1>1 DEF Takes
<1>3. /\ Message(u) = outbox[u][1] /\ 1 \in DOMAIN outbox[u] /\ Message(u) \in ServerMessages
      /\ \A k \in DOMAIN outbox'[u] :
           k + 1 \in DOMAIN outbox[u] /\ outbox'[u][k] = outbox[u][k + 1] /\ k \in Nat
      /\ \A k \in DOMAIN outbox[u] :
           k # 1 => k - 1 \in DOMAIN outbox'[u] /\ outbox'[u][k - 1] = outbox[u][k]
  BY <1>1, <1>2, TailShifts DEF Message
<1>4. \A k \in DOMAIN outbox'[u] : k # 0
  <2>1. Tail(outbox[u]) \in Seq(ServerMessages)  BY <1>1, TailShifts
  <2> QED  BY <1>2, <2>1, LenProperties
<1>5. ASSUME NEW r, IsComing(u, r)
      PROVE  IsComing(u, r)' \/ (Message(u).type = "op" /\ Message(u).rev = r)
  BY ZenonT(40), <1>3, <1>5 DEF IsComing, Others, Announcing, Takes
<1>6. ASSUME NEW r, IsToBeTold(u, r)
      PROVE  IsToBeTold(u, r)' \/ (Tells(Message(u)) /\ Message(u).rev = r)
  BY ZenonT(40), <1>3, <1>6 DEF IsToBeTold, Announcing, Takes
<1>7. Doomed(u) => Doomed(u)' \/ Dooms(Message(u))  BY <1>3 DEF Doomed
<1> QED  BY <1>3, <1>4, <1>5, <1>6, <1>7

\* A tab that hears that it has lost its access knows it, and one that takes its
\* answer awaits nothing any more.
LEMMA TakesWire ==
  ASSUME SyncInv, NEW u \in Users, Wired(u), Takes(u),
         tab[u].shut \/ Dooms(Message(u)) => tab'[u].shut,
         \/ Message(u).type # "ack" /\ StillAwaits(u) /\ inbox'[u] = inbox[u]
         \/ Message(u).type = "ack" /\ Emitted(u)' \subseteq Emitted(u)
  PROVE  Wired(u)' /\ (Hears(u)' => Hears(u)) /\ (Message(u).type = "ack" => Acked(u)' = {})
<1> DEFINE m == Message(u)
<1>1. /\ m = outbox[u][1] /\ 1 \in DOMAIN outbox[u]
      /\ \A k \in DOMAIN outbox'[u] :
           k + 1 \in DOMAIN outbox[u] /\ outbox'[u][k] = outbox[u][k + 1] /\ k \in Nat /\ k # 0
      /\ \A r : IsToBeTold(u, r) => IsToBeTold(u, r)' \/ (Tells(m) /\ m.rev = r)
      /\ Doomed(u) => Doomed(u)' \/ Dooms(m)
  BY TakesView
<1>2. /\ UNCHANGED <<log, content, line, conn, room>> /\ InLine(u)' = InLine(u)
      /\ Announcing' <=> Announcing
  BY DEF Takes, InLine, Announcing
<1>3. Hears(u)' => Hears(u)  BY <1>1, <1>2 DEF Hears
<1>4. Unplugged(u)'
  <2>1. u \in conn  BY DEF Takes, Wired, Unplugged
  <2> QED  BY <1>2, <2>1 DEF Unplugged
<1> HIDE DEF m
<1>5. ASSUME m.type # "ack" PROVE OneRequest(u)'
  <2> DEFINE Asked(x) == tab'[u].sender = "waiting" /\ x.op = UnsavedHead(u)' /\ x.att = tab'[u].att
  <2>1. \A x : AwaitsAnswer(u, x) => Asked(x)  BY <1>5 DEF AwaitsAnswer, StillAwaits, m
  <2>2. OneRequest(u)  BY DEF Wired
  <2>3. \A k \in Acked(u)' : k + 1 \in Acked(u) /\ outbox'[u][k] = outbox[u][k + 1] /\ k \in Nat
    BY <1>1 DEF Acked
  <2>4. inbox'[u] = inbox[u] /\ Emitted(u)' = Emitted(u)  BY <1>5 DEF Emitted, m
  <2>5. ASSUME NEW k \in Acked(u)' PROVE Asked(outbox'[u][k]) /\ \A l \in Acked(u)' : l = k
    <3>1. AwaitsAnswer(u, outbox[u][k + 1]) /\ \A l \in Acked(u) : l = k + 1
      BY <2>2, <2>3 DEF OneRequest
    <3>2. Asked(outbox'[u][k])  BY <2>1, <2>3, <3>1
    <3> HIDE DEF Asked
    <3> QED  BY <2>3, <3>1, <3>2
  <2>6. \A k \in Emitted(u) : Asked(inbox[u][k]) /\ (\A l \in Emitted(u) : l = k) /\ InLine(u) = {}
                              /\ Acked(u)' = {}
    BY <2>1, <2>2, <2>3 DEF OneRequest
  <2>7. \A i \in InLine(u) : Asked(line[i]) /\ (\A l \in InLine(u) : l = i) /\ Acked(u)' = {}
    BY <2>1, <2>2, <2>3 DEF OneRequest
  <2>8. OneRequest(u)'
    BY <1>2, <2>4, <2>5, <2>6, <2>7 DEF OneRequest, AwaitsAnswer
  <2> QED  BY <2>8
<1>6. ASSUME m.type = "ack" PROVE OneRequest(u)' /\ Acked(u)' = {}
  <2>1. 1 \in Acked(u)  BY <1>1, <1>6 DEF Acked
  <2>2. OneRequest(u)  BY DEF Wired
  <2>3. Emitted(u) = {} /\ InLine(u) = {} /\ \A l \in Acked(u) : l = 1
    BY <2>1, <2>2 DEF OneRequest
  <2>4. Emitted(u)' = {}  BY <1>6, <2>3 DEF m
  <2>5. Acked(u)' = {}
    <3>1. ASSUME NEW k \in Acked(u)' PROVE FALSE
      <4>1. k + 1 \in Acked(u) /\ k \in Nat /\ k # 0  BY <1>1 DEF Acked
      <4> QED  BY <2>3, <4>1
    <3> QED  BY <3>1
  <2> QED  BY <1>2, <2>3, <2>4, <2>5 DEF OneRequest
<1>7. OneRequest(u)' /\ (m.type = "ack" => Acked(u)' = {})  BY <1>5, <1>6
<1>8. InOrder(u)'
  <2> SUFFICES ASSUME NEW k \in DOMAIN outbox'[u], Tells(outbox'[u][k])
               PROVE  /\ Announcing => outbox'[u][k].rev < line[1].rev
                      /\ \A l \in DOMAIN outbox'[u] : k < l /\ outbox'[u][l].type = "op" =>
                           outbox'[u][k].rev < outbox'[u][l].rev
    BY <1>2 DEF InOrder
  <2>1. /\ k + 1 \in DOMAIN outbox[u] /\ outbox'[u][k] = outbox[u][k + 1]
        /\ \A l \in DOMAIN outbox'[u] : l + 1 \in DOMAIN outbox[u] /\ outbox'[u][l] = outbox[u][l + 1]
                                        /\ (k < l => k + 1 < l + 1)
    BY <1>1
  <2> QED  BY <2>1 DEF Wired, InOrder
<1>9. NoGap(u)'
  <2> SUFFICES ASSUME Hears(u)', NEW k \in DOMAIN outbox'[u], outbox'[u][k].type = "op"
               PROVE  u \in room /\ \A r \in DOMAIN log : outbox'[u][k].rev < r => IsToBeTold(u, r)'
    BY <1>2 DEF NoGap
  <2>1. k + 1 \in DOMAIN outbox[u] /\ outbox'[u][k] = outbox[u][k + 1] /\ 1 < k + 1  BY <1>1
  <2>2. u \in room /\ \A r \in DOMAIN log : outbox[u][k + 1].rev < r => IsToBeTold(u, r)
    BY <1>3, <2>1 DEF Wired, NoGap
  <2>3. Tells(m) => m.rev < outbox[u][k + 1].rev  BY <1>1, <2>1 DEF Wired, InOrder
  <2>4. /\ outbox[u][k + 1].rev \in Nat /\ (Tells(m) => m.rev \in Nat)
        /\ \A r \in DOMAIN log : r \in Nat
    <3>1. outbox[u][k + 1] \in ServerMessages /\ m \in ServerMessages  BY <1>1, <2>1, Shapes
    <3>2. \A r \in DOMAIN log : r \in Nat
      <4>1. Len(log) \in Nat /\ DOMAIN log = 1..Len(log)  BY Shapes
      <4> QED  BY <4>1
    <3> QED  BY <2>1, <3>1, <3>2 DEF ServerMessages, Tells
  <2>5. ASSUME NEW r \in DOMAIN log, outbox[u][k + 1].rev < r PROVE IsToBeTold(u, r)'
    <3>1. ~(Tells(m) /\ m.rev = r)  BY <2>3, <2>4, <2>5
    <3> QED  BY <1>1, <2>2, <2>5, <3>1
  <2> QED  BY <2>1, <2>2, <2>5
<1> QED  BY <1>3, <1>4, <1>7, <1>8, <1>9 DEF Wired, m

\* What a live tab knows of its own edits, when the message is no answer to it.
LEMMA TakesKnows ==
  ASSUME SyncInv, NEW u \in Users, Takes(u), Message(u).type # "ack",
         tab'[u].unsaved = tab[u].unsaved
  PROVE  /\ NoneIsOld(u) => NoneIsOld(u)'
         /\ AckInOrder(u) => AckInOrder(u)'
<1> DEFINE m == Message(u)
<1>1. /\ m = outbox[u][1] /\ 1 \in DOMAIN outbox[u]
      /\ \A k \in DOMAIN outbox'[u] :
           k + 1 \in DOMAIN outbox[u] /\ outbox'[u][k] = outbox[u][k + 1] /\ k \in Nat /\ k # 0
      /\ \A k \in DOMAIN outbox[u] :
           k # 1 => k - 1 \in DOMAIN outbox'[u] /\ outbox'[u][k - 1] = outbox[u][k]
      /\ \A r : IsComing(u, r) => IsComing(u, r)' \/ (m.type = "op" /\ m.rev = r)
  BY TakesView
<1>2. UNCHANGED <<log, line>> /\ InLine(u)' = InLine(u) /\ (Announcing' <=> Announcing)
  BY DEF Takes, InLine, Announcing
<1> HIDE DEF m
<1>3. m.type # "ack"  BY DEF m
<1>4. \A k \in Acked(u) : k - 1 \in Acked(u)' /\ outbox'[u][k - 1] = outbox[u][k]
  BY <1>1, <1>3 DEF Acked
<1>5. ASSUME NoneIsOld(u) PROVE NoneIsOld(u)'
  <2> SUFFICES ASSUME NEW k \in DOMAIN tab[u].unsaved, NEW r \in DOMAIN log, log[r] = tab[u].unsaved[k]
               PROVE  \/ Announcing /\ line[1].rev = r
                      \/ \E l \in Acked(u)' : outbox'[u][l].code = "OK" /\ outbox'[u][l].rev = r
    BY <1>2, <1>5 DEF NoneIsOld
  <2>1. \/ Announcing /\ line[1].rev = r
        \/ \E l \in Acked(u) : outbox[u][l].code = "OK" /\ outbox[u][l].rev = r
    BY <1>5 DEF NoneIsOld
  <2> QED  BY <1>4, <2>1
<1>6. ASSUME AckInOrder(u) PROVE AckInOrder(u)'
  <2> SUFFICES ASSUME NEW k \in Acked(u)', outbox'[u][k].code = "OK"
               PROVE  /\ \A l \in DOMAIN outbox'[u] : l < k /\ outbox'[u][l].type = "op" =>
                           outbox'[u][l].rev < outbox'[u][k].rev
                      /\ \A r \in DOMAIN log : outbox'[u][k].rev < r => IsComing(u, r)'
    BY <1>2 DEF AckInOrder
  <2>1. /\ k + 1 \in Acked(u) /\ outbox'[u][k] = outbox[u][k + 1] /\ 1 < k + 1
        /\ \A l \in DOMAIN outbox'[u] : l + 1 \in DOMAIN outbox[u] /\ outbox'[u][l] = outbox[u][l + 1]
                                        /\ (l < k => l + 1 < k + 1)
    BY <1>1 DEF Acked
  <2>2. \A l \in DOMAIN outbox[u] : l < k + 1 /\ outbox[u][l].type = "op" =>
          outbox[u][l].rev < outbox[u][k + 1].rev
    BY <1>6, <2>1 DEF AckInOrder
  <2>3. ASSUME NEW r \in DOMAIN log, outbox[u][k + 1].rev < r PROVE IsComing(u, r)'
    <3>1. IsComing(u, r)  BY <1>6, <2>1, <2>3 DEF AckInOrder
    <3>2. m.type = "op" => m.rev < outbox[u][k + 1].rev  BY <1>1, <2>1, <2>2
    <3>3. /\ outbox[u][k + 1].rev \in Nat /\ (m.type = "op" => m.rev \in Nat) /\ r \in Nat
      <4>1. outbox[u][k + 1] \in ServerMessages /\ m \in ServerMessages
        BY <1>1, <2>1, Shapes DEF Acked
      <4>2. r \in Nat
        <5>1. Len(log) \in Nat /\ DOMAIN log = 1..Len(log)  BY Shapes
        <5> QED  BY <5>1
      <4> QED  BY <2>1, <4>1, <4>2 DEF ServerMessages, Acked
    <3> QED  BY <1>1, <2>3, <3>1, <3>2, <3>3
  <2> QED  BY <2>1, <2>2, <2>3
<1> QED  BY <1>5, <1>6 DEF m

\* What a tab has heard of its access, and the answer to its join.
LEMMA ReceivePlainShows ==
  ASSUME SyncInv, StepInv, NEW u \in Users, ScreenInv(u),
         ReceiveJoined(u) \/ ReceiveRevoked(u) \/ ReceiveChanged(u)
  PROVE  ScreenInv(u)'
<1> USE DEF ScreenInv, dbVars, lineVars
<1> DEFINE t == tab[u]
           m == Message(u)
           x == tab'[u]
<1>1. tab \in [Users -> Tabs] /\ t \in Tabs  BY Shapes
<1>2. /\ Takes(u) /\ inbox'[u] = inbox[u] /\ UNCHANGED fate /\ m.type # "ack" /\ m.type # "op"
  BY DEF ReceiveJoined, ReceiveRevoked, ReceiveChanged, Gets, Takes
<1>3. \A r : IsComing(u, r) => IsComing(u, r)'  BY <1>2, TakesView
<1>4. ASSUME x.sync = t.sync, x.snap = t.snap, x.cells = t.cells, x.rerun = t.rerun,
             x.buffered = t.buffered, x.unsaved = t.unsaved, x.screen = t.screen,
             x.sender = t.sender, x.att = t.att, t.shut \/ Dooms(m) => x.shut
      PROVE  ScreenInv(u)'
  <2>1. StillAwaits(u)  BY <1>4 DEF StillAwaits, UnsavedHead
  <2>2. Wired(u)' /\ (Hears(u)' => Hears(u))  BY <1>2, <1>4, <2>1, TakesWire
  <2>3. UNCHANGED <<log, content>>  BY <1>2 DEF Takes
  <2>4. Loads(u)'  BY <1>3, <1>4, <2>2, <2>3, LoadsStay
  <2>5. Lives(u)'  BY <1>2, <1>3, <1>4, <2>2, <2>3, TakesKnows, LivesStay
  <2> QED  BY <2>2, <2>4, <2>5
<1>5. CASE ReceiveRevoked(u)
  <2>1. x = [t EXCEPT !.shut = TRUE, !.online = FALSE]  BY <1>1, <1>5 DEF ReceiveRevoked
  <2> QED  BY <1>1, <1>4, <2>1 DEF Tabs
<1>6. CASE ReceiveChanged(u)
  <2>1. x = [t EXCEPT !.editable = Message(u).permission = "edit"]  BY <1>1, <1>6 DEF ReceiveChanged
  <2>2. ~Dooms(m)  BY <1>6 DEF ReceiveChanged, Gets, Dooms
  <2> QED  BY <1>1, <1>4, <2>1, <2>2 DEF Tabs
<1>7. CASE ReceiveJoined(u)
  <2>1. m.type = "joined" /\ m \in ServerMessages
    BY <1>2, <1>7, TakesView DEF ReceiveJoined, Gets
  <2>2. m.code \in {"OK", "NOT_FOUND", "SERVER_ERROR"}  BY <2>1 DEF ServerMessages, JoinCodes
  <2>3. CASE ~(t.sync = "joining" /\ m.n = t.joinNo)
    <3>1. UNCHANGED tab  BY <1>7, <2>3 DEF ReceiveJoined
    <3>2. t.shut
      <4>1. m = outbox[u][1] /\ 1 \in Answers(u)  BY <1>2, <2>1, TakesView DEF Answers
      <4> QED  BY <2>3, <4>1 DEF StepInv, TabInStep, OneJoin
    <3> QED  BY <1>4, <3>1, <3>2
  <2>4. CASE t.sync = "joining" /\ m.n = t.joinNo
    <3> DEFINE again == [t EXCEPT !.sync = "due", !.rerun = FALSE]
    <3>1. x = IF m.code = "OK" THEN [t EXCEPT !.online = TRUE,
                                       !.sync = IF t.unsaved = << >> THEN "fetching" ELSE "draining"]
              ELSE IF m.code = "SERVER_ERROR" THEN [t EXCEPT !.sync = "due"]
              ELSE IF t.rerun THEN [again EXCEPT !.shut = TRUE]
              ELSE [t EXCEPT !.sync = "revoked", !.shut = TRUE, !.first = TRUE]
      BY <1>1, <1>7, <2>2, <2>4 DEF ReceiveJoined
    <3>2. /\ x.sync \in {"draining", "fetching", "due", "revoked"}
          /\ x.sender = t.sender /\ x.att = t.att /\ x.unsaved = t.unsaved
          /\ t.shut \/ m.code = "NOT_FOUND" => x.shut
      BY <1>1, <2>2, <3>1 DEF Tabs
    <3>3. StillAwaits(u)  BY <3>2 DEF StillAwaits, UnsavedHead
    <3>4. Dooms(m) => m.code = "NOT_FOUND"  BY <2>1 DEF Dooms
    <3>5. Wired(u)'  BY <1>2, <3>2, <3>3, <3>4, TakesWire
    <3> QED  BY <3>2, <3>5, NothingShown
  <2> QED  BY <2>3, <2>4
<1> QED  BY <1>5, <1>6, <1>7

\* A change of somebody else is shown unless a newer one is on its way, or the cell
\* has an edit of the tab's own.
LEMMA ReceiveOpShows ==
  ASSUME SyncInv, OrderInv, LatestIsStored, NEW u \in Users, ScreenInv(u), ReceiveOp(u)
  PROVE  ScreenInv(u)'
<1> USE DEF ScreenInv, dbVars, lineVars
<1> DEFINE t == tab[u]
           m == Message(u)
           x == tab'[u]
           j == ItemOf[m.op]
<1>1. /\ tab \in [Users -> Tabs] /\ t \in Tabs /\ Len(log) \in Nat /\ DOMAIN log = 1..Len(log)
  BY Shapes
<1>2. /\ Takes(u) /\ inbox'[u] = inbox[u] /\ UNCHANGED fate /\ m.type = "op"
      /\ UNCHANGED <<log, content, line>>
  BY DEF ReceiveOp, Gets, Takes
<1>3. /\ m = outbox[u][1] /\ 1 \in DOMAIN outbox[u] /\ m \in ServerMessages
      /\ \A k \in DOMAIN outbox[u] :
           k # 1 => k - 1 \in DOMAIN outbox'[u] /\ outbox'[u][k - 1] = outbox[u][k]
      /\ \A r : IsComing(u, r) => IsComing(u, r)' \/ m.rev = r
  BY <1>2, TakesView
<1>4. m.rev \in DOMAIN log /\ log[m.rev] = m.op /\ m.op \in Ops
  <2>1. Truthful(m, log)  BY <1>3 DEF SyncInv, ServerInv, SavedMeansSaved
  <2> QED  BY <1>2, <1>3, <2>1, Shapes DEF Truthful
<1>5. x = CASE t.sync = "live" -> ApplyOp(t, m)
            [] t.sync \in {"off", "due", "revoked"} -> t
            [] OTHER -> [t EXCEPT !.buffered = t.buffered \cup {m}]
  BY <1>1 DEF ReceiveOp
<1>6. /\ x.sync = t.sync /\ x.snap = t.snap /\ x.cells = t.cells /\ x.rerun = t.rerun
      /\ x.unsaved = t.unsaved /\ x.sender = t.sender /\ x.att = t.att /\ x.shut = t.shut
      /\ t.sync = "live" => x.buffered = t.buffered
      /\ x.screen = IF t.sync = "live" /\ ~Pending(t, j) THEN [t.screen EXCEPT ![j] = m.op]
                    ELSE t.screen
      /\ t.sync \in {"reading", "mounting"} => x.buffered = t.buffered \cup {m}
      /\ t.buffered \subseteq x.buffered
  <2>1. CASE t.sync = "live"
    <3>1. x = IF Pending(t, j) THEN t ELSE [t EXCEPT !.screen[j] = m.op]
      BY <1>5, <2>1 DEF ApplyOp
    <3> QED  BY <1>1, <2>1, <3>1 DEF Tabs
  <2>2. CASE t.sync # "live"
    <3>1. \/ x = t /\ t.sync \in {"off", "due", "revoked"}
          \/ x = [t EXCEPT !.buffered = t.buffered \cup {m}]
      BY <1>5, <2>2
    <3> QED  BY <1>1, <2>2, <3>1 DEF Tabs
  <2> QED  BY <2>1, <2>2
<1>7. StillAwaits(u) /\ ~Dooms(m)  BY <1>2, <1>6 DEF StillAwaits, UnsavedHead, Dooms
<1> HIDE DEF m, x, t
<1>8. Wired(u)' /\ (Hears(u)' => Hears(u))
  BY <1>2, <1>6, <1>7, TakesWire DEF m, x, t
<1>9. Loads(u)'
  <2>1. t.sync \in {"reading", "mounting"} => m \in x.buffered  BY <1>6
  <2> QED  BY <1>2, <1>3, <1>6, <1>8, <2>1, LoadsStay DEF x, t
<1>10. Lives(u)'
  <2> SUFFICES ASSUME t.sync = "live", Hears(u)'
               PROVE  (ShowsOwn(u) /\ NoneIsOld(u) /\ AckInOrder(u) /\ Shows(u))'
    BY <1>6 DEF Lives, x, t
  <2>1. ShowsOwn(u) /\ NoneIsOld(u) /\ AckInOrder(u) /\ Shows(u) /\ Hears(u)
    BY <1>8 DEF Lives, t
  <2>2. NoneIsOld(u)' /\ AckInOrder(u)'
    BY <1>2, <1>6, <2>1, TakesKnows DEF m, x, t
  <2>3. \A i : Pending(x, i) <=> Pending(t, i)  BY <1>6 DEF Pending
  <2>4. /\ \A i : i # j \/ Pending(t, j) => x.screen[i] = t.screen[i]
        /\ ~Pending(t, j) => x.screen[j] = m.op
    <3>1. t.screen \in [Items -> Ops \cup {Blank}] /\ j \in Items
      BY <1>1, <1>4, TabFields, ItemOfType DEF t
    <3> QED  BY <1>6, <3>1
  <2>5. ShowsOwn(u)'
    <3>1. \A k \in DOMAIN t.unsaved : ItemOf[t.unsaved[k]] \in CellItems =>
            Pending(t, ItemOf[t.unsaved[k]])
      BY DEF Pending
    <3> QED  BY <1>6, <2>1, <2>4, <3>1 DEF ShowsOwn, x, t
  <2>6. Shows(u)'
    <3> SUFFICES ASSUME NEW i \in CellItems, ~Pending(x, i) PROVE ItemShown(u, i)'
      BY DEF Shows, x
    <3>1. \A r : Latest(i, r)' <=> Latest(i, r)  BY <1>2 DEF Latest
    <3>2. CASE i # j
      <4>1. ItemShown(u, i) /\ x.screen[i] = t.screen[i]  BY <2>1, <2>3, <2>4, <3>2 DEF Shows, t
      <4>2. \A r \in DOMAIN log : Latest(i, r) => r # m.rev  BY <1>4, <3>2 DEF Latest
      <4> QED  BY <1>2, <1>3, <3>1, <4>1, <4>2 DEF ItemShown, IsLost, x, t
    <3>3. CASE i = j
      <4>1. ~Pending(t, j) /\ x.screen[i] = m.op  BY <2>3, <2>4, <3>3
      <4>2. PICK r \in DOMAIN log : m.rev <= r /\ Latest(i, r)  BY <1>4, <3>3, LatestExists
      <4>3. CASE r = m.rev
        <5>1. i \in Items  BY CellItemsAreItems
        <5>2. content[i] = m.op  BY <1>4, <4>2, <4>3, <5>1 DEF LatestIsStored
        <5> QED  BY <1>2, <4>1, <5>2 DEF ItemShown, x
      <4>4. CASE r # m.rev
        <5>1. m.rev < r  BY <1>1, <1>4, <4>2, <4>4
        <5>2. IsToBeTold(u, r)  BY <1>2, <1>3, <2>1, <5>1 DEF Wired, NoGap
        <5>3. ItemOf[log[r]] = j  BY <3>3, <4>2 DEF Latest
        <5>4. ASSUME tab[u].sender = "waiting" PROVE log[r] # UnsavedHead(u)
          <6>1. t.unsaved # << >>  BY <5>4 DEF SyncInv, TabsInv, SenderHasHead, t
          <6>2. UnsavedHead(u) = t.unsaved[1] /\ 1 \in DOMAIN t.unsaved  BY <6>1, UnsavedEdits DEF t
          <6> QED  BY <3>3, <4>1, <5>3, <6>2 DEF Pending
        <5>5. IsComing(u, r)
          <6>1. ASSUME NEW k \in DOMAIN outbox[u], Tells(outbox[u][k]), outbox[u][k].type # "op",
                       outbox[u][k].rev = r
                PROVE  FALSE
            <7>1. k \in Acked(u) /\ Truthful(outbox[u][k], log)
              BY <6>1 DEF Tells, Acked, SyncInv, ServerInv, SavedMeansSaved
            <7>2. AwaitsAnswer(u, outbox[u][k])  BY <7>1 DEF Wired, OneRequest
            <7>3. log[r] = outbox[u][k].op  BY <6>1, <7>1 DEF Truthful, Tells
            <7> QED  BY <5>4, <7>2, <7>3 DEF AwaitsAnswer
          <6>2. ASSUME Announcing, line[1].rev = r, line[1].alive, line[1].user = u PROVE FALSE
            <7>1. 1 \in InLine(u) /\ log[r] = line[1].op
              BY <6>2 DEF InLine, Announcing, SyncInv, ServerInv, AnnouncedIsNewest
            <7>2. AwaitsAnswer(u, line[1])  BY <7>1 DEF Wired, OneRequest
            <7> QED  BY <5>4, <7>1, <7>2 DEF AwaitsAnswer
          <6> QED  BY <5>2, <6>1, <6>2 DEF IsToBeTold, IsComing, Others
        <5>6. IsComing(u, r)'  BY <1>3, <4>4, <5>5
        <5> QED  BY <1>2, <3>1, <4>2, <5>6 DEF ItemShown
      <4> QED  BY <4>3, <4>4
    <3> QED  BY <3>2, <3>3
  <2> QED  BY <2>2, <2>5, <2>6
<1> QED  BY <1>8, <1>9, <1>10

\* An edit that is confirmed is stored, or a newer one is on its way; one that is
\* given up is lost.
LEMMA SettledShows ==
  ASSUME SyncInv, OrderInv, LatestIsStored, NEW u \in Users, ScreenInv(u),
         Takes(u), Message(u).type = "ack", tab[u].sender = "waiting", tab[u].sync = "live",
         Hears(u), Acked(u)' = {}, Message(u).op = UnsavedHead(u),
         tab'[u] = Settled(tab[u]), NEW word \in {"confirmed", "rejected"},
         fate' = [fate EXCEPT ![UnsavedHead(u)] = word],
         word = "confirmed" => Message(u).code = "OK"
  PROVE  (ShowsOwn(u) /\ NoneIsOld(u) /\ AckInOrder(u) /\ Shows(u))'
<1> USE DEF ScreenInv
<1> DEFINE t == tab[u]
           m == Message(u)
           x == tab'[u]
           o == UnsavedHead(u)
           U == t.unsaved
           V == x.unsaved
<1>1. /\ t \in Tabs /\ U \in Seq(Ops) /\ U # << >>
      /\ fate \in [Ops -> {"untyped", "pending", "confirmed", "rejected"}]
  BY Shapes, TabFields DEF SyncInv, TabsInv, TabsTyped, SenderHasHead
<1>2. /\ x.screen = t.screen /\ V = Tail(U)  BY <1>1 DEF Settled, Tabs
<1>3. /\ 1 \in DOMAIN U /\ o = U[1] /\ o \in Ops /\ AuthorOf[o] = u /\ fate[o] = "pending"
      /\ \A k \in DOMAIN U : U[k] = o => k = 1
  BY <1>1, UnsavedEdits
<1>4. /\ \A k \in DOMAIN V : k + 1 \in DOMAIN U /\ V[k] = U[k + 1] /\ k \in Nat /\ k + 1 # 1
      /\ \A k \in DOMAIN U : k # 1 => k - 1 \in DOMAIN V /\ V[k - 1] = U[k]
  <2>1. V \in Seq(Ops)  BY <1>1, <1>2, TailShifts
  <2>2. \A k \in DOMAIN V : k \in Nat /\ k >= 1  BY <2>1, LenProperties
  <2> QED  BY <1>1, <1>2, <2>2, TailShifts
<1>5. UNCHANGED <<log, content, line>>  BY DEF Takes
<1>6. /\ m = outbox[u][1] /\ 1 \in DOMAIN outbox[u] /\ m \in ServerMessages
      /\ \A r : IsComing(u, r) => IsComing(u, r)'
  BY TakesView
<1>7. 1 \in Acked(u) /\ (\A l \in Acked(u) : l = 1) /\ InLine(u) = {}
  <2>1. 1 \in Acked(u)  BY <1>6 DEF Acked
  <2> QED  BY <2>1 DEF Wired, OneRequest
<1>8. m.code = "OK" => m.rev \in DOMAIN log /\ log[m.rev] = o
  <2>1. Truthful(m, log)  BY <1>6 DEF SyncInv, ServerInv, SavedMeansSaved
  <2> QED  BY <2>1 DEF Truthful
<1>9. ShowsOwn(u) /\ NoneIsOld(u) /\ AckInOrder(u) /\ Shows(u)  BY DEF Lives
<1> HIDE DEF t, m, x, o, U, V
<1>10. ShowsOwn(u)'
  <2> SUFFICES ASSUME NEW k \in DOMAIN V, ItemOf[V[k]] \in CellItems,
                      \A l \in DOMAIN V : k < l => ItemOf[V[l]] # ItemOf[V[k]]
               PROVE  x.screen[ItemOf[V[k]]] = V[k]
    BY DEF ShowsOwn, V, x
  <2>1. k + 1 \in DOMAIN U /\ V[k] = U[k + 1] /\ k \in Nat  BY <1>4
  <2>2. ASSUME NEW l \in DOMAIN U, k + 1 < l PROVE ItemOf[U[l]] # ItemOf[U[k + 1]]
    <3>1. l \in Nat
      <4>1. DOMAIN U = 1..Len(U) /\ Len(U) \in Nat  BY <1>1, LenProperties
      <4> QED  BY <4>1
    <3>2. l # 1 /\ k < l - 1  BY <2>1, <2>2, <3>1
    <3>3. l - 1 \in DOMAIN V /\ V[l - 1] = U[l]  BY <1>4, <3>2
    <3> QED  BY <2>1, <3>2, <3>3
  <2>3. t.screen[ItemOf[U[k + 1]]] = U[k + 1]  BY <1>9, <2>1, <2>2 DEF ShowsOwn, U, t
  <2> QED  BY <1>2, <2>1, <2>3
<1>11. NoneIsOld(u)'
  <2> SUFFICES ASSUME NEW k \in DOMAIN V
               PROVE  /\ \A i \in DOMAIN line : line[i].op # V[k]
                      /\ \A r \in DOMAIN log : log[r] = V[k] => Announcing /\ line[1].rev = r
    BY <1>5 DEF NoneIsOld, V, x, Announcing
  <2>1. k + 1 \in DOMAIN U /\ V[k] = U[k + 1] /\ U[k + 1] # o  BY <1>3, <1>4
  <2>2. \A i \in DOMAIN line : line[i].op # U[k + 1]  BY <1>7, <1>9, <2>1 DEF NoneIsOld, U, t
  <2>3. ASSUME NEW r \in DOMAIN log, log[r] = U[k + 1] PROVE Announcing /\ line[1].rev = r
    <3>1. \/ Announcing /\ line[1].rev = r
          \/ \E l \in Acked(u) : outbox[u][l].code = "OK" /\ outbox[u][l].rev = r
      BY <1>9, <2>1, <2>3 DEF NoneIsOld, U, t
    <3> QED  BY <1>6, <1>7, <1>8, <2>1, <2>3, <3>1
  <2> QED  BY <2>1, <2>2, <2>3
<1>12. AckInOrder(u)'  BY DEF AckInOrder
<1>13. Shows(u)'
  <2> SUFFICES ASSUME NEW i \in CellItems, ~Pending(x, i) PROVE ItemShown(u, i)'
    BY DEF Shows, x
  <2>1. \A r : Latest(i, r)' <=> Latest(i, r)  BY <1>5 DEF Latest
  <2>2. fate' = [fate EXCEPT ![o] = word]  BY DEF o
  <2>3. CASE ~Pending(t, i)
    <3>1. ItemShown(u, i)  BY <1>9, <2>3 DEF Shows, t
    <3>2. \A p : IsLost(u, p) => IsLost(u, p)'  BY <1>1, <1>3, <2>2 DEF IsLost
    <3> QED  BY <1>2, <1>5, <1>6, <2>1, <3>1, <3>2 DEF ItemShown, x, t
  <2>4. CASE Pending(t, i)
    <3>1. ItemOf[o] = i /\ \A k \in DOMAIN U : k # 1 => ItemOf[U[k]] # i
      <4>1. \A k \in DOMAIN U : k # 1 => ItemOf[U[k]] # i  BY <1>4 DEF Pending, V
      <4>2. PICK k \in DOMAIN U : ItemOf[U[k]] = i  BY <2>4 DEF Pending, U
      <4> QED  BY <1>3, <4>1, <4>2
    <3>2. t.screen[i] = o
      <4>1. \A l \in DOMAIN U : 1 < l => ItemOf[U[l]] # ItemOf[U[1]]  BY <1>3, <3>1
      <4> QED  BY <1>3, <1>9, <3>1, <4>1 DEF ShowsOwn, U, t
    <3>3. CASE word = "rejected"
      <4>1. fate'[o] = "rejected"  BY <1>1, <1>3, <2>2, <3>3
      <4>2. tab'[u].screen[i] = o  BY <1>2, <3>2 DEF x
      <4> QED  BY <1>3, <4>1, <4>2 DEF ItemShown, IsLost
    <3>4. CASE word = "confirmed"
      <4>1. m.code = "OK" /\ m.rev \in DOMAIN log /\ log[m.rev] = o  BY <1>8, <3>4 DEF m
      <4>2. PICK r \in DOMAIN log : m.rev <= r /\ Latest(i, r)  BY <3>1, <4>1, LatestExists
      <4>3. CASE r = m.rev
        <5>1. i \in Items  BY CellItemsAreItems
        <5>2. content[i] = o  BY <4>1, <4>2, <4>3, <5>1 DEF LatestIsStored
        <5> QED  BY <1>2, <1>5, <3>2, <5>2 DEF ItemShown, x
      <4>4. CASE r # m.rev
        <5>1. m.rev < r
          <6>1. Len(log) \in Nat /\ DOMAIN log = 1..Len(log)  BY Shapes
          <6> QED  BY <4>1, <4>2, <4>4, <6>1
        <5>2. IsComing(u, r)  BY <1>6, <1>7, <1>9, <4>1, <5>1 DEF AckInOrder
        <5> QED  BY <1>5, <1>6, <2>1, <4>2, <5>2 DEF ItemShown
      <4> QED  BY <4>3, <4>4
    <3> QED  BY <3>3, <3>4
  <2> QED  BY <2>3, <2>4
<1> QED  BY <1>10, <1>11, <1>12, <1>13

LEMMA ReceiveAckShows ==
  ASSUME SyncInv, OrderInv, MountDiscardsNothing, LatestIsStored,
         NEW u \in Users, ScreenInv(u), ReceiveAck(u)
  PROVE  ScreenInv(u)'
<1> USE DEF ScreenInv, dbVars, lineVars
<1> DEFINE t == tab[u]
           m == Message(u)
           x == tab'[u]
<1>1. /\ tab \in [Users -> Tabs] /\ t \in Tabs /\ inbox \in [Users -> Seq(ClientMessages)]
      /\ inbox[u] \in Seq(ClientMessages)
      /\ fate \in [Ops -> {"untyped", "pending", "confirmed", "rejected"}]
  BY Shapes DEF SyncInv, ServerInv, ServerTypeOK, TabsInv, TabsTyped
<1>2. Takes(u) /\ m.type = "ack"  BY DEF ReceiveAck, Gets, Takes
<1>3. m = outbox[u][1] /\ 1 \in Acked(u) /\ \A r : IsComing(u, r) => IsComing(u, r)'
  BY <1>2, TakesView DEF Acked
<1>4. AwaitsAnswer(u, m) /\ (\A l \in Acked(u) : l = 1) /\ InLine(u) = {} /\ Emitted(u) = {}
  BY <1>3 DEF Wired, OneRequest
<1>5. t.sender = "waiting" /\ m.op = UnsavedHead(u) /\ m.att = t.att /\ t.unsaved # << >>
  BY <1>4 DEF AwaitsAnswer, SyncInv, TabsInv, SenderHasHead
<1>6. t.sync \notin {"reading", "mounting"}  BY <1>5 DEF MountDiscardsNothing
<1>7. PICK y \in {Settled(t), [t EXCEPT !.sender = "idle"], [t EXCEPT !.sender = "pausing"]} :
        /\ tab' = [tab EXCEPT ![u] = y]
        /\ \/ y = Settled(t) /\ inbox' = inbox
              /\ \E word \in {"confirmed", "rejected"} :
                   /\ fate' = [fate EXCEPT ![UnsavedHead(u)] = word]
                   /\ word = "confirmed" => m.code = "OK"
           \/ /\ y # Settled(t) /\ UNCHANGED fate /\ m.code # "OK"
              /\ inbox' = inbox \/ inbox' = Emit(inbox, u, [type |-> "join", n |-> Rejoin])
  <2>1. /\ Settled(t).unsaved = Tail(t.unsaved) /\ Len(Tail(t.unsaved)) # Len(t.unsaved)
        /\ \A s : [t EXCEPT !.sender = s].unsaved = t.unsaved
    BY <1>1, <1>5, TabFields, HeadTailProperties, LenProperties, EmptySeq DEF Settled, Tabs
  <2>2. \A s : [t EXCEPT !.sender = s] # Settled(t)  BY <2>1
  <2>3. CASE m.code = "OK"  BY <1>5, <2>2, <2>3 DEF ReceiveAck
  <2>4. CASE m.code = "NOT_JOINED"
    <3>1. tab' = [tab EXCEPT ![u] = [t EXCEPT !.sender = "idle"]]
          /\ inbox' = Emit(inbox, u, [type |-> "join", n |-> Rejoin]) /\ UNCHANGED fate
      BY <1>1, <1>5, <2>4 DEF ReceiveAck
    <3> QED  BY <2>2, <2>4, <3>1
  <2>5. CASE m.code \in {"SERVER_ERROR", "RATE_LIMITED"}
    BY <1>5, <2>2, <2>5 DEF ReceiveAck, RetryOrGiveUp
  <2>6. CASE m.code \notin {"OK", "NOT_JOINED", "SERVER_ERROR", "RATE_LIMITED"}
    BY <1>5, <2>6 DEF ReceiveAck
  <2> QED  BY <2>3, <2>4, <2>5, <2>6
<1>8. x = y /\ y.sync = t.sync /\ y.shut = t.shut /\ y.screen = t.screen
      /\ (y # Settled(t) => y.unsaved = t.unsaved)
  BY <1>1, <1>7 DEF Settled, Tabs
<1>9. Emitted(u)' \subseteq Emitted(u)
  <2>1. CASE inbox' = inbox  BY <2>1 DEF Emitted
  <2>2. CASE inbox' = Emit(inbox, u, [type |-> "join", n |-> Rejoin])
    <3> DEFINE n == [type |-> "join", n |-> Rejoin]
    <3>1. n \in ClientMessages /\ n.type = "join"  BY RejoinIsAJoin DEF ClientMessages
    <3>2. inbox'[u] = Append(inbox[u], n)  BY <1>1, <2>2 DEF Emit
    <3> HIDE DEF n
    <3>3. Extends(inbox[u], inbox'[u], {n})  BY <1>1, <3>1, <3>2, AppendExtends
    <3> QED  BY <3>1, <3>3 DEF Extends, Emitted
  <2> QED  BY <1>7, <2>1, <2>2
<1>10. Wired(u)' /\ (Hears(u)' => Hears(u)) /\ Acked(u)' = {}
  <2>1. ~Dooms(m)  BY <1>2 DEF Dooms
  <2> QED  BY <1>2, <1>8, <1>9, <2>1, TakesWire
<1>11. Loads(u)'  BY <1>6, <1>8 DEF Loads
<1>12. Lives(u)'
  <2>1. CASE y = Settled(t)
    <3> SUFFICES ASSUME t.sync = "live", Hears(u)'
                 PROVE  (ShowsOwn(u) /\ NoneIsOld(u) /\ AckInOrder(u) /\ Shows(u))'
      BY <1>8 DEF Lives
    <3>1. PICK word \in {"confirmed", "rejected"} :
            /\ fate' = [fate EXCEPT ![UnsavedHead(u)] = word]
            /\ word = "confirmed" => m.code = "OK"
      BY <1>7, <2>1
    <3> QED  BY <1>2, <1>5, <1>8, <1>10, <2>1, <3>1, SettledShows
  <2>2. CASE y # Settled(t)
    <3>1. UNCHANGED <<log, content, line>> /\ UNCHANGED fate /\ m.code # "OK"
      BY <1>2, <1>7, <2>2 DEF Takes
    <3>2. x.unsaved = t.unsaved /\ x.screen = t.screen /\ x.sync = t.sync  BY <1>8, <2>2
    <3>3. NoneIsOld(u) => NoneIsOld(u)'
      BY <1>3, <1>4, <3>1, <3>2 DEF NoneIsOld, Announcing
    <3>4. AckInOrder(u)'  BY <1>10 DEF AckInOrder
    <3> QED  BY <1>3, <1>10, <3>1, <3>2, <3>3, <3>4, LivesStay
  <2> QED  BY <2>1, <2>2
<1> QED  BY <1>10, <1>11, <1>12

\* The tab's own change arrives: it queues up, or is turned away at once.
LEMMA OpArrivesShows ==
  ASSUME SyncInv, OrderInv, NEW u \in Users, ScreenInv(u), UNCHANGED tabVars,
         OpArrives(u) \/ OpRateLimited(u)
  PROVE  ScreenInv(u)'
<1> USE DEF ScreenInv, dbVars, lineVars
<1> DEFINE a == inbox[u][1]
           Asked(y) == tab'[u].sender = "waiting" /\ y.op = UnsavedHead(u)' /\ y.att = tab'[u].att
<1>1. /\ Arrives(u, "op") /\ ServerTypeOK /\ outbox \in [Users -> Seq(ServerMessages)]
      /\ outbox[u] \in Seq(ServerMessages) /\ line \in Seq(Tasks)
      /\ UNCHANGED <<log, content, conn, room, tab, fate>>
  BY DEF SyncInv, ServerInv, ServerTypeOK, OpArrives, OpRateLimited, tabVars
<1>2. /\ 1 \in DOMAIN inbox[u] /\ a.type = "op" /\ Head(inbox[u]) = a
      /\ \A k \in DOMAIN inbox'[u] :
           k + 1 \in DOMAIN inbox[u] /\ inbox'[u][k] = inbox[u][k + 1] /\ k \in Nat /\ k # 0
  BY <1>1, InboxShifts
<1>3. /\ AwaitsAnswer(u, a) /\ (\A l \in Emitted(u) : l = 1) /\ InLine(u) = {} /\ Acked(u) = {}
  <2>1. 1 \in Emitted(u)  BY <1>2 DEF Emitted
  <2> QED  BY <2>1 DEF Wired, OneRequest
<1>4. Emitted(u)' = {}
  <2> SUFFICES ASSUME NEW k \in Emitted(u)' PROVE FALSE  OBVIOUS
  <2>1. k + 1 \in Emitted(u) /\ k \in Nat /\ k # 0  BY <1>2 DEF Emitted
  <2> QED  BY <1>3, <2>1
<1>5. u \in conn' /\ Request(u, a) \in Tasks
  BY <1>1, <1>2, ArrivalTypes DEF Arrives
<1>6. tab'[u] = tab[u] /\ UnsavedHead(u)' = UnsavedHead(u) /\ StillAsks(u) /\ SameView(u)
  BY <1>1 DEF UnsavedHead, StillAsks, StillAwaits, SameView
<1> HIDE DEF a, Asked
<1>7. \A y : y.op = a.op /\ y.att = a.att => Asked(y)
  BY <1>3, <1>6 DEF Asked, AwaitsAnswer
<1>8. CASE line' = Append(line, Request(u, a)) /\ outbox' = outbox
  <2> DEFINE n == Request(u, a)
  <2>1. /\ n.user = u /\ n.alive /\ n.stage = "waiting" /\ n.op = a.op /\ n.att = a.att
        /\ n \in Tasks
    BY <1>5 DEF Request
  <2> HIDE DEF n
  <2>2. line' = Append(line, n)  BY <1>8 DEF n
  <2>3. /\ Len(line) \in Nat /\ DOMAIN line = 1..Len(line) /\ DOMAIN line' = 1..(Len(line) + 1)
        /\ \A i \in DOMAIN line : i \in DOMAIN line' /\ line'[i] = line[i]
        /\ line'[Len(line) + 1] = n
    BY <1>1, <2>1, <2>2, AppendProperties, LenProperties
  <2>4. InLine(u)' = {Len(line) + 1}
    <3>1. \A i \in DOMAIN line' : i # Len(line) + 1 => i \in DOMAIN line  BY <2>3
    <3> QED  BY <1>3, <2>1, <2>3, <3>1 DEF InLine
  <2>5. /\ Announcing' <=> Announcing
        /\ Announcing => line'[1] = line[1]
    <3>1. CASE 1 \in DOMAIN line  BY <2>3, <3>1 DEF Announcing
    <3>2. CASE 1 \notin DOMAIN line
      <4>1. Len(line) = 0  BY <2>3, <3>2
      <4>2. line'[1] = n  BY <2>3, <4>1
      <4> QED  BY <2>1, <3>2, <4>2 DEF Announcing
    <3> QED  BY <3>1, <3>2
  <2>6. /\ \A r : IsComing(u, r)' <=> IsComing(u, r)
        /\ \A r : IsToBeTold(u, r)' <=> IsToBeTold(u, r)
        /\ Hears(u)' <=> Hears(u)
    BY <1>1, <1>8, <2>5 DEF IsComing, IsToBeTold, Others, Hears, Doomed
  <2>7. Acked(u)' = {}  BY <1>3, <1>8 DEF Acked
  <2>8. OneRequest(u)'
    <3>1. Asked(line'[Len(line) + 1])  BY <1>7, <2>1, <2>3
    <3> QED  BY <1>4, <2>4, <2>7, <3>1 DEF OneRequest, AwaitsAnswer, Asked
  <2>9. Wired(u)'
    <3>1. InOrder(u)'  BY <1>8, <2>5 DEF Wired, InOrder
    <3>2. NoGap(u)'  BY <1>1, <1>8, <2>6 DEF Wired, NoGap
    <3> QED  BY <1>5, <2>8, <3>1, <3>2 DEF Wired, Unplugged
  <2>10. Loads(u)'  BY <1>1, <1>6, <2>6, LoadsStay DEF SameView
  <2>11. NoneIsOld(u) => NoneIsOld(u)'
    <3>1. \A i \in DOMAIN line' : i # Len(line) + 1 => i \in DOMAIN line  BY <2>3
    <3> QED  BY <1>1, <1>3, <1>6, <2>3, <2>4, <2>5, <3>1 DEF NoneIsOld
  <2>12. AckInOrder(u)'  BY <2>7 DEF AckInOrder
  <2>13. Lives(u)'  BY <1>1, <1>6, <2>6, <2>11, <2>12, LivesStay DEF SameView
  <2> QED  BY <2>9, <2>10, <2>13
<1>9. ASSUME NEW code \in {"NOT_JOINED", "RATE_LIMITED"}, line' = line,
             outbox' = Emit(outbox, u, Ack(Request(u, a), code, 0))
      PROVE  ScreenInv(u)'
  <2> DEFINE n == Ack(Request(u, a), code, 0)
  <2>1. /\ n.type = "ack" /\ n.op = a.op /\ n.att = a.att /\ n.code # "OK" /\ n \in ServerMessages
    BY <1>5, MessageTypes DEF Ack, Request, Codes
  <2> HIDE DEF n
  <2>2. outbox'[u] = Append(outbox[u], n)  BY <1>1, <1>9 DEF Emit, n
  <2>3. /\ Len(outbox[u]) \in Nat /\ DOMAIN outbox[u] = 1..Len(outbox[u])
        /\ DOMAIN outbox'[u] = 1..(Len(outbox[u]) + 1)
        /\ \A k \in DOMAIN outbox[u] : k \in DOMAIN outbox'[u] /\ outbox'[u][k] = outbox[u][k]
        /\ outbox'[u][Len(outbox[u]) + 1] = n
    BY <1>1, <2>1, <2>2, AppendProperties, LenProperties
  <2>4. \A k \in DOMAIN outbox'[u] : k # Len(outbox[u]) + 1 => k \in DOMAIN outbox[u]  BY <2>3
  <2>5. ~Tells(n) /\ ~Dooms(n) /\ n.type # "op"  BY <2>1 DEF Tells, Dooms
  <2>6. /\ \A r : IsComing(u, r)' <=> IsComing(u, r)
        /\ \A r : IsToBeTold(u, r)' <=> IsToBeTold(u, r)
        /\ Hears(u)' <=> Hears(u)
        /\ (Announcing' <=> Announcing) /\ InLine(u)' = {}
    <3>1. Doomed(u)' <=> Doomed(u)  BY <2>3, <2>4, <2>5 DEF Doomed
    <3>2. (Announcing' <=> Announcing) /\ InLine(u)' = {}  BY <1>3, <1>9 DEF Announcing, InLine
    <3>3. Others(u)' <=> Others(u)  BY <1>9, <3>2 DEF Others
    <3>4. \A r : IsComing(u, r)' <=> IsComing(u, r)
      BY <1>9, <2>3, <2>4, <2>5, <3>3 DEF IsComing
    <3>5. \A r : IsToBeTold(u, r)' <=> IsToBeTold(u, r)
      BY <1>9, <2>3, <2>4, <2>5, <3>2 DEF IsToBeTold
    <3> QED  BY <1>1, <3>1, <3>2, <3>4, <3>5 DEF Hears
  <2>7. \A k \in Acked(u)' : k = Len(outbox[u]) + 1
    BY <1>3, <2>3, <2>4 DEF Acked
  <2>8. OneRequest(u)'
    <3>1. Asked(n)  BY <1>7, <2>1
    <3>2. \A k \in Acked(u)' : Asked(outbox'[u][k]) /\ \A l \in Acked(u)' : l = k
      BY <2>3, <2>7, <3>1
    <3> QED  BY <1>4, <2>6, <3>2 DEF OneRequest, AwaitsAnswer, Asked
  <2>9. Wired(u)'
    <3>1. InOrder(u)'
      <4>1. ASSUME NEW k \in DOMAIN outbox'[u], Tells(outbox'[u][k])
            PROVE  /\ k \in DOMAIN outbox[u] /\ outbox'[u][k] = outbox[u][k]
                   /\ Announcing' => outbox[u][k].rev < line[1].rev
        BY <4>1, <2>3, <2>4, <2>5, <2>6 DEF Wired, InOrder
      <4>2. ASSUME NEW k \in DOMAIN outbox'[u], Tells(outbox'[u][k]),
                   NEW l \in DOMAIN outbox'[u], k < l, outbox'[u][l].type = "op"
            PROVE  outbox[u][k].rev < outbox'[u][l].rev
        BY <4>1, <4>2, <2>3, <2>4, <2>5 DEF Wired, InOrder
      <4> QED  BY <1>9, <4>1, <4>2 DEF InOrder
    <3>2. NoGap(u)'  BY <1>1, <2>3, <2>4, <2>5, <2>6 DEF Wired, NoGap
    <3> QED  BY <1>5, <2>8, <3>1, <3>2 DEF Wired, Unplugged
  <2>10. Loads(u)'  BY <1>1, <1>6, <2>6, LoadsStay DEF SameView
  <2>11. NoneIsOld(u) => NoneIsOld(u)'
    BY <1>1, <1>3, <1>6, <1>9, <2>6 DEF NoneIsOld
  <2>12. AckInOrder(u)'
    BY <2>1, <2>3, <2>7 DEF AckInOrder
  <2>13. Lives(u)'  BY <1>1, <1>6, <2>6, <2>11, <2>12, LivesStay DEF SameView
  <2> QED  BY <2>9, <2>10, <2>13
<1>10. CASE OpArrives(u)  BY <1>2, <1>8, <1>9, <1>10 DEF OpArrives
<1>11. CASE OpRateLimited(u)  BY <1>2, <1>9, <1>11 DEF OpRateLimited
<1> QED  BY <1>10, <1>11

(* The queue of the sheet. *)

\* A change is stored: everybody in the room is about to be told, but its author,
\* who has it pending.
LEMMA CommitShows ==
  ASSUME SyncInv, OrderInv, MountDiscardsNothing, NEW u \in Users, ScreenInv(u),
         UNCHANGED tabVars, NEW i \in DOMAIN line, OpCommit(i)
  PROVE  ScreenInv(u)'
<1> USE DEF ScreenInv, socketVars
<1>0. PICK o, R : o = line[1].op /\ R = Len(log) + 1  OBVIOUS
<1>1. /\ i = 1 /\ line[1].stage = "authorized" /\ log' = Append(log, o)
      /\ content' = [content EXCEPT ![ItemOf[o]] = o]
      /\ line' = [line EXCEPT ![1].stage = "committed", ![1].rev = R]
      /\ UNCHANGED <<conn, room, inbox, outbox, tab, fate>>
  BY <1>0 DEF OpCommit, MayRun, Saved, tabVars
<1>2. /\ \A k \in DOMAIN line : line[k] \in Tasks
      /\ o \in Ops /\ ItemOf[o] \in Items
      /\ content \in [Items -> Ops \cup {Blank}] /\ ServerInv
      /\ Len(log) \in Nat /\ DOMAIN log = 1..Len(log) /\ \A k \in DOMAIN line : k \in Nat
  <2>1. line[1] \in Tasks  BY <1>1, Shapes
  <2> QED  BY <1>0, <2>1, Shapes, ItemOfType DEF Tasks, SyncInv, ServerInv, ServerTypeOK
<1>3. /\ DOMAIN line' = DOMAIN line
      /\ \A k \in DOMAIN line :
           /\ line'[k].user = line[k].user /\ line'[k].op = line[k].op
           /\ line'[k].att = line[k].att /\ line'[k].alive = line[k].alive
      /\ line'[1].stage = "committed" /\ line'[1].rev = R /\ 1 \in DOMAIN line
  BY ZenonT(40), <1>1, <1>2 DEF Tasks
<1>4. /\ DOMAIN log' = DOMAIN log \cup {R} /\ log'[R] = o /\ R \notin DOMAIN log
      /\ \A r \in DOMAIN log : log'[r] = log[r] /\ r < R /\ r \in Nat
      /\ R \in Nat /\ Len(log') = R
  BY <1>0, <1>1, <1>2, LogGrows
<1>5. /\ Announcing' /\ ~Announcing /\ InLine(u)' = InLine(u)
      /\ Acked(u)' = Acked(u) /\ Emitted(u)' = Emitted(u) /\ (Hears(u)' <=> Hears(u))
      /\ UnsavedHead(u)' = UnsavedHead(u)
  BY <1>1, <1>3 DEF Announcing, InLine, Acked, Emitted, Hears, Doomed, UnsavedHead
<1>6. \A r : /\ IsComing(u, r) => IsComing(u, r)'
             /\ IsToBeTold(u, r) => IsToBeTold(u, r)'
  BY <1>1, <1>5 DEF IsComing, IsToBeTold, Others
<1>7. IsToBeTold(u, R)' /\ (1 \notin InLine(u) => IsComing(u, R)')
  BY <1>3, <1>5 DEF IsToBeTold, IsComing, Others, InLine
<1>8. 1 \in InLine(u) => /\ tab[u].sender = "waiting" /\ tab[u].unsaved # << >>
                         /\ 1 \in DOMAIN tab[u].unsaved /\ tab[u].unsaved[1] = o /\ Acked(u) = {}
  <2> SUFFICES ASSUME 1 \in InLine(u)
               PROVE  /\ tab[u].sender = "waiting" /\ tab[u].unsaved # << >>
                      /\ 1 \in DOMAIN tab[u].unsaved /\ tab[u].unsaved[1] = o /\ Acked(u) = {}
    OBVIOUS
  <2>1. AwaitsAnswer(u, line[1]) /\ Acked(u) = {}  BY DEF Wired, OneRequest
  <2>2. tab[u].unsaved # << >>  BY <2>1 DEF AwaitsAnswer, SyncInv, TabsInv, SenderHasHead
  <2> QED  BY <1>0, <2>1, <2>2, UnsavedEdits DEF AwaitsAnswer
<1>9. /\ Latest(ItemOf[o], R)'
      /\ \A j, r : j # ItemOf[o] => (Latest(j, r)' <=> Latest(j, r))
      /\ \A j \in Items : content'[j] = IF j = ItemOf[o] THEN o ELSE content[j]
  <2>1. \A s \in DOMAIN log' : ~(R < s)  BY <1>4
  <2>2. Latest(ItemOf[o], R)'  BY <1>4, <2>1 DEF Latest
  <2>3. \A j, r : j # ItemOf[o] => (Latest(j, r)' <=> Latest(j, r))
    BY <1>4 DEF Latest
  <2> QED  BY <1>1, <1>2, <2>2, <2>3
<1>10. Wired(u)'
  <2>1. OneRequest(u)'
    <3>1. OneRequest(u)  BY DEF Wired
    <3> DEFINE Asked(x) == tab'[u].sender = "waiting" /\ x.op = UnsavedHead(u)' /\ x.att = tab'[u].att
    <3>2. \A k \in InLine(u) : line'[k].op = line[k].op /\ line'[k].att = line[k].att
      BY <1>3 DEF InLine
    <3>3. \A x, y : AwaitsAnswer(u, x) /\ y.op = x.op /\ y.att = x.att => Asked(y)
      BY <1>1, <1>5 DEF AwaitsAnswer
    <3> HIDE DEF Asked
    <3>4. /\ \A k \in Emitted(u) : Asked(inbox[u][k])
          /\ \A k \in Acked(u) : Asked(outbox[u][k])
          /\ \A k \in InLine(u) : Asked(line'[k])
      BY <3>1, <3>2, <3>3 DEF OneRequest
    <3>5. /\ \A k \in Emitted(u) : (\A l \in Emitted(u) : l = k) /\ InLine(u) = {} /\ Acked(u) = {}
          /\ \A k \in InLine(u) : (\A l \in InLine(u) : l = k) /\ Acked(u) = {}
          /\ \A k \in Acked(u) : \A l \in Acked(u) : l = k
      BY <3>1 DEF OneRequest
    <3>6. /\ \A k \in Emitted(u)' : Asked(inbox'[u][k])
          /\ \A k \in Acked(u)' : Asked(outbox'[u][k])
          /\ \A k \in InLine(u)' : Asked(line'[k])
      BY <1>1, <1>5, <3>4
    <3> USE DEF Asked
    <3> QED  BY <1>5, <3>5, <3>6 DEF OneRequest, AwaitsAnswer
  <2>2. InOrder(u)'
    <3>1. ASSUME NEW k \in DOMAIN outbox[u], Tells(outbox[u][k]) PROVE outbox[u][k].rev < R
      <4>1. Truthful(outbox[u][k], log)  BY <1>2 DEF ServerInv, SavedMeansSaved
      <4> QED  BY <1>4, <3>1, <4>1 DEF Truthful, Tells
    <3> QED  BY <1>1, <1>3, <3>1 DEF Wired, InOrder
  <2>3. NoGap(u)'  BY <1>1, <1>4, <1>5, <1>6, <1>7 DEF Wired, NoGap
  <2> QED  BY <1>1, <1>5, <2>1, <2>2, <2>3 DEF Wired, Unplugged
<1>11. Loads(u)'
  <2> SUFFICES ASSUME tab[u].sync \in {"reading", "mounting"}
               PROVE  /\ tab[u].snap <= Len(log') /\ NewerIsHeld(u)'
                      /\ tab[u].sync = "mounting" => CellsAreRead(u)'
    BY <1>1 DEF Loads
  <2>1. tab[u].snap <= Len(log) /\ NewerIsHeld(u)  BY DEF Loads
  <2>2. tab[u].snap \in Nat
    <3>1. tab[u] \in Tabs  BY Shapes
    <3> QED  BY <3>1, TabFields
  <2>3. tab[u].snap < R  BY <1>0, <1>2, <2>1, <2>2
  <2>4. IsComing(u, R)'
    <3>1. tab[u].unsaved = << >>  BY DEF MountDiscardsNothing
    <3> QED  BY <1>7, <1>8, <3>1
  <2>5. NewerIsHeld(u)'  BY <1>1, <1>4, <1>5, <1>6, <2>1, <2>4 DEF NewerIsHeld
  <2>6. CellsAreRead(u) => CellsAreRead(u)'
    <3> SUFFICES ASSUME CellsAreRead(u), NEW j \in Items
                 PROVE  \/ tab[u].cells[j] = content'[j]
                        \/ \E r \in DOMAIN log' : Latest(j, r)' /\ tab[u].snap < r
      BY <1>1 DEF CellsAreRead
    <3>1. CASE j = ItemOf[o]  BY <1>4, <1>9, <2>3, <3>1
    <3>2. CASE j # ItemOf[o]
      <4>1. \/ tab[u].cells[j] = content[j]
            \/ \E r \in DOMAIN log : Latest(j, r) /\ tab[u].snap < r
        BY DEF CellsAreRead
      <4> QED  BY <1>4, <1>9, <3>2, <4>1
    <3> QED  BY <3>1, <3>2
  <2>7. tab[u].snap <= Len(log')  BY <1>4, <2>2, <2>3
  <2> QED  BY <2>5, <2>6, <2>7 DEF Loads
<1>12. Lives(u)'
  <2> SUFFICES ASSUME tab[u].sync = "live", Hears(u)
               PROVE  (ShowsOwn(u) /\ NoneIsOld(u) /\ AckInOrder(u) /\ Shows(u))'
    BY <1>1, <1>5 DEF Lives
  <2>1. ShowsOwn(u) /\ NoneIsOld(u) /\ AckInOrder(u) /\ Shows(u)  BY DEF Lives
  <2>2. ShowsOwn(u)'  BY <1>1, <2>1 DEF ShowsOwn
  <2>3. NoneIsOld(u)'
    <3> SUFFICES ASSUME NEW k \in DOMAIN tab[u].unsaved
                 PROVE  /\ \A l \in DOMAIN line' : line'[l].op = tab[u].unsaved[k] => l \in InLine(u)
                        /\ \A r \in DOMAIN log' : log'[r] = tab[u].unsaved[k] =>
                             \/ line'[1].rev = r
                             \/ \E l \in Acked(u) : outbox[u][l].code = "OK" /\ outbox[u][l].rev = r
      <4>1. tab' = tab /\ outbox' = outbox /\ Announcing' /\ InLine(u)' = InLine(u) /\ Acked(u)' = Acked(u)
        BY <1>1, <1>5
      <4> QED  BY <4>1 DEF NoneIsOld
    <3> QED  BY <1>3, <1>4, <1>5, <2>1 DEF NoneIsOld
  <2>4. AckInOrder(u)'
    <3>1. ASSUME NEW k \in Acked(u) PROVE IsComing(u, R)'  BY <1>7, <1>8
    <3> QED  BY <1>1, <1>4, <1>5, <1>6, <2>1, <3>1 DEF AckInOrder
  <2>5. Shows(u)'
    <3> SUFFICES ASSUME NEW j \in CellItems, ~Pending(tab[u], j) PROVE ItemShown(u, j)'
      BY <1>1 DEF Shows
    <3>1. j \in Items  BY CellItemsAreItems
    <3>2. CASE j = ItemOf[o]
      <4>1. 1 \notin InLine(u)  BY <1>8, <3>2 DEF Pending
      <4> QED  BY <1>4, <1>7, <1>9, <3>2, <4>1 DEF ItemShown
    <3>3. CASE j # ItemOf[o]
      <4>1. ItemShown(u, j)  BY <2>1 DEF Shows
      <4> QED  BY <1>1, <1>4, <1>6, <1>9, <3>1, <3>3, <4>1 DEF ItemShown, IsLost
    <3> QED  BY <3>2, <3>3
  <2> QED  BY <2>2, <2>3, <2>4, <2>5
<1> QED  BY <1>10, <1>11, <1>12

\* The first in the queue is done with.
LEMMA RemovalView ==
  ASSUME SyncInv, NEW u \in Users, 1 \in DOMAIN line, line' = RemoveAt(line, 1)
  PROVE  /\ ~Announcing'
         /\ \A k \in DOMAIN line' : k + 1 \in DOMAIN line /\ line'[k] = line[k + 1] /\ k \in Nat /\ k # 0
         /\ \A k : k \in InLine(u)' <=> k \in DOMAIN line' /\ k + 1 \in InLine(u)
<1>1. /\ line \in Seq(Tasks) /\ Len(line) \in Nat /\ DOMAIN line = 1..Len(line)
      /\ ServerTypeOK /\ HeadOnly
  BY SMTT(30), Shapes DEF SyncInv, ServerInv
<1>2. /\ line' \in Seq(Tasks) /\ Len(line') = Len(line) - 1
      /\ \A k \in DOMAIN line' : line'[k] = line[IF k < 1 THEN k ELSE k + 1]
  BY <1>1, RemoveAtFacts
<1>3. DOMAIN line' = 1..(Len(line) - 1)  BY <1>2, LenProperties
<1>4. \A k \in DOMAIN line' : k + 1 \in DOMAIN line /\ line'[k] = line[k + 1] /\ k \in Nat /\ k # 0
  BY <1>1, <1>2, <1>3
<1>5. \A k \in DOMAIN line' : line'[k].stage = "waiting"  BY <1>1, RestWaits
<1>6. ~Announcing'  BY <1>5 DEF Announcing
<1>7. \A k : k \in InLine(u)' <=> k \in DOMAIN line' /\ k + 1 \in InLine(u)  BY <1>4 DEF InLine
<1> QED  BY <1>4, <1>6, <1>7

\* It was not the tab's own: if it was saved, the tab is told unless it is not in
\* the room.
LEMMA OthersDoneShows ==
  ASSUME SyncInv, OrderInv, StepInv, NEW u \in Users, ScreenInv(u),
         1 \in DOMAIN line, line' = RemoveAt(line, 1), 1 \notin InLine(u),
         UNCHANGED <<log, content, conn, inbox, tab, fate>>, u \in room' <=> u \in room,
         \/ outbox'[u] = outbox[u] /\ (Announcing => u \notin room)
         \/ /\ Announcing /\ u \in room
            /\ outbox'[u] = Append(outbox[u], [type |-> "op", op |-> line[1].op, rev |-> line[1].rev])
  PROVE  ScreenInv(u)'
<1> USE DEF ScreenInv
<1>1. PICK m : m = [type |-> "op", op |-> line[1].op, rev |-> line[1].rev]  OBVIOUS
<1>2. /\ m.type = "op" /\ m.rev = line[1].rev /\ m \in ServerMessages
      /\ outbox[u] \in Seq(ServerMessages)
  <2>1. line[1] \in Tasks  BY Shapes
  <2> QED  BY <1>1, <2>1, Shapes, MessageTypes DEF Tasks
<1>3. /\ ~Announcing'
      /\ \A k \in DOMAIN line' : k + 1 \in DOMAIN line /\ line'[k] = line[k + 1] /\ k \in Nat /\ k # 0
      /\ \A k : k \in InLine(u)' <=> k \in DOMAIN line' /\ k + 1 \in InLine(u)
  BY RemovalView
<1>4. /\ \A k \in DOMAIN outbox[u] : k \in DOMAIN outbox'[u] /\ outbox'[u][k] = outbox[u][k]
      /\ \A k \in DOMAIN outbox'[u] : k \notin DOMAIN outbox[u] =>
           /\ outbox'[u][k] = m /\ Announcing /\ u \in room
           /\ \A l \in DOMAIN outbox'[u] : l # k => l \in DOMAIN outbox[u] /\ l < k
      /\ Announcing /\ u \in room => \E k \in DOMAIN outbox'[u] : outbox'[u][k] = m
  <2>1. CASE outbox'[u] = outbox[u] /\ (Announcing => u \notin room)  BY <2>1
  <2>2. CASE Announcing /\ u \in room /\ outbox'[u] = Append(outbox[u], m)
    <3>1. /\ Len(outbox[u]) \in Nat /\ DOMAIN outbox[u] = 1..Len(outbox[u])
          /\ DOMAIN outbox'[u] = 1..(Len(outbox[u]) + 1)
          /\ \A k \in DOMAIN outbox[u] : outbox'[u][k] = outbox[u][k]
          /\ outbox'[u][Len(outbox[u]) + 1] = m
      BY <1>2, <2>2, AppendProperties, LenProperties
    <3> QED  BY <2>2, <3>1
  <2> QED  BY <1>1, <2>1, <2>2
<1>16. outbox'[u] \in Seq(ServerMessages)
  <2>1. Append(outbox[u], m) \in Seq(ServerMessages)  BY <1>2, AppendExtends
  <2>2. outbox'[u] = outbox[u] \/ outbox'[u] = Append(outbox[u], m)  BY <1>1
  <2> QED  BY <1>2, <2>1, <2>2
<1>5. Others(u) <=> Announcing  BY DEF Others, InLine, Announcing
<1>6. ASSUME NEW r
      PROVE  /\ Announcing => u \in room
             => (IsComing(u, r)' <=> IsComing(u, r)) /\ (IsToBeTold(u, r) => IsToBeTold(u, r)')
  <2>1. Tells(m)  BY <1>2 DEF Tells
  <2>2. ~Others(u)'  BY <1>3 DEF Others
  <2> QED  BY <1>2, <1>3, <1>4, <1>5, <2>1, <2>2 DEF IsComing, IsToBeTold
<1>7. Acked(u)' = Acked(u) /\ Emitted(u)' = Emitted(u) /\ (Hears(u)' <=> Hears(u))
  BY <1>2, <1>4 DEF Acked, Emitted, Hears, Doomed, Dooms
<1>8. /\ tab'[u] = tab[u] /\ UnsavedHead(u)' = UnsavedHead(u) /\ SameView(u)
  BY SameTabSameView DEF UnsavedHead
<1>9. OneRequest(u)'
  <2> DEFINE Asked(x) == tab'[u].sender = "waiting" /\ x.op = UnsavedHead(u)' /\ x.att = tab'[u].att
  <2>1. OneRequest(u)  BY DEF Wired
  <2>2. \A x : AwaitsAnswer(u, x) => Asked(x)  BY <1>8 DEF AwaitsAnswer
  <2>3. \A k \in InLine(u)' : k + 1 \in InLine(u) /\ line'[k] = line[k + 1] /\ k \in Nat
    BY <1>3
  <2>4. \A k \in Acked(u) : outbox'[u][k] = outbox[u][k]  BY <1>4 DEF Acked
  <2>5. ASSUME NEW k \in InLine(u)' PROVE Asked(line'[k]) /\ (\A l \in InLine(u)' : l = k) /\ Acked(u)' = {}
    <3>1. AwaitsAnswer(u, line[k + 1]) /\ (\A l \in InLine(u) : l = k + 1) /\ Acked(u) = {}
      BY <2>1, <2>3 DEF OneRequest
    <3>2. Asked(line'[k])  BY <2>2, <2>3, <3>1
    <3> HIDE DEF Asked
    <3> QED  BY <1>7, <2>3, <3>1, <3>2
  <2>6. ASSUME NEW k \in Emitted(u)'
        PROVE  Asked(inbox'[u][k]) /\ (\A l \in Emitted(u)' : l = k) /\ InLine(u)' = {} /\ Acked(u)' = {}
    <3>1. /\ AwaitsAnswer(u, inbox[u][k]) /\ (\A l \in Emitted(u) : l = k)
          /\ InLine(u) = {} /\ Acked(u) = {}
      BY <1>7, <2>1 DEF OneRequest
    <3>2. InLine(u)' = {}  BY <2>3, <3>1
    <3> QED  BY <1>7, <2>2, <3>1, <3>2
  <2>7. ASSUME NEW k \in Acked(u)' PROVE Asked(outbox'[u][k]) /\ \A l \in Acked(u)' : l = k
    <3>1. AwaitsAnswer(u, outbox[u][k]) /\ \A l \in Acked(u) : l = k
      BY <1>7, <2>1 DEF OneRequest
    <3> QED  BY <1>7, <2>2, <2>4, <3>1
  <2> QED  BY <2>5, <2>6, <2>7 DEF OneRequest, AwaitsAnswer
<1>10. InOrder(u)'
  <2> SUFFICES ASSUME NEW k \in DOMAIN outbox'[u], Tells(outbox'[u][k]),
                      NEW l \in DOMAIN outbox'[u], k < l, outbox'[u][l].type = "op"
               PROVE  outbox'[u][k].rev < outbox'[u][l].rev
    BY <1>3 DEF InOrder
  <2>0. \A n \in DOMAIN outbox'[u] : n \in Int
    <3> QED  BY <1>16, LenProperties
  <2>1. k \in DOMAIN outbox[u] /\ outbox'[u][k] = outbox[u][k]
    <3>1. k \in Int /\ l \in Int  BY <2>0
    <3> QED  BY <1>4, <3>1
  <2>2. CASE l \in DOMAIN outbox[u]  BY <1>4, <2>1, <2>2 DEF Wired, InOrder
  <2>3. CASE l \notin DOMAIN outbox[u]  BY <1>2, <1>4, <2>1, <2>3 DEF Wired, InOrder
  <2> QED  BY <2>2, <2>3
<1>11. NoGap(u)'
  <2> SUFFICES ASSUME Hears(u), NEW k \in DOMAIN outbox'[u], outbox'[u][k].type = "op"
               PROVE  u \in room /\ \A r \in DOMAIN log : outbox'[u][k].rev < r => IsToBeTold(u, r)'
    BY <1>7 DEF NoGap
  <2>1. CASE k \in DOMAIN outbox[u]
    <3>1. u \in room /\ \A r \in DOMAIN log : outbox[u][k].rev < r => IsToBeTold(u, r)
      BY <1>4, <2>1 DEF Wired, NoGap
    <3> QED  BY <1>4, <1>6, <2>1, <3>1
  <2>2. CASE k \notin DOMAIN outbox[u]
    <3>1. u \in room /\ outbox'[u][k].rev = Len(log)
      BY <1>2, <1>4, <2>2 DEF Announcing, SyncInv, ServerInv, AnnouncedIsNewest
    <3>2. \A r \in DOMAIN log : ~(Len(log) < r)
      <4>1. Len(log) \in Nat /\ DOMAIN log = 1..Len(log)  BY Shapes
      <4> QED  BY <4>1
    <3> QED  BY <3>1, <3>2
  <2> QED  BY <2>1, <2>2
<1>12. Wired(u)'
  <2>1. u \notin conn => u \notin room  BY DEF StepInv, RoomIsConnected
  <2>2. u \notin conn => outbox'[u] = outbox[u]  BY <2>1
  <2>3. InLine(u) = {} => InLine(u)' = {}  BY <1>3
  <2> QED  BY <1>9, <1>10, <1>11, <2>2, <2>3 DEF Wired, Unplugged
<1>13. Hears(u) /\ ~tab[u].rerun /\ tab[u].sync \in {"reading", "mounting", "live"} => u \in room
  BY DEF Hears, StepInv, TabInStep, Phased, PastJoining, Placed, BelongsIn, InRoom
<1>14. Loads(u)'
  BY <1>6, <1>7, <1>8, <1>13, LoadsStay
<1>15. Lives(u)'
  <2>1. tab[u].sync = "live" /\ Hears(u) => ~tab[u].rerun
    BY DEF Hears, StepInv, TabInStep, Phased
  <2>2. tab[u].sync = "live" /\ Hears(u) => \A r : IsComing(u, r)' <=> IsComing(u, r)
    BY <1>6, <1>13, <2>1
  <2>3. ASSUME NoneIsOld(u) PROVE NoneIsOld(u)'
    <3> SUFFICES ASSUME NEW k \in DOMAIN tab[u].unsaved
                 PROVE  /\ \A i \in DOMAIN line' : line'[i].op = tab[u].unsaved[k] => i \in InLine(u)'
                        /\ \A r \in DOMAIN log : log[r] = tab[u].unsaved[k] =>
                             \E l \in Acked(u) : outbox'[u][l].code = "OK" /\ outbox'[u][l].rev = r
      <4>1. tab' = tab /\ log' = log /\ Acked(u)' = Acked(u)  BY <1>7
      <4> QED  BY <4>1 DEF NoneIsOld
    <3>1. \A i \in DOMAIN line' : line'[i].op = tab[u].unsaved[k] => i \in InLine(u)'
      BY <1>3, <2>3 DEF NoneIsOld
    <3>2. ASSUME NEW r \in DOMAIN log, log[r] = tab[u].unsaved[k]
          PROVE  \E l \in Acked(u) : outbox'[u][l].code = "OK" /\ outbox'[u][l].rev = r
      <4>1. ~(Announcing /\ line[1].rev = r)
        <5>1. line[1].op # tab[u].unsaved[k]  BY <2>3 DEF NoneIsOld
        <5> QED  BY <3>2, <5>1 DEF Announcing, SyncInv, ServerInv, AnnouncedIsNewest
      <4>2. \E l \in Acked(u) : outbox[u][l].code = "OK" /\ outbox[u][l].rev = r
        BY <2>3, <3>2, <4>1 DEF NoneIsOld
      <4> QED  BY <1>4, <4>2 DEF Acked
    <3> QED  BY <3>1, <3>2
  <2>4. ASSUME AckInOrder(u), tab[u].sync = "live", Hears(u) PROVE AckInOrder(u)'
    <3> SUFFICES ASSUME NEW k \in Acked(u), outbox[u][k].code = "OK"
                 PROVE  /\ \A l \in DOMAIN outbox'[u] : l < k /\ outbox'[u][l].type = "op" =>
                             outbox'[u][l].rev < outbox[u][k].rev
                        /\ \A r \in DOMAIN log : outbox[u][k].rev < r => IsComing(u, r)'
      BY <1>4, <1>7 DEF AckInOrder, Acked
    <3>1. ASSUME NEW l \in DOMAIN outbox'[u], l < k, outbox'[u][l].type = "op"
          PROVE  outbox'[u][l].rev < outbox[u][k].rev
      <4>1. l \in DOMAIN outbox[u]
        <5>2. k \in DOMAIN outbox'[u] /\ k \in DOMAIN outbox[u]  BY <1>4 DEF Acked
        <5>3. k \in Int /\ l \in Int  BY <1>16, <5>2, LenProperties
        <5> QED  BY <1>4, <3>1, <5>2, <5>3
      <4> QED  BY <1>4, <2>4, <3>1, <4>1 DEF AckInOrder
    <3> QED  BY <2>2, <2>4, <3>1 DEF AckInOrder
  <2> QED  BY <1>7, <1>8, <2>2, <2>3, <2>4, LivesStay
<1> QED  BY <1>12, <1>14, <1>15

\* It was the tab's own: the answer is on its way.
LEMMA OwnDoneShows ==
  ASSUME SyncInv, OrderInv, MountDiscardsNothing, NEW u \in Users, ScreenInv(u),
         line' = RemoveAt(line, 1), 1 \in InLine(u),
         UNCHANGED <<log, content, conn, inbox, tab, fate>>,
         NEW n \in ServerMessages, n.type = "ack", n.op = line[1].op, n.att = line[1].att,
         \/ Announcing /\ n.code = "OK" /\ n.rev = line[1].rev
         \/ ~Announcing /\ (n.code = "OK" => n.rev \in DOMAIN log /\ log[n.rev] = line[1].op),
         \/ outbox'[u] = Append(outbox[u], n) /\ (u \in room => u \in room')
         \/ outbox'[u] = Append(Append(outbox[u], [type |-> "access-revoked"]), n)
  PROVE  ScreenInv(u)'
<1> USE DEF ScreenInv
<1> DEFINE Asked(x) == tab'[u].sender = "waiting" /\ x.op = UnsavedHead(u)' /\ x.att = tab'[u].att
<1>1. PICK w : w = [type |-> "access-revoked"]  OBVIOUS
<1>2. outbox[u] \in Seq(ServerMessages) /\ w \in ServerMessages /\ w.type = "access-revoked"
  BY <1>1, Shapes, MessageTypes
<1>3. /\ ~Announcing' /\ 1 \in DOMAIN line
      /\ \A k \in DOMAIN line' : k + 1 \in DOMAIN line /\ line'[k] = line[k + 1] /\ k \in Nat /\ k # 0
      /\ \A k : k \in InLine(u)' <=> k \in DOMAIN line' /\ k + 1 \in InLine(u)
  <2>1. 1 \in DOMAIN line  BY DEF InLine
  <2> QED  BY <2>1, RemovalView
<1>4. PICK q \in DOMAIN outbox'[u] :
        /\ outbox'[u][q] = n
        /\ \A k \in DOMAIN outbox[u] : k \in DOMAIN outbox'[u] /\ outbox'[u][k] = outbox[u][k] /\ k # q
        /\ \A k \in DOMAIN outbox'[u] : k # q =>
             k < q /\ (k \in DOMAIN outbox[u] \/ (outbox'[u][k] = w /\ Doomed(u)'))
        /\ \A k \in DOMAIN outbox'[u] : k \in Int
        /\ u \in room => u \in room' \/ Doomed(u)'
  <2>1. Len(outbox[u]) \in Nat /\ DOMAIN outbox[u] = 1..Len(outbox[u])  BY <1>2, LenProperties
  <2>2. CASE outbox'[u] = Append(outbox[u], n) /\ (u \in room => u \in room')
    <3>1. /\ DOMAIN outbox'[u] = 1..(Len(outbox[u]) + 1)
          /\ \A k \in DOMAIN outbox[u] : outbox'[u][k] = outbox[u][k]
          /\ outbox'[u][Len(outbox[u]) + 1] = n
      BY <1>2, <2>1, <2>2, AppendProperties, LenProperties
    <3> QED  BY <2>1, <2>2, <3>1
  <2>3. CASE outbox'[u] = Append(Append(outbox[u], w), n)
    <3>1. PICK b : b = Append(outbox[u], w)  OBVIOUS
    <3>2. /\ b \in Seq(ServerMessages) /\ Len(b) = Len(outbox[u]) + 1
          /\ DOMAIN b = 1..(Len(outbox[u]) + 1)
          /\ \A k \in DOMAIN outbox[u] : b[k] = outbox[u][k]
          /\ b[Len(outbox[u]) + 1] = w
      BY <1>2, <2>1, <3>1, AppendProperties, LenProperties
    <3>3. /\ DOMAIN outbox'[u] = 1..(Len(b) + 1)
          /\ \A k \in DOMAIN b : outbox'[u][k] = b[k]
          /\ outbox'[u][Len(b) + 1] = n
      BY <2>3, <3>1, <3>2, AppendProperties, LenProperties
    <3>4. Doomed(u)'
      <4>1. Len(b) \in DOMAIN outbox'[u] /\ outbox'[u][Len(b)] = w  BY <2>1, <3>2, <3>3
      <4> QED  BY <1>2, <4>1 DEF Doomed, Dooms
    <3> QED  BY <2>1, <3>2, <3>3, <3>4
  <2> QED  BY <1>1, <2>2, <2>3
<1>5. /\ AwaitsAnswer(u, line[1]) /\ (\A l \in InLine(u) : l = 1) /\ Acked(u) = {} /\ Emitted(u) = {}
      /\ tab[u].unsaved # << >>
  <2>1. /\ AwaitsAnswer(u, line[1]) /\ (\A l \in InLine(u) : l = 1) /\ Acked(u) = {} /\ Emitted(u) = {}
    BY DEF Wired, OneRequest
  <2> QED  BY <2>1 DEF AwaitsAnswer, SyncInv, TabsInv, SenderHasHead
<1>6. UnsavedHead(u) = line[1].op /\ tab[u].unsaved[1] = line[1].op /\ 1 \in DOMAIN tab[u].unsaved
  BY <1>5, UnsavedEdits DEF AwaitsAnswer
<1>7. InLine(u)' = {} /\ Emitted(u)' = {} /\ \A k \in Acked(u)' : k = q
  <2>1. InLine(u)' = {}
    <3> SUFFICES ASSUME NEW k \in InLine(u)' PROVE FALSE  OBVIOUS
    <3>1. k + 1 \in InLine(u) /\ k \in Nat /\ k # 0  BY <1>3
    <3> QED  BY <1>5, <3>1
  <2>2. \A k \in Acked(u)' : k = q  BY <1>2, <1>4, <1>5 DEF Acked
  <2> QED  BY <1>5, <2>1, <2>2 DEF Emitted
<1>8. ~Others(u) /\ ~Others(u)'  BY <1>3 DEF Others, InLine
<1>9. \A r : /\ IsComing(u, r)' <=> IsComing(u, r)
             /\ IsToBeTold(u, r) => IsToBeTold(u, r)'
  <2>1. \A k \in DOMAIN outbox'[u] : outbox'[u][k].type = "op" =>
          k \in DOMAIN outbox[u] /\ outbox'[u][k] = outbox[u][k]
    BY <1>2, <1>4
  <2>2. \A r : IsComing(u, r)' <=> IsComing(u, r)  BY <1>4, <1>8, <2>1 DEF IsComing
  <2>3. \A r : Announcing /\ line[1].rev = r => IsToBeTold(u, r)'
    BY <1>4 DEF IsToBeTold, Tells
  <2>4. \A r : IsToBeTold(u, r) => IsToBeTold(u, r)'
    BY <1>4, <2>3 DEF IsToBeTold
  <2> QED  BY <2>2, <2>4
<1>10. Hears(u)' => Hears(u) /\ (u \in room => u \in room')
  BY <1>4 DEF Hears, Doomed
<1>11. tab'[u] = tab[u] /\ UnsavedHead(u)' = UnsavedHead(u) /\ SameView(u)
  BY SameTabSameView DEF UnsavedHead
<1>12. Wired(u)'
  <2>1. u \in conn
    BY <1>3 DEF Wired, Unplugged
  <2>2. OneRequest(u)'
    <3>1. Asked(n)  BY <1>5, <1>11 DEF AwaitsAnswer
    <3> HIDE DEF Asked
    <3>2. \A k \in Acked(u)' : Asked(outbox'[u][k]) /\ \A l \in Acked(u)' : l = k
      BY <1>4, <1>7, <3>1
    <3> USE DEF Asked
    <3> QED  BY <1>7, <3>2 DEF OneRequest, AwaitsAnswer
  <2>3. InOrder(u)'
    <3> SUFFICES ASSUME NEW k \in DOMAIN outbox'[u], Tells(outbox'[u][k]),
                        NEW l \in DOMAIN outbox'[u], k < l, outbox'[u][l].type = "op"
                 PROVE  outbox'[u][k].rev < outbox'[u][l].rev
      BY <1>3 DEF InOrder
    <3>1. l \in DOMAIN outbox[u] /\ outbox'[u][l] = outbox[u][l]  BY <1>2, <1>4
    <3>2. k # q  BY <1>4, <3>1
    <3>3. k \in DOMAIN outbox[u] /\ outbox'[u][k] = outbox[u][k]
      BY <1>2, <1>4, <3>2 DEF Tells
    <3> QED  BY <3>1, <3>3 DEF Wired, InOrder
  <2>4. NoGap(u)'
    <3> SUFFICES ASSUME Hears(u)', NEW k \in DOMAIN outbox'[u], outbox'[u][k].type = "op"
                 PROVE  u \in room' /\ \A r \in DOMAIN log : outbox'[u][k].rev < r => IsToBeTold(u, r)'
      BY DEF NoGap
    <3>1. k \in DOMAIN outbox[u] /\ outbox'[u][k] = outbox[u][k]  BY <1>2, <1>4
    <3> QED  BY <1>9, <1>10, <3>1 DEF Wired, NoGap
  <2> QED  BY <2>1, <2>2, <2>3, <2>4 DEF Wired, Unplugged
<1>13. Loads(u)'
  <2>1. tab[u].sync \notin {"reading", "mounting"}  BY <1>5 DEF MountDiscardsNothing
  <2> QED  BY <1>11, <2>1 DEF Loads
<1>14. Lives(u)'
  <2>1. ASSUME NoneIsOld(u) PROVE NoneIsOld(u)'
    <3> SUFFICES ASSUME NEW k \in DOMAIN tab[u].unsaved
                 PROVE  /\ \A i \in DOMAIN line' : line'[i].op # tab[u].unsaved[k]
                        /\ \A r \in DOMAIN log : log[r] = tab[u].unsaved[k] =>
                             \E l \in Acked(u)' : outbox'[u][l].code = "OK" /\ outbox'[u][l].rev = r
      <4>1. tab' = tab /\ log' = log  OBVIOUS
      <4> QED  BY <4>1 DEF NoneIsOld
    <3>1. ASSUME NEW i \in DOMAIN line', line'[i].op = tab[u].unsaved[k] PROVE FALSE
      <4>1. i + 1 \in InLine(u) /\ i \in Nat /\ i # 0  BY <1>3, <2>1, <3>1 DEF NoneIsOld
      <4> QED  BY <1>5, <4>1
    <3>2. ASSUME NEW r \in DOMAIN log, log[r] = tab[u].unsaved[k]
          PROVE  \E l \in Acked(u)' : outbox'[u][l].code = "OK" /\ outbox'[u][l].rev = r
      <4>1. Announcing /\ line[1].rev = r  BY <1>5, <2>1, <3>2 DEF NoneIsOld
      <4>2. q \in Acked(u)'  BY <1>4 DEF Acked
      <4> QED  BY <1>4, <4>1, <4>2
    <3> QED  BY <3>1, <3>2
  <2>2. ASSUME NoneIsOld(u) PROVE AckInOrder(u)'
    <3>1. CASE Announcing
      <4>1. n.rev = Len(log)  BY <3>1 DEF Announcing, SyncInv, ServerInv, AnnouncedIsNewest
      <4>2. ~(\E r \in DOMAIN log : n.rev < r)
        <5>1. Len(log) \in Nat /\ DOMAIN log = 1..Len(log)  BY Shapes
        <5> QED  BY <4>1, <5>1
      <4>3. ASSUME NEW l \in DOMAIN outbox'[u], l < q, outbox'[u][l].type = "op"
            PROVE  outbox'[u][l].rev < n.rev
        <5>1. l \in DOMAIN outbox[u] /\ outbox'[u][l] = outbox[u][l]
          BY <1>2, <1>4, <4>3
        <5> QED  BY <3>1, <4>3, <5>1 DEF Wired, InOrder, Tells
      <4> QED  BY <1>4, <1>7, <4>2, <4>3 DEF AckInOrder
    <3>2. CASE ~Announcing
      <4>1. n.code # "OK"  BY <1>5, <1>6, <2>2, <3>2 DEF NoneIsOld
      <4> QED  BY <1>4, <1>7, <4>1 DEF AckInOrder
    <3> QED  BY <3>1, <3>2
  <2> QED  BY <1>9, <1>10, <1>11, <2>1, <2>2, LivesStay
<1> QED  BY <1>12, <1>13, <1>14

\* A step of the queue.
LEMMA OpStepShows ==
  ASSUME SyncInv, OrderInv, StepInv, MountDiscardsNothing, NEW u \in Users, ScreenInv(u),
         UNCHANGED tabVars, NEW i \in DOMAIN line, OpStep(i)
  PROVE  ScreenInv(u)'
<1> USE DEF dbVars, lineVars, socketVars
<1> DEFINE t == line[1]
<1>1. UNCHANGED <<tab, fate>>  BY DEF tabVars
<1>2. i = 1 /\ 1 \in DOMAIN line
  BY DEF OpStep, OpDuplicate, OpAuthorize, OpReadOnly, OpNotFound, OpCommit, OpNotWritable,
         OpFails, OpAnnounce, MayRun
<1>3. /\ ServerTypeOK /\ t \in Tasks /\ t.op \in Ops /\ t.att \in Attempts /\ t.rev \in Nat
      /\ t.user \in Users /\ dedupe \in [Ops -> Nat]
  <2>1. ServerTypeOK /\ t \in Tasks  BY <1>2, Shapes DEF SyncInv, ServerInv
  <2> QED  BY <2>1 DEF Tasks, ServerTypeOK
<1>4. 1 \in InLine(u) <=> t.alive /\ t.user = u  BY <1>2 DEF InLine
<1>5. Announcing <=> t.stage = "committed"  BY <1>2 DEF Announcing
<1>6. ASSUME NEW code \in Codes, NEW rev \in Nat
      PROVE  LET n == Ack(t, code, rev) IN
               /\ n \in ServerMessages /\ n.type = "ack" /\ n.op = t.op /\ n.att = t.att
               /\ n.code = code /\ n.rev = rev
  BY <1>3, MessageTypes DEF Ack
<1>7. ASSUME NEW code \in Codes, NEW rev \in Nat, line' = RemoveAt(line, 1),
             outbox' = Reply(outbox, t, Ack(t, code, rev)), ~Announcing,
             code = "OK" => rev \in DOMAIN log /\ log[rev] = t.op,
             UNCHANGED <<log, content, conn, inbox, room>>
      PROVE  ScreenInv(u)'
  <2> DEFINE n == Ack(t, code, rev)
  <2>1. /\ n \in ServerMessages /\ n.type = "ack" /\ n.op = t.op /\ n.att = t.att
        /\ n.code = code /\ n.rev = rev
    BY <1>6
  <2> HIDE DEF n
  <2>2. outbox'[u] = IF t.alive /\ t.user = u THEN Append(outbox[u], n) ELSE outbox[u]
    <3>1. outbox' = Reply(outbox, t, n)  BY <1>7 DEF n
    <3> QED  BY <1>3, <3>1, RepliesGrow
  <2>3. CASE 1 \in InLine(u)
    BY <1>1, <1>4, <1>7, <2>1, <2>2, <2>3, OwnDoneShows
  <2>4. CASE 1 \notin InLine(u)
    BY <1>1, <1>2, <1>4, <1>7, <2>2, <2>4, OthersDoneShows
  <2> QED  BY <2>3, <2>4
<1>8. CASE OpAuthorize(i)
  <2>1. Calm(u)  BY <1>8, AuthorizeCalm
  <2>2. SameView(u)  BY <1>1, SameTabSameView
  <2> QED  BY <2>1, <2>2, CalmStep DEF ScreenInv
<1>9. CASE OpCommit(i)  BY <1>9, CommitShows
<1>10. CASE OpDuplicate(i)
  <2>1. dedupe[t.op] \in Nat /\ dedupe[t.op] \in DOMAIN log /\ log[dedupe[t.op]] = t.op
    BY <1>2, <1>3, <1>10 DEF OpDuplicate, SyncInv, ServerInv, SavedMeansSaved
  <2> QED  BY <1>2, <1>5, <1>7, <1>10, <2>1 DEF OpDuplicate, Codes
<1>11. CASE OpReadOnly(i)  BY <1>2, <1>5, <1>7, <1>11 DEF OpReadOnly, Codes
<1>12. CASE OpNotWritable(i)  BY <1>2, <1>5, <1>7, <1>12 DEF OpNotWritable, Codes
<1>13. CASE OpFails(i)
  <2>1. PICK code \in FailureCodes : outbox' = Reply(outbox, t, Ack(t, code, 0))
    BY <1>2, <1>13 DEF OpFails
  <2>2. code \in Codes /\ code # "OK"  BY DEF FailureCodes, Codes
  <2> QED  BY <1>2, <1>5, <1>7, <1>13, <2>1, <2>2 DEF OpFails
<1>14. CASE OpNotFound(i)
  <2> DEFINE m == [type |-> "access-revoked"]
             n == Ack(t, "NOT_FOUND", 0)
  <2>1. /\ n \in ServerMessages /\ n.type = "ack" /\ n.op = t.op /\ n.att = t.att
        /\ n.code = "NOT_FOUND" /\ n.rev = 0
    BY <1>6 DEF Codes
  <2>2. /\ outbox' = Reply(Reply(outbox, t, m), t, n) /\ line' = RemoveAt(line, 1)
        /\ UNCHANGED <<log, content, conn, inbox>> /\ ~Announcing
        /\ room' = IF t.alive /\ t.user \in joined THEN room \ {t.user} ELSE room
    BY <1>2, <1>5, <1>14 DEF OpNotFound
  <2> HIDE DEF m, n, t
  <2>3. outbox'[u] = IF t.alive /\ t.user = u THEN Append(Append(outbox[u], m), n)
                     ELSE outbox[u]
    <3>1. outbox' = Reply(Reply(outbox, t, m), t, n)  BY <2>2
    <3>2. ServerTypeOK /\ t \in Tasks  BY <1>3
    <3> QED  BY <3>1, <3>2, RepliesGrow
  <2> USE DEF m, t
  <2>4. CASE 1 \in InLine(u)
    <3>1. outbox'[u] = Append(Append(outbox[u], m), n)  BY <1>4, <2>3, <2>4
    <3> QED  BY <1>1, <2>1, <2>2, <2>4, <3>1, OwnDoneShows
  <2>5. CASE 1 \notin InLine(u)
    <3>1. outbox'[u] = outbox[u] /\ (u \in room' <=> u \in room)  BY <1>4, <2>2, <2>3, <2>5
    <3> QED  BY <1>1, <1>2, <2>2, <2>5, <3>1, OthersDoneShows
  <2> QED  BY <2>4, <2>5
<1>15. CASE OpAnnounce(i)
  <2> DEFINE m == [type |-> "op", op |-> t.op, rev |-> t.rev]
             n == Ack(t, "OK", t.rev)
             others == IF t.alive THEN room \ {t.user} ELSE room
  <2>1. /\ n \in ServerMessages /\ n.type = "ack" /\ n.op = t.op /\ n.att = t.att
        /\ n.code = "OK" /\ n.rev = t.rev
    BY <1>3, <1>6 DEF Codes
  <2>2. /\ outbox' = Reply(Broadcast(outbox, others, m), t, n) /\ line' = RemoveAt(line, 1)
        /\ UNCHANGED <<log, content, conn, inbox, room>> /\ Announcing
    BY <1>2, <1>5, <1>15 DEF OpAnnounce
  <2> HIDE DEF m, n, t, others
  <2>3. outbox'[u] = IF t.alive /\ t.user = u THEN Append(Broadcast(outbox, others, m)[u], n)
                     ELSE Broadcast(outbox, others, m)[u]
    <3>1. outbox' = Reply(Broadcast(outbox, others, m), t, n)  BY <2>2
    <3>2. ServerTypeOK /\ t \in Tasks  BY <1>3
    <3> QED  BY SMTT(30), <3>1, <3>2, RepliesGrow
  <2>4. Broadcast(outbox, others, m)[u] = IF u \in others THEN Append(outbox[u], m) ELSE outbox[u]
    BY DEF Broadcast
  <2> USE DEF m, t, others
  <2>5. CASE 1 \in InLine(u)
    <3>1. outbox'[u] = Append(outbox[u], n)  BY <1>4, <2>3, <2>4, <2>5
    <3> QED  BY <1>1, <2>1, <2>2, <2>5, <3>1, OwnDoneShows
  <2>6. CASE 1 \notin InLine(u)
    <3>1. /\ u \notin room => outbox'[u] = outbox[u]
          /\ u \in room => outbox'[u] = Append(outbox[u], m)
      BY <1>4, <2>3, <2>4, <2>6
    <3> QED  BY <1>1, <1>2, <2>2, <2>6, <3>1, OthersDoneShows
  <2> QED  BY <2>5, <2>6
<1> QED
  BY <1>8, <1>9, <1>10, <1>11, <1>12, <1>13, <1>14, <1>15 DEF OpStep

(* Connections come and go. *)

\* Nothing is on its way to or from the tab.
LEMMA NothingUnderWay ==
  ASSUME NEW u \in Users, inbox'[u] = << >>, outbox'[u] = << >>, InLine(u)' = {},
         u \in conn' \/ ~tab'[u].online
  PROVE  Wired(u)'
<1>1. DOMAIN inbox'[u] = {} /\ DOMAIN outbox'[u] = {}  OBVIOUS
<1>2. Emitted(u)' = {} /\ Acked(u)' = {}  BY <1>1 DEF Emitted, Acked
<1>3. Unplugged(u)'  BY DEF Unplugged
<1>4. OneRequest(u)'  BY <1>2 DEF OneRequest
<1>5. InOrder(u)' /\ NoGap(u)'  BY <1>1 DEF InOrder, NoGap
<1> QED  BY <1>3, <1>4, <1>5 DEF Wired

\* What a tab has read does not matter until it hears of what it has missed.
LEMMA ReadStays ==
  ASSUME NEW u \in Users, Loads(u), UNCHANGED <<log, content>>,
         tab'[u].snap = tab[u].snap, tab'[u].cells = tab[u].cells,
         tab'[u].sync \in {tab[u].sync, "due"},
         ~Hears(u)' \/ (tab'[u].rerun /\ tab'[u].sync # "live")
  PROVE  Loads(u)' /\ Lives(u)'
<1>1. NewerIsHeld(u)'  BY DEF NewerIsHeld
<1>2. \A i, r : Latest(i, r)' <=> Latest(i, r)  BY DEF Latest
<1>3. CellsAreRead(u) => CellsAreRead(u)'  BY <1>2 DEF CellsAreRead
<1>4. Lives(u)'  BY DEF Lives
<1> QED  BY <1>1, <1>3, <1>4 DEF Loads

LEMMA ConnectShows ==
  ASSUME SyncInv, StepInv, NEW u \in Users, ScreenInv(u), TabConnects(u)
  PROVE  ScreenInv(u)'
<1> USE DEF dbVars, lineVars
<1> DEFINE t == tab[u]
           x == CASE ~t.first -> t
                  [] t.first /\ t.sync \in {"live", "revoked"} -> [t EXCEPT !.sync = "due"]
                  [] OTHER -> [t EXCEPT !.rerun = TRUE]
<1>1. tab \in [Users -> Tabs] /\ t \in Tabs  BY Shapes
<1>2. tab'[u] = x  BY <1>1 DEF TabConnects
<1>3. u \notin conn /\ u \in conn' /\ UNCHANGED <<log, content, line, inbox, outbox>>
  BY DEF TabConnects, Connect
<1>4. Unplugged(u) /\ Loads(u)  BY DEF ScreenInv, Wired
<1>5. inbox'[u] = << >> /\ outbox'[u] = << >> /\ InLine(u)' = {}
  BY <1>3, <1>4 DEF Unplugged, InLine
<1>6. Wired(u)'  BY <1>3, <1>5, NothingUnderWay
<1>7. CASE ~t.first
  <2>1. x = t  BY <1>7
  <2>2. CASE t.shut
    <3>1. ~Hears(u)'  BY <1>2, <2>1, <2>2 DEF Hears
    <3> QED  BY <1>2, <1>3, <1>4, <1>6, <2>1, <3>1, ReadStays DEF ScreenInv
  <2>3. CASE ~t.shut
    <3>1. Phased(u)  BY <2>3 DEF StepInv, TabInStep
    <3>2. t.sync \in {"off", "due"}  BY <1>3, <1>7, <3>1 DEF Phased
    <3> QED  BY <1>2, <1>6, <2>1, <3>2, NothingShown DEF ScreenInv
  <2> QED  BY <2>2, <2>3
<1>8. CASE t.first /\ t.sync \in {"live", "revoked"}
  <2>1. x.sync = "due"  BY <1>1, <1>8 DEF Tabs
  <2> QED  BY <1>2, <1>6, <2>1, NothingShown DEF ScreenInv
<1>9. CASE t.first /\ t.sync \notin {"live", "revoked"}
  <2>1. x = [t EXCEPT !.rerun = TRUE]  BY <1>9
  <2>2. /\ x.rerun = TRUE /\ x.sync = t.sync /\ x.snap = t.snap /\ x.cells = t.cells
    BY <1>1, <2>1 DEF Tabs
  <2> HIDE DEF x
  <2> QED  BY <1>2, <1>3, <1>4, <1>6, <1>9, <2>2, ReadStays DEF ScreenInv
<1> QED  BY <1>7, <1>8, <1>9

LEMMA CutShows ==
  ASSUME SyncInv, NEW u \in Users, ScreenInv(u), TabDisconnects(u) \/ TabsRestart
  PROVE  ScreenInv(u)'
<1> USE DEF dbVars
<1>1. tab \in [Users -> Tabs] /\ tab[u] \in Tabs  BY Shapes
<1>2. ASSUME NEW r \in {tab[u], Settled(tab[u])}
      PROVE  /\ ~Cut(r).online /\ Cut(r).snap = tab[u].snap /\ Cut(r).cells = tab[u].cells
             /\ Cut(r).sync \in {tab[u].sync, "due"}
  <2>1. Cut(r).snap = r.snap /\ Cut(r).cells = r.cells  BY DEF Cut
  <2>2. r.snap = tab[u].snap /\ r.cells = tab[u].cells  BY <1>1 DEF Settled, Tabs
  <2> QED  BY <1>1, <2>1, <2>2, CutFields
<1>3. /\ ~tab'[u].online /\ tab'[u].snap = tab[u].snap /\ tab'[u].cells = tab[u].cells
      /\ tab'[u].sync \in {tab[u].sync, "due"}
  <2>1. CASE TabDisconnects(u)
    <3>1. PICK r \in {tab[u], Settled(tab[u])} : tab' = [tab EXCEPT ![u] = Cut(r)]
      BY <2>1 DEF TabDisconnects
    <3>2. tab'[u] = Cut(r)  BY <1>1, <3>1
    <3> QED  BY <1>2, <3>2
  <2>2. CASE TabsRestart
    <3>1. PICK givingUp \in SUBSET Users :
            tab' = [v \in Users |->
              LET t == Cut(IF v \in givingUp THEN Settled(tab[v]) ELSE tab[v]) IN
                [t EXCEPT !.sync = IF @ \in {"fetching", "reading"} THEN "due" ELSE @]]
      BY <2>2 DEF TabsRestart
    <3> DEFINE r == IF u \in givingUp THEN Settled(tab[u]) ELSE tab[u]
    <3>2. tab'[u] = [Cut(r) EXCEPT !.sync = IF Cut(r).sync \in {"fetching", "reading"} THEN "due"
                                            ELSE Cut(r).sync]
      BY <3>1
    <3>3. r \in {tab[u], Settled(tab[u])}  OBVIOUS
    <3> HIDE DEF r
    <3>4. /\ tab'[u].online = Cut(r).online /\ tab'[u].snap = Cut(r).snap
          /\ tab'[u].cells = Cut(r).cells /\ tab'[u].sync \in {Cut(r).sync, "due"}
      BY <3>2 DEF Cut
    <3> QED  BY <1>2, <3>3, <3>4
  <2> QED  BY <2>1, <2>2
<1>4. /\ u \notin conn' /\ inbox'[u] = << >> /\ outbox'[u] = << >>
      /\ UNCHANGED <<log, content>> /\ InLine(u)' = {}
  <2>1. CASE TabDisconnects(u)
    <3>1. /\ u \notin conn' /\ UNCHANGED <<log, content>>
          /\ line' = [i \in DOMAIN line |-> [line[i] EXCEPT !.alive = @ /\ line[i].user # u]]
      BY <2>1 DEF TabDisconnects, Disconnect
    <3>2. inbox'[u] = << >> /\ outbox'[u] = << >>
      BY <2>1 DEF TabDisconnects, Disconnect, SyncInv, ServerInv, ServerTypeOK
    <3>3. \A i \in DOMAIN line : line[i] \in Tasks  BY Shapes
    <3>4. \A i \in DOMAIN line : /\ line'[i].user = line[i].user
                                 /\ line'[i].alive = (line[i].alive /\ line[i].user # u)
      BY <3>1, <3>3 DEF Tasks
    <3>5. DOMAIN line' = DOMAIN line  BY <3>1
    <3>6. InLine(u)' = {}  BY <3>4, <3>5 DEF InLine
    <3> QED  BY <3>1, <3>2, <3>6
  <2>2. CASE TabsRestart
    <3>1. line' = << >> /\ DOMAIN << >> = {}  BY <2>2 DEF TabsRestart, Restart
    <3>2. InLine(u)' = {}  BY <3>1 DEF InLine
    <3> QED  BY <2>2, <3>2 DEF TabsRestart, Restart
  <2> QED  BY <2>1, <2>2
<1>5. Wired(u)'  BY <1>3, <1>4, NothingUnderWay
<1>6. ~Hears(u)'  BY <1>4 DEF Hears
<1> QED  BY <1>3, <1>4, <1>5, <1>6, ReadStays DEF ScreenInv

(* The whole. *)

LEMMA LatestStoredStep ==
  ASSUME SyncInv, LatestIsStored, [SyncNext]_syncVars
  PROVE  LatestIsStored'
<1>1. ServerInv /\ [ServerMoves]_serverVars  BY SyncInvStep DEF SyncInv
<1>2. CASE log' = log
  <2>1. content' = content  BY <1>1, <1>2, ContentIsLogged
  <2>2. \A i, r : Latest(i, r)' <=> Latest(i, r)  BY <1>2 DEF Latest
  <2> QED  BY <1>2, <2>1, <2>2 DEF LatestIsStored
<1>3. CASE log' # log
  <2>1. \A k \in DOMAIN log : k \in DOMAIN log' /\ log'[k] = log[k]  BY <1>1, LogOnlyGrows
  <2>2. PICK o \in Ops :
          /\ content' = [content EXCEPT ![ItemOf[o]] = o]
          /\ DOMAIN log' = DOMAIN log \cup {Len(log) + 1}
          /\ Len(log) + 1 \notin DOMAIN log /\ log'[Len(log) + 1] = o
    BY <1>1, <1>3, LogOnlyGrows
  <2> DEFINE new == Len(log) + 1
  <2>3. \A k \in DOMAIN log : k < new
    <3>1. Len(log) \in Nat /\ DOMAIN log = 1..Len(log)
      BY <1>1, LenProperties DEF ServerInv, ServerTypeOK
    <3> QED  BY <3>1
  <2>4. ItemOf[o] \in Items /\ content \in [Items -> Ops \cup {Blank}]
    BY <1>1, ItemOfType DEF ServerInv, ServerTypeOK
  <2> HIDE DEF new
  <2>5. /\ DOMAIN log' = DOMAIN log \cup {new} /\ log'[new] = o  BY <2>2 DEF new
  <2> SUFFICES ASSUME NEW i \in Items, NEW r \in DOMAIN log', Latest(i, r)'
               PROVE  content'[i] = log'[r]
    BY DEF LatestIsStored
  <2>6. /\ ItemOf[log'[r]] = i
        /\ \A s \in DOMAIN log' : r < s => ItemOf[log'[s]] # i
    BY DEF Latest
  <2>7. CASE r = new
    <3>1. i = ItemOf[o] /\ log'[r] = o  BY <2>5, <2>6, <2>7
    <3>2. content'[ItemOf[o]] = o  BY <2>2, <2>4
    <3> QED  BY <3>1, <3>2
  <2>8. CASE r # new
    <3>1. r \in DOMAIN log /\ log'[r] = log[r] /\ r < new  BY <2>1, <2>3, <2>5, <2>8
    <3>2. ItemOf[o] # i
      <4>1. new \in DOMAIN log'  BY <2>5
      <4> QED  BY <2>5, <2>6, <3>1, <4>1
    <3>3. Latest(i, r)  BY <2>1, <2>6, <3>1 DEF Latest
    <3>4. content'[i] = content[i]  BY <2>2, <2>4, <3>2
    <3> QED  BY <3>1, <3>3, <3>4 DEF LatestIsStored
  <2> QED  BY <2>7, <2>8
<1> QED  BY <1>2, <1>3

LEMMA ScreensInit == SyncInit => ScreensInv
<1> SUFFICES ASSUME SyncInit PROVE ScreensInv  OBVIOUS
<1>1. log = << >> /\ line = << >> /\ DOMAIN << >> = {}  BY DEF SyncInit, ServerInit
<1>2. LatestIsStored  BY <1>1 DEF LatestIsStored
<1> SUFFICES ASSUME NEW u \in Users PROVE Wired(u) /\ Loads(u) /\ Lives(u)
  BY <1>2 DEF ScreensInv
<1>3. inbox[u] = << >> /\ outbox[u] = << >> /\ ~tab[u].online /\ tab[u].sync = "off"
  BY DEF SyncInit, ServerInit
<1>4. Emitted(u) = {} /\ InLine(u) = {} /\ Acked(u) = {}
  BY <1>1, <1>3 DEF Emitted, InLine, Acked
<1>5. Unplugged(u) /\ OneRequest(u)  BY <1>3, <1>4 DEF Unplugged, OneRequest
<1>6. InOrder(u) /\ NoGap(u)  BY <1>1, <1>3 DEF InOrder, NoGap
<1>7. Loads(u) /\ Lives(u)  BY <1>3 DEF Loads, Lives
<1> QED  BY <1>5, <1>6, <1>7 DEF Wired

LEMMA ScreensStep ==
  ASSUME SyncInv, SyncInv', OrderInv, StepInv, MountDiscardsNothing, ScreensInv,
         [PromptStep]_syncVars
  PROVE  ScreensInv'
<1>1. [SyncNext]_syncVars /\ LatestIsStored /\ (\A v \in Users : ScreenInv(v))
  BY DEF PromptStep, CarefulStep, ScreensInv, ScreenInv
<1>2. LatestIsStored'  BY <1>1, LatestStoredStep
<1> SUFFICES ASSUME NEW u \in Users PROVE ScreenInv(u)'
  BY <1>2 DEF ScreensInv, ScreenInv
<1>3. ScreenInv(u) /\ ServerTypeOK /\ NobodyLeaves /\ RoomIsConnected
  BY <1>1 DEF SyncInv, ServerInv, StepInv
<1>4. RequestsAreOwn  BY <1>1, OwnRequests DEF ScreenInv
<1>5. \A o \in Ops : fate[o] = "rejected" => fate'[o] = "rejected"
  BY <1>1, HistoryStep DEF OrderInv, HistoryHolds, HistoryGoesOn
<1>6. ASSUME Calm(u), tab'[u] = tab[u] PROVE ScreenInv(u)'
  BY <1>3, <1>5, <1>6, SameTabSameView, CalmStep DEF ScreenInv
<1>7. CASE UNCHANGED syncVars
  <2>1. UNCHANGED <<log, content, line, conn, room, inbox, outbox, tab>>
    BY <1>7 DEF syncVars, serverVars, dbVars, lineVars, socketVars, tabVars
  <2>2. Calm(u)  BY <2>1, CalmWithoutQueue DEF Grown
  <2> QED  BY <1>6, <2>1, <2>2
<1>8. CASE PromptStep
  <2>1. SyncNext /\ (\A v \in Users : ~AckTimeout(v) /\ ~JoinTimeout(v))
        /\ (\A i \in DOMAIN line : ~OpCommitLost(i))
    BY <1>8 DEF PromptStep, CarefulStep
  <2>2. ASSUME NEW v \in Users,
               \/ QueueStep(v) \/ ControllerStep(v) \/ Open(v) \/ (\E o \in Ops : Type(v, o))
               \/ TabConnects(v) \/ TabDisconnects(v)
        PROVE  ScreenInv(u)'
    <3>1. CASE v # u
      <4>1. Calm(u) /\ tab'[u] = tab[u]  BY <2>2, <3>1, OtherTabsCalm
      <4> QED  BY <1>6, <4>1
    <3>2. CASE v = u
      <4>1. CASE OwnStep(u)  BY <1>1, <1>3, <4>1, OwnStepsShow
      <4>2. CASE SendHead(u)  BY <1>3, <4>2, SendHeadShows
      <4>3. CASE ReceiveAck(u)  BY <1>1, <1>3, <4>3, ReceiveAckShows
      <4>4. CASE ReceiveOp(u)  BY <1>1, <1>3, <4>4, ReceiveOpShows
      <4>5. CASE ReceiveJoined(u) \/ ReceiveRevoked(u) \/ ReceiveChanged(u)
        BY <1>3, <4>5, ReceivePlainShows
      <4>6. CASE TabConnects(u)  BY <1>3, <4>6, ConnectShows
      <4>7. CASE TabDisconnects(u)  BY <1>3, <4>7, CutShows
      <4> QED
        BY <2>2, <3>2, <4>1, <4>2, <4>3, <4>4, <4>5, <4>6, <4>7
           DEF QueueStep, ControllerStep, OwnStep
    <3> QED  BY <3>1, <3>2
  <2>3. ASSUME NEW v \in Users, Arrival(v), UNCHANGED tabVars PROVE ScreenInv(u)'
    <3>1. tab'[u] = tab[u]  BY <2>3 DEF tabVars
    <3>2. ~LeaveArrives(v)  BY <1>3, InboxShifts DEF LeaveArrives, NobodyLeaves
    <3>3. CASE v # u \/ JoinArrives(v)
      <4>1. Calm(u)  BY <1>4, <2>3, <3>3, ArrivalsCalm
      <4> QED  BY <1>6, <3>1, <4>1
    <3>4. CASE v = u /\ ~JoinArrives(v)
      <4>1. OpArrives(u) \/ OpRateLimited(u)  BY <2>3, <3>2, <3>4 DEF Arrival
      <4> QED  BY <1>3, <2>3, <4>1, OpArrivesShows
    <3> QED  BY <3>3, <3>4
  <2>4. ASSUME NEW j \in joining, JoinStep(j) \/ JoinFails(j), UNCHANGED tabVars
        PROVE  ScreenInv(u)'
    <3>1. JoinFails(j) => j.stage # "rechecking"  BY <1>8 DEF PromptStep, CarefulStep
    <3>2. Calm(u)  BY <1>3, <2>4, <3>1, HandlersCalm
    <3> QED  BY <1>6, <2>4, <3>2 DEF tabVars
  <2>5. ASSUME NEW i \in DOMAIN line, OpStep(i), UNCHANGED tabVars PROVE ScreenInv(u)'
    BY <1>3, <2>5, OpStepShows
  <2>6. ASSUME Management \/ (\E e \in evicting : Evict(e)) \/ (\E o \in Ops : Forget(o)),
               UNCHANGED tabVars
        PROVE  ScreenInv(u)'
    <3>1. Calm(u)  BY <1>3, <2>6, ManagementCalm
    <3> QED  BY <1>6, <2>6, <3>1 DEF tabVars
  <2>7. ASSUME TabsRestart PROVE ScreenInv(u)'  BY <1>3, <2>7, CutShows
  <2> QED
    BY <2>1, <2>2, <2>3, <2>4, <2>5, <2>6, <2>7
       DEF SyncNext, SyncStep, UserStep, SyncFaults, ServerStep
<1> QED  BY <1>7, <1>8

\* Once nothing is on its way, what a tab in touch shows is what is stored.
LEMMA QuietScreens ==
  ASSUME ScreensInv, CellItems = Items
  PROVE  Converged
<1> SUFFICES ASSUME Quiet, NEW u \in Users, InTouch(u), NEW i \in Items
             PROVE  \/ tab[u].screen[i] = content[i]
                    \/ \E o \in Ops : /\ tab[u].screen[i] = o /\ AuthorOf[o] = u
                                      /\ fate[o] = "rejected"
  BY DEF Converged
<1>1. /\ line = << >> /\ outbox[u] = << >> /\ tab[u].unsaved = << >> /\ DOMAIN << >> = {}
  BY DEF Quiet
<1>2. Hears(u)  BY <1>1 DEF Hears, Doomed, InTouch
<1>3. Shows(u)  BY <1>2 DEF ScreensInv, Lives, InTouch
<1>4. ~Pending(tab[u], i)  BY <1>1 DEF Pending
<1>5. \A r : ~IsComing(u, r)  BY <1>1 DEF IsComing, Others, Announcing
<1>6. ItemShown(u, i)  BY <1>3, <1>4 DEF Shows
<1> QED  BY <1>5, <1>6 DEF ItemShown, IsLost

\* The last-write-wins rule: once nothing is on its way, every tab that is in touch
\* shows the value stored in the database, whatever drops, restarts, refusals and
\* repeats came before - if no answer comes after its sender has stopped waiting, no
\* answer of a COMMIT is lost, the conditions of LiveIsConnected hold, and every item
\* is a cell, whose unsaved edit is protected.  Without the first, the second or the
\* last of these, or when the first loading is cut off, TLC shows a screen that
\* differs from the database for good.
THEOREM EverybodySeesTheSame ==
  ASSUME CellItems = Items
  PROVE  PromptSpec => []Converged
<1> DEFINE I == SyncInv /\ OrderInv /\ StepInv /\ MountDiscardsNothing /\ ScreensInv
<1>1. SyncInit => I
  BY SyncInvInit, OrderInvInit, StepInvInit, ScreensInit DEF SyncInit, MountDiscardsNothing
<1>2. I /\ [PromptStep]_syncVars => I'
  <2> SUFFICES ASSUME I, [PromptStep]_syncVars PROVE I'  OBVIOUS
  <2>1. [SyncNext]_syncVars /\ [CarefulStep]_syncVars  BY DEF PromptStep, CarefulStep
  <2>2. SyncInv'  BY <2>1, SyncInvStep
  <2>3. OrderInv' /\ StepInv' /\ MountDiscardsNothing'
    BY <2>1, <2>2, OrderInvStep, StepInvStep, MountStep
  <2>4. ScreensInv'  BY <2>2, ScreensStep
  <2> QED  BY <2>2, <2>3, <2>4
<1>3. I => Converged  BY QuietScreens
<1> QED  BY <1>1, <1>2, <1>3, PTL DEF PromptSpec

----------------------------------------------------------------------------
(* Each tab's queue is a TabQueue, as SaveQueue is.                        *)

ChangesOf(u) == {o \in Ops : AuthorOf[o] = u}

Queue(u) == INSTANCE TabQueue WITH
  Changes <- ChangesOf(u), unsaved <- tab[u].unsaved, online <- tab[u].online,
  sender <- tab[u].sender, fate <- [o \in ChangesOf(u) |-> fate[o]], typed <- typed[u]

Kept(u) == [Queue(u)!TabQueueNext]_(Queue(u)!tabQueueVars)

\* What a queue is apart from what its user has typed and been told.
Wire(t) == <<t.unsaved, t.online, t.sender>>

LEMMA AloneQueue ==
  ASSUME NEW u \in Users, Wire(tab'[u]) = Wire(tab[u]), typed'[u] = typed[u],
         \A o \in ChangesOf(u) : fate'[o] = fate[o]
  PROVE  Kept(u)
<1>1. [o \in ChangesOf(u) |-> fate[o]]' = [o \in ChangesOf(u) |-> fate[o]]  OBVIOUS
<1> QED  BY <1>1 DEF Wire, Kept, Queue!tabQueueVars

\* One tab moves: the others keep what they have.
LEMMA OneQueueMoves ==
  ASSUME TabsTyped, NEW v \in Users, NEW x, tab' = [tab EXCEPT ![v] = x],
         \A o \in Ops : AuthorOf[o] # v => fate'[o] = fate[o],
         \A u \in Users : u # v => typed'[u] = typed[u],
         Kept(v), NEW u \in Users
  PROVE  Kept(u)
<1>1. CASE u = v  BY <1>1
<1>2. CASE u # v
  <2>1. tab'[u] = tab[u]  BY <1>2 DEF TabsTyped
  <2>2. \A o \in ChangesOf(u) : fate'[o] = fate[o]  BY <1>2 DEF ChangesOf
  <2> QED  BY <1>2, <2>1, <2>2, AloneQueue
<1> QED  BY <1>1, <1>2

\* From t to x nothing is typed and nobody is told: only the flags move.
FlagsOnly(t, x) ==
  /\ x.unsaved = t.unsaved
  /\ \/ x.sender = t.sender
     \/ t.sender = "waiting" /\ x.sender = "idle" /\ x.online \in {t.online, FALSE}
     \/ /\ x.online = t.online
        /\ \/ t.sender = "waiting" /\ x.sender = "pausing"
           \/ t.sender = "pausing" /\ x.sender = "idle"
           \/ t.sender = "idle" /\ x.sender = "waiting" /\ t.online /\ x.unsaved # << >>

LEMMA FlagsMove ==
  ASSUME TabsTyped, NEW v \in Users, NEW x \in Tabs, tab' = [tab EXCEPT ![v] = x],
         UNCHANGED <<fate, typed>>, FlagsOnly(tab[v], x), NEW u \in Users
  PROVE  Kept(u)
<1>1. tab'[v] = x  BY DEF TabsTyped
<1>2. [o \in ChangesOf(v) |-> fate[o]]' = [o \in ChangesOf(v) |-> fate[o]]  OBVIOUS
<1>3. x.unsaved = tab[v].unsaved /\ x.online \in BOOLEAN  BY DEF FlagsOnly, Tabs
<1>4. CASE x.online /\ x.sender = tab[v].sender
  <2>1. x.online = TRUE  BY <1>4
  <2>2. Queue(v)!ComesOnline
    BY <1>1, <1>2, <1>3, <1>4, <2>1 DEF Queue!ComesOnline, Queue!MaySendIfIdle
  <2> QED  BY <2>2, OneQueueMoves DEF Kept, Queue!TabQueueNext
<1>5. CASE x.online = FALSE /\ x.sender = tab[v].sender
  <2>1. Queue(v)!GoesOffline  BY <1>1, <1>2, <1>3, <1>5 DEF Queue!GoesOffline
  <2> QED  BY <2>1, OneQueueMoves DEF Kept, Queue!TabQueueNext
<1>6. CASE /\ tab[v].sender = "waiting" /\ x.sender = "idle"
           /\ x.online \in {tab[v].online, FALSE}
  <2>1. Queue(v)!LetGo  BY <1>1, <1>2, <1>3, <1>6 DEF Queue!LetGo
  <2> QED  BY <2>1, OneQueueMoves DEF Kept, Queue!TabQueueNext
<1>7. CASE tab[v].sender = "waiting" /\ x.sender = "pausing" /\ x.online = tab[v].online
  <2>1. Queue(v)!PutOff  BY <1>1, <1>2, <1>3, <1>7 DEF Queue!PutOff
  <2> QED  BY <2>1, OneQueueMoves DEF Kept, Queue!TabQueueNext
<1>8. CASE tab[v].sender = "pausing" /\ x.sender = "idle" /\ x.online = tab[v].online
  <2>1. Queue(v)!Resume  BY <1>1, <1>2, <1>3, <1>8 DEF Queue!Resume, Queue!MaySend
  <2> QED  BY <2>1, OneQueueMoves DEF Kept, Queue!TabQueueNext
<1>9. CASE /\ tab[v].sender = "idle" /\ x.sender = "waiting" /\ tab[v].online
           /\ x.online = tab[v].online /\ x.unsaved # << >>
  <2>1. Queue(v)!Send  BY <1>1, <1>2, <1>3, <1>9 DEF Queue!Send, Queue!MaySend
  <2> QED  BY <2>1, OneQueueMoves DEF Kept, Queue!TabQueueNext
<1> QED  BY <1>3, <1>4, <1>5, <1>6, <1>7, <1>8, <1>9 DEF FlagsOnly

\* The head of a queue is confirmed or reported.
LEMMA HeadIsTold ==
  ASSUME NEW u \in Users, NEW word \in {"confirmed", "rejected"}, OrderInv, TabsTyped,
         tab[u].sender = "waiting", tab'[u].sender = "idle", tab[u].unsaved # << >>,
         tab'[u].unsaved = Tail(tab[u].unsaved),
         \/ tab'[u].online = tab[u].online
         \/ word = "rejected" /\ tab'[u].online = FALSE,
         typed'[u] = typed[u],
         \A o \in ChangesOf(u) : fate'[o] = IF o = UnsavedHead(u) THEN word ELSE fate[o]
  PROVE  Kept(u)
<1>1. UnsavedHead(u) \in ChangesOf(u)  BY HeadIsNext DEF OrderInv, ChangesOf
<1>2. [o \in ChangesOf(u) |-> fate[o]]'
        = [[o \in ChangesOf(u) |-> fate[o]] EXCEPT ![Head(tab[u].unsaved)] = word]
  <2>1. [o \in ChangesOf(u) |-> fate[o]]' = [o \in ChangesOf(u) |-> fate'[o]]
    BY DEF ChangesOf
  <2> QED  BY <1>1, <2>1 DEF UnsavedHead
<1>3. CASE word = "confirmed"
  <2>1. Queue(u)!Confirm  BY <1>2, <1>3 DEF Queue!Confirm, Queue!MaySend
  <2> QED  BY <2>1 DEF Kept, Queue!TabQueueNext
<1>4. CASE word = "rejected"
  <2>1. Queue(u)!Report  BY <1>2, <1>4 DEF Queue!Report, Queue!MaySend
  <2> QED  BY <2>1 DEF Kept, Queue!TabQueueNext
<1> QED  BY <1>3, <1>4

LEMMA TypeKept ==
  ASSUME TabsTyped, NEW v \in Users, NEW o \in Ops, Type(v, o), NEW u \in Users
  PROVE  Kept(u)
<1> DEFINE x == [tab[v] EXCEPT !.screen[ItemOf[o]] = o, !.unsaved = Append(@, o)]
<1>1. tab \in [Users -> Tabs] /\ tab[v] \in Tabs /\ typed \in [Users -> Seq(Ops)]
      /\ fate \in [Ops -> {"untyped", "pending", "confirmed", "rejected"}]
  BY DEF TabsTyped
<1>2. tab' = [tab EXCEPT ![v] = x]  BY <1>1 DEF Type
<1>3. /\ tab'[v].unsaved = Append(tab[v].unsaved, o) /\ tab'[v].sender = tab[v].sender
      /\ tab'[v].online = tab[v].online
  BY <1>1, <1>2 DEF Tabs
<1>4. /\ o \in ChangesOf(v) /\ fate[o] = "untyped" /\ fate' = [fate EXCEPT ![o] = "pending"]
      /\ typed' = [typed EXCEPT ![v] = Append(@, o)]
  BY DEF Type, ChangesOf
<1>5. [p \in ChangesOf(v) |-> fate[p]]'
        = [[p \in ChangesOf(v) |-> fate[p]] EXCEPT ![o] = "pending"]
  <2>1. [p \in ChangesOf(v) |-> fate[p]]' = [p \in ChangesOf(v) |-> fate'[p]]
    BY DEF ChangesOf
  <2>2. ChangesOf(v) \subseteq Ops  BY DEF ChangesOf
  <2> QED  BY <1>1, <1>4, <2>1, <2>2
<1>6. typed'[v] = Append(typed[v], o)  BY <1>1, <1>4
<1>7. Queue(v)!Type(o)  BY <1>3, <1>4, <1>5, <1>6 DEF Queue!Type, Queue!MaySendIfIdle
<1>8. Kept(v)  BY <1>4, <1>7 DEF Kept, Queue!TabQueueNext
<1>9. \A p \in Ops : AuthorOf[p] # v => fate'[p] = fate[p]  BY <1>1, <1>4 DEF ChangesOf
<1>10. \A w \in Users : w # v => typed'[w] = typed[w]  BY <1>1, <1>4
<1> HIDE DEF x
<1> QED  BY <1>2, <1>8, <1>9, <1>10, OneQueueMoves

\* The controller leaves the queue alone, apart from its flag.
LEMMA ControllerKept ==
  ASSUME TabsTyped, ServerTypeOK, NEW v \in Users, NEW u \in Users,
         \/ Open(v) \/ TabConnects(v) \/ JoinTimeout(v) \/ ControllerStep(v)
  PROVE  Kept(u)
<1>1. tab \in [Users -> Tabs] /\ tab[v] \in Tabs  BY SMTT(30) DEF TabsTyped
<1>2. UNCHANGED <<fate, typed>>
  BY DEF Open, TabConnects, JoinTimeout, ControllerStep, Attempt, Drained, DrainTimeout,
         FetchRow, FetchCells, FetchFails, Mount, ReceiveJoined, ReceiveOp, ReceiveRevoked,
         ReceiveChanged
<1> DEFINE t == tab[v]
           Alike(x) == x.unsaved = t.unsaved /\ x.sender = t.sender
<1>3. ASSUME NEW x, tab' = [tab EXCEPT ![v] = x], Alike(x),
             x.online = t.online
      PROVE  Kept(u)
  <2>1. tab'[v] = x  BY <1>1, <1>3
  <2>2. Kept(v)  BY <1>2, <1>3, <2>1, AloneQueue DEF Wire
  <2> QED  BY <1>2, <1>3, <2>2, OneQueueMoves
<1>4. CASE \/ Open(v) \/ JoinTimeout(v) \/ Drained(v) \/ DrainTimeout(v) \/ FetchFails(v)
  <2>1. PICK p \in Phases : tab' = [tab EXCEPT ![v].sync = p]
    BY <1>4 DEF Open, JoinTimeout, Drained, DrainTimeout, FetchFails, Phases
  <2> QED  BY <1>1, <1>3, <2>1 DEF Tabs
<1>5. CASE Attempt(v)
  <2>1. PICK n \in Joins : tab' = [tab EXCEPT ![v].sync = "joining", ![v].joinNo = n,
                                             ![v].buffered = {}]
    BY <1>5 DEF Attempt
  <2> QED  BY <1>1, <1>3, <2>1 DEF Tabs
<1>6. CASE FetchRow(v)
  <2>1. tab' = [tab EXCEPT ![v] = [t EXCEPT !.sync = "reading", !.snap = Len(log),
                                            !.granted = Access(v) = "edit"]]
    BY <1>1, <1>6 DEF FetchRow
  <2> QED  BY <1>1, <1>3, <2>1 DEF Tabs
<1>7. CASE FetchCells(v)
  <2>1. tab' = [tab EXCEPT ![v] = [t EXCEPT !.sync = "mounting", !.cells = content]]
    BY <1>1, <1>7 DEF FetchCells
  <2> QED  BY <1>1, <1>3, <2>1 DEF Tabs
<1>8. CASE ReceiveChanged(v)
  <2>1. tab' = [tab EXCEPT ![v] = [t EXCEPT !.editable = Message(v).permission = "edit"]]
    BY <1>1, <1>8 DEF ReceiveChanged
  <2> QED  BY <1>1, <1>3, <2>1 DEF Tabs
<1>9. CASE TabConnects(v)
  <2>1. PICK x \in {t, [t EXCEPT !.sync = "due"], [t EXCEPT !.rerun = TRUE]} :
          tab' = [tab EXCEPT ![v] = x]
    BY <1>9 DEF TabConnects
  <2>2. Alike(x) /\ x.online = t.online  BY <1>1, <2>1 DEF Tabs
  <2> QED  BY <1>3, <2>1, <2>2
<1>10. CASE Mount(v)
  <2> DEFINE x == [t EXCEPT !.screen = Replay(t), !.buffered = {},
                            !.cells = [i \in Items |-> Blank],
                            !.editable = t.granted, !.rerun = FALSE,
                            !.sync = IF t.rerun THEN "due" ELSE "live",
                            !.first = @ \/ ~t.rerun]
  <2>1. tab' = [tab EXCEPT ![v] = x]  BY <1>1, <1>10 DEF Mount
  <2>2. Alike(x) /\ x.online = t.online  BY <1>1 DEF Tabs
  <2> HIDE DEF x, Alike
  <2> QED  BY <1>3, <2>1, <2>2
<1>11. CASE ReceiveOp(v)
  <2> DEFINE m == Message(v)
  <2>1. PICK x \in {t, [t EXCEPT !.screen[ItemOf[m.op]] = m.op],
                    [t EXCEPT !.buffered = @ \cup {m}]} :
          tab' = [tab EXCEPT ![v] = x]
    <3>1. CASE t.sync = "live"  BY <1>1, <1>11, <3>1 DEF ReceiveOp, ApplyOp
    <3>2. CASE t.sync \in {"off", "due", "revoked"}  BY <1>1, <1>11, <3>2 DEF ReceiveOp
    <3>3. CASE t.sync \notin {"live", "off", "due", "revoked"}
      BY <1>1, <1>11, <3>3 DEF ReceiveOp
    <3> QED  BY <3>1, <3>2, <3>3
  <2>2. Alike(x) /\ x.online = t.online
    <3> HIDE DEF m
    <3> QED  BY <1>1, <2>1 DEF Tabs
  <2> HIDE DEF Alike
  <2> QED  BY <1>3, <2>1, <2>2
<1>12. CASE ReceiveRevoked(v)
  <2> DEFINE x == [t EXCEPT !.shut = TRUE, !.online = FALSE]
  <2>1. tab' = [tab EXCEPT ![v] = x]  BY <1>1, <1>12 DEF ReceiveRevoked
  <2>2. x \in Tabs /\ FlagsOnly(t, x)  BY <1>1 DEF Tabs, FlagsOnly
  <2> HIDE DEF x
  <2> QED  BY <1>2, <2>1, <2>2, FlagsMove
<1>13. CASE ReceiveJoined(v)
  <2> DEFINE on == IF t.unsaved = << >> THEN "fetching" ELSE "draining"
             again == [t EXCEPT !.sync = "due", !.rerun = FALSE]
  <2>1. PICK x \in {t, [t EXCEPT !.online = TRUE, !.sync = on], [t EXCEPT !.sync = "due"],
                    [again EXCEPT !.shut = TRUE],
                    [t EXCEPT !.sync = "revoked", !.shut = TRUE, !.first = TRUE]} :
          tab' = [tab EXCEPT ![v] = x]
    BY <1>1, <1>13 DEF ReceiveJoined
  <2>2. on \in Phases  BY DEF Phases
  <2>3. x \in Tabs /\ Alike(x)
    <3> DEFINE Fits(y) == y \in Tabs /\ Alike(y)
    <3>1. Fits(t)  BY <1>1
    <3>2. Fits([t EXCEPT !.online = TRUE, !.sync = on])
      <4> HIDE DEF on
      <4> QED  BY <1>1, <2>2 DEF Tabs
    <3>3. Fits([t EXCEPT !.sync = "due"])  BY <1>1 DEF Tabs, Phases
    <3>4. Fits([again EXCEPT !.shut = TRUE])  BY <1>1 DEF Tabs, Phases
    <3>5. Fits([t EXCEPT !.sync = "revoked", !.shut = TRUE, !.first = TRUE])
      BY <1>1 DEF Tabs, Phases
    <3> HIDE DEF on, again, Alike, Fits
    <3>6. Fits(x)  BY <2>1, <3>1, <3>2, <3>3, <3>4, <3>5
    <3> QED  BY <3>6 DEF Fits
  <2>4. FlagsOnly(t, x)  BY <2>3 DEF FlagsOnly
  <2> QED  BY <1>2, <2>1, <2>3, <2>4, FlagsMove
<1> QED
  BY <1>4, <1>5, <1>6, <1>7, <1>8, <1>9, <1>10, <1>11, <1>12, <1>13 DEF ControllerStep

\* Sending, and what becomes of it.
LEMMA SenderKept ==
  ASSUME TabsTyped, NEW v \in Users, NEW u \in Users, SendHead(v) \/ PauseOver(v)
  PROVE  Kept(u)
<1>1. tab \in [Users -> Tabs] /\ tab[v] \in Tabs  BY DEF TabsTyped
<1>2. PICK s \in {"idle", "waiting"} :
        /\ tab' = [tab EXCEPT ![v].sender = s] /\ UNCHANGED <<fate, typed>>
        /\ \/ tab[v].sender = "pausing" /\ s = "idle"
           \/ /\ tab[v].sender = "idle" /\ s = "waiting" /\ tab[v].online
              /\ tab[v].unsaved # << >>
  BY DEF SendHead, PauseOver
<1> DEFINE x == [tab[v] EXCEPT !.sender = s]
<1>3. tab' = [tab EXCEPT ![v] = x]  BY <1>1, <1>2
<1>4. x \in Tabs /\ FlagsOnly(tab[v], x)
  <2>1. /\ x \in Tabs /\ x.unsaved = tab[v].unsaved /\ x.online = tab[v].online
        /\ x.sender = s
    BY <1>1 DEF Tabs
  <2> HIDE DEF x
  <2> QED  BY <1>2, <2>1 DEF FlagsOnly
<1> HIDE DEF x
<1> QED  BY <1>2, <1>3, <1>4, FlagsMove

\* The head is confirmed, refused, or given up, with the connection or without.
TellsHead(v, x, word) ==
  /\ tab[v].sender = "waiting" /\ tab[v].unsaved # << >>
  /\ tab' = [tab EXCEPT ![v] = x] /\ typed' = typed
  /\ fate' = [fate EXCEPT ![UnsavedHead(v)] = word]
  /\ x.sender = "idle" /\ x.unsaved = Tail(tab[v].unsaved)
  /\ \/ x.online = tab[v].online
     \/ word = "rejected" /\ x.online = FALSE

LEMMA ToldKept ==
  ASSUME TabsTyped, OrderInv, NEW v \in Users, NEW u \in Users, NEW x \in Tabs,
         NEW word \in {"confirmed", "rejected"}, TellsHead(v, x, word)
  PROVE  Kept(u)
<1>1. tab'[v] = x  BY DEF TabsTyped, TellsHead
<1>2. AuthorOf[UnsavedHead(v)] = v  BY HeadIsNext DEF OrderInv, TellsHead
<1>3. \A o \in Ops : fate'[o] = IF o = UnsavedHead(v) THEN word ELSE fate[o]
  BY DEF TabsTyped, TellsHead
<1>4. Kept(v)
  <2>1. \A o \in ChangesOf(v) : fate'[o] = IF o = UnsavedHead(v) THEN word ELSE fate[o]
    BY <1>3 DEF ChangesOf
  <2> QED  BY <1>1, <2>1, HeadIsTold DEF TellsHead
<1>5. \A o \in Ops : AuthorOf[o] # v => fate'[o] = fate[o]  BY <1>2, <1>3
<1> QED  BY <1>4, <1>5, OneQueueMoves DEF TellsHead

LEMMA RetryKept ==
  ASSUME TabsTyped, OrderInv, NEW v \in Users, NEW u \in Users, NEW x \in Tabs,
         tab[v].sender = "waiting", tab[v].unsaved # << >>, typed' = typed,
         x.unsaved = tab[v].unsaved, x.sender = "pausing", x.online = tab[v].online,
         RetryOrGiveUp(v, x)
  PROVE  Kept(u)
<1>1. tab[v] \in Tabs  BY DEF TabsTyped
<1>2. CASE tab' = [tab EXCEPT ![v] = x] /\ UNCHANGED fate
  BY <1>2, FlagsMove DEF FlagsOnly
<1>3. CASE /\ tab' = [tab EXCEPT ![v] = Settled(@)]
           /\ fate' = [fate EXCEPT ![UnsavedHead(v)] = "rejected"]
  <2> DEFINE y == Settled(tab[v])
  <2>1. y \in Tabs  BY <1>1, SettledTabs
  <2>2. y.unsaved = Tail(tab[v].unsaved) /\ y.sender = "idle" /\ y.online = tab[v].online
    BY <1>1, <2>1 DEF Settled, Tabs
  <2>3. tab' = [tab EXCEPT ![v] = y]  BY <1>3
  <2> HIDE DEF y
  <2>4. TellsHead(v, y, "rejected")  BY <1>3, <2>2, <2>3 DEF TellsHead
  <2> QED  BY <2>1, <2>4, ToldKept
<1> QED  BY <1>2, <1>3 DEF RetryOrGiveUp

LEMMA TimeoutKept ==
  ASSUME TabsTyped, SenderHasHead, OrderInv, NEW v \in Users, NEW u \in Users, AckTimeout(v)
  PROVE  Kept(u)
<1> DEFINE x == [tab[v] EXCEPT !.sender = "pausing", !.att = @ + 1]
<1>1. tab[v] \in Tabs /\ tab[v].sender = "waiting" /\ tab[v].unsaved # << >>
  BY DEF TabsTyped, SenderHasHead, AckTimeout
<1>2. /\ x \in Tabs /\ x.unsaved = tab[v].unsaved /\ x.sender = "pausing"
      /\ x.online = tab[v].online
  BY <1>1 DEF AckTimeout, Tabs
<1>3. RetryOrGiveUp(v, x) /\ typed' = typed  BY DEF AckTimeout
<1> HIDE DEF x
<1> QED  BY <1>1, <1>2, <1>3, RetryKept

LEMMA AckKept ==
  ASSUME TabsTyped, SenderHasHead, OrderInv, NEW v \in Users, NEW u \in Users, ReceiveAck(v)
  PROVE  Kept(u)
<1> DEFINE t == tab[v]
           m == Message(v)
           awaited == t.sender = "waiting" /\ m.op = UnsavedHead(v) /\ m.att = t.att
<1>1. /\ t \in Tabs /\ tab \in [Users -> Tabs] /\ typed' = typed
      /\ t.sender = "waiting" => t.unsaved # << >>
  BY DEF TabsTyped, SenderHasHead, ReceiveAck
<1> DEFINE y == Settled(t)
<1>2. t.unsaved # << >> =>
        /\ y \in Tabs /\ y.unsaved = Tail(t.unsaved) /\ y.sender = "idle"
        /\ y.online = t.online
  <2> SUFFICES ASSUME t.unsaved # << >>
               PROVE  /\ y \in Tabs /\ y.unsaved = Tail(t.unsaved) /\ y.sender = "idle"
                      /\ y.online = t.online
    OBVIOUS
  <2>1. y \in Tabs  BY <1>1, SettledTabs
  <2> QED  BY <1>1, <2>1 DEF Settled, Tabs
<1>3. CASE ~awaited
  <2>1. UNCHANGED <<tab, fate, typed>>  BY <1>3 DEF ReceiveAck
  <2> QED  BY <2>1, AloneQueue
<1>4. CASE awaited /\ m.code = "OK"
  <2>1. /\ tab' = [tab EXCEPT ![v] = y]
        /\ fate' = [fate EXCEPT ![UnsavedHead(v)] = "confirmed"]
    <3> HIDE DEF m
    <3> QED  BY <1>1, <1>4 DEF ReceiveAck, m
  <2> HIDE DEF y
  <2>2. TellsHead(v, y, "confirmed")  BY <1>1, <1>2, <1>4, <2>1 DEF TellsHead
  <2> QED  BY <1>1, <1>2, <1>4, <2>2, ToldKept
<1>5. CASE awaited /\ m.code = "NOT_JOINED"
  <2> DEFINE x == [t EXCEPT !.sender = "idle"]
  <2>1. x \in Tabs /\ x.unsaved = t.unsaved /\ x.online = t.online /\ x.sender = "idle"
    BY <1>1 DEF Tabs
  <2>2. tab' = [tab EXCEPT ![v] = x] /\ UNCHANGED fate  BY <1>1, <1>5 DEF ReceiveAck
  <2> HIDE DEF x
  <2>3. FlagsOnly(t, x)  BY <1>5, <2>1 DEF FlagsOnly
  <2> QED  BY <1>1, <2>1, <2>2, <2>3, FlagsMove
<1>6. CASE awaited /\ m.code \in {"SERVER_ERROR", "RATE_LIMITED"}
  <2> DEFINE x == [t EXCEPT !.sender = "pausing"]
  <2>1. x \in Tabs /\ x.unsaved = t.unsaved /\ x.online = t.online /\ x.sender = "pausing"
    BY <1>1 DEF Tabs
  <2>2. RetryOrGiveUp(v, x)  BY <1>6 DEF ReceiveAck
  <2> HIDE DEF x
  <2> QED  BY <1>1, <1>6, <2>1, <2>2, RetryKept
<1>7. CASE awaited /\ m.code \notin {"OK", "NOT_JOINED", "SERVER_ERROR", "RATE_LIMITED"}
  <2>1. /\ tab' = [tab EXCEPT ![v] = y]
        /\ fate' = [fate EXCEPT ![UnsavedHead(v)] = "rejected"]
    BY <1>1, <1>7 DEF ReceiveAck
  <2> HIDE DEF y
  <2>2. TellsHead(v, y, "rejected")  BY <1>1, <1>2, <1>7, <2>1 DEF TellsHead
  <2> QED  BY <1>1, <1>2, <1>7, <2>2, ToldKept
<1> QED  BY <1>3, <1>4, <1>5, <1>6, <1>7

\* What a connection that is lost leaves of a queue.
LEMMA CutQueue ==
  ASSUME NEW t \in Tabs
  PROVE  /\ Cut(t) \in Tabs /\ Cut(t).unsaved = t.unsaved /\ Cut(t).online = FALSE
         /\ Cut(t).sender = IF t.sender = "waiting" THEN "idle" ELSE t.sender
<1>1. Cut(t) \in Tabs  BY CutTabs
<1> QED  BY <1>1 DEF Cut, Tabs

LEMMA DisconnectKept ==
  ASSUME TabsTyped, SenderHasHead, OrderInv, NEW v \in Users, NEW u \in Users,
         TabDisconnects(v)
  PROVE  Kept(u)
<1>1. /\ tab[v] \in Tabs /\ typed' = typed
      /\ tab[v].sender = "waiting" => tab[v].unsaved # << >>
  BY DEF TabsTyped, SenderHasHead, TabDisconnects
<1>2. CASE tab' = [tab EXCEPT ![v] = Cut(@)] /\ UNCHANGED fate
  <2> DEFINE x == Cut(tab[v])
  <2>1. x \in Tabs /\ FlagsOnly(tab[v], x)  BY <1>1, CutQueue DEF FlagsOnly
  <2>2. tab' = [tab EXCEPT ![v] = x]  BY <1>2
  <2> HIDE DEF x
  <2> QED  BY <1>1, <1>2, <2>1, <2>2, FlagsMove
<1>3. CASE /\ tab[v].sender = "waiting"
           /\ tab' = [tab EXCEPT ![v] = Cut(Settled(@))]
           /\ fate' = [fate EXCEPT ![UnsavedHead(v)] = "rejected"]
  <2> DEFINE y == Settled(tab[v])
             x == Cut(y)
  <2>1. y \in Tabs  BY <1>1, <1>3, SettledTabs
  <2>2. y.unsaved = Tail(tab[v].unsaved) /\ y.sender = "idle"
    BY <1>1, <2>1 DEF Settled, Tabs
  <2>3. tab' = [tab EXCEPT ![v] = x]  BY <1>3
  <2> HIDE DEF y
  <2>4. x \in Tabs /\ x.unsaved = y.unsaved /\ x.online = FALSE /\ x.sender = "idle"
    BY <2>1, <2>2, CutQueue
  <2> HIDE DEF x
  <2>5. TellsHead(v, x, "rejected")  BY <1>1, <1>3, <2>2, <2>3, <2>4 DEF TellsHead
  <2> QED  BY <2>4, <2>5, ToldKept
<1> QED  BY <1>2, <1>3 DEF TabDisconnects

\* A restart: every connection is lost at once.
LEMMA RestartKept ==
  ASSUME TabsTyped, SenderHasHead, OrderInv, NEW u \in Users, TabsRestart
  PROVE  Kept(u)
<1> DEFINE after(t) == [t EXCEPT !.sync = IF @ \in {"fetching", "reading"} THEN "due" ELSE @]
<1>1. PICK G \in SUBSET {v \in Users : tab[v].sender = "waiting"} :
        /\ tab' = [v \in Users |-> after(Cut(IF v \in G THEN Settled(tab[v]) ELSE tab[v]))]
        /\ fate' = [o \in Ops |-> IF \E v \in G : UnsavedHead(v) = o THEN "rejected" ELSE fate[o]]
  BY DEF TabsRestart
<1>2. /\ tab[u] \in Tabs /\ typed' = typed /\ G \subseteq Users
      /\ \A v \in G : tab[v].sender = "waiting" /\ tab[v].unsaved # << >>
  BY DEF TabsTyped, SenderHasHead, TabsRestart
<1> DEFINE r == IF u \in G THEN Settled(tab[u]) ELSE tab[u]
<1>3. /\ r \in Tabs /\ r.unsaved = IF u \in G THEN Tail(tab[u].unsaved) ELSE tab[u].unsaved
      /\ r.sender = IF u \in G THEN "idle" ELSE tab[u].sender
  <2>1. CASE u \in G
    <3>1. Settled(tab[u]) \in Tabs  BY <1>2, <2>1, SettledTabs
    <3>2. /\ Settled(tab[u]).unsaved = Tail(tab[u].unsaved)
          /\ Settled(tab[u]).sender = "idle"
      BY <1>2, <3>1 DEF Settled, Tabs
    <3> QED  BY <2>1, <3>1, <3>2
  <2>2. CASE u \notin G  BY <1>2, <2>2
  <2> QED  BY <2>1, <2>2
<1>4. tab'[u] = after(Cut(r))  BY <1>1
<1> HIDE DEF r
<1>5. /\ tab'[u].unsaved = r.unsaved /\ tab'[u].online = FALSE
      /\ tab'[u].sender = IF r.sender = "waiting" THEN "idle" ELSE r.sender
  <2>1. /\ Cut(r) \in Tabs /\ Cut(r).unsaved = r.unsaved /\ Cut(r).online = FALSE
        /\ Cut(r).sender = IF r.sender = "waiting" THEN "idle" ELSE r.sender
    BY <1>3, CutQueue
  <2> DEFINE c == Cut(r)
  <2>2. tab'[u] = after(c)  BY <1>4
  <2> HIDE DEF c
  <2>3. after(c).unsaved = c.unsaved /\ after(c).online = c.online /\ after(c).sender = c.sender
    BY <2>1 DEF Tabs, c
  <2> QED  BY <2>1, <2>2, <2>3 DEF c
\* Only the user's own head can be among those that are given up.
<1>6. \A v \in G : AuthorOf[UnsavedHead(v)] = v
  BY <1>2, HeadIsNext DEF OrderInv
<1>7. \A o \in ChangesOf(u) :
        fate'[o] = IF u \in G /\ o = UnsavedHead(u) THEN "rejected" ELSE fate[o]
  BY <1>1, <1>6 DEF ChangesOf
<1>8. CASE u \in G
  BY <1>2, <1>3, <1>5, <1>7, <1>8, HeadIsTold
<1>9. CASE u \notin G
  <2>1. [o \in ChangesOf(u) |-> fate[o]]' = [o \in ChangesOf(u) |-> fate[o]]
    BY <1>7, <1>9 DEF ChangesOf
  <2>2. typed'[u] = typed[u] /\ tab'[u].unsaved = tab[u].unsaved  BY <1>2, <1>3, <1>5, <1>9
  <2>3. CASE tab[u].sender = "waiting"
    <3>1. Queue(u)!LetGo  BY <1>3, <1>5, <1>9, <2>1, <2>2, <2>3 DEF Queue!LetGo
    <3> QED  BY <3>1 DEF Kept, Queue!TabQueueNext
  <2>4. CASE tab[u].sender # "waiting"
    <3>1. Queue(u)!GoesOffline  BY <1>3, <1>5, <1>9, <2>1, <2>2, <2>4 DEF Queue!GoesOffline
    <3> QED  BY <3>1 DEF Kept, Queue!TabQueueNext
  <2> QED  BY <2>3, <2>4
<1> QED  BY <1>8, <1>9

LEMMA QueuesKept ==
  ASSUME SyncInv, OrderInv, [SyncNext]_syncVars, NEW u \in Users
  PROVE  Kept(u)
<1>1. TabsTyped /\ SenderHasHead /\ ServerTypeOK  BY DEF SyncInv, TabsInv, ServerInv
<1>2. CASE UNCHANGED tabVars
  BY <1>2, AloneQueue DEF tabVars
<1>3. UNCHANGED syncVars => UNCHANGED tabVars  BY DEF syncVars, tabVars
<1>4. CASE \E v \in Users, o \in Ops : Type(v, o)
  BY <1>1, <1>4, TypeKept
<1>5. CASE \E v \in Users : \/ Open(v) \/ TabConnects(v) \/ JoinTimeout(v) \/ ControllerStep(v)
  BY <1>1, <1>5, ControllerKept
<1>6. CASE \E v \in Users : QueueStep(v) \/ AckTimeout(v)
  BY <1>1, <1>6, SenderKept, AckKept, TimeoutKept DEF QueueStep
<1>7. CASE \E v \in Users : TabDisconnects(v)
  BY <1>1, <1>7, DisconnectKept
<1>8. CASE TabsRestart
  BY <1>1, <1>8, RestartKept
<1> QED
  BY <1>2, <1>3, <1>4, <1>5, <1>6, <1>7, <1>8 DEF SyncNext, SyncStep, UserStep, SyncFaults

\* In the whole, with the wire, the server and all that fails, each tab's queue does
\* what SaveQueue was shown to do: QueueKeepsItsPromise.
THEOREM EveryQueueKeepsItsPromise ==
  ASSUME NEW u \in Users PROVE SyncSpec => Queue(u)!TabQueueSpec
<1>1. SyncInit => Queue(u)!TabQueueInit
  BY DEF SyncInit, Queue!TabQueueInit, ChangesOf
<1>2. SyncInv /\ OrderInv /\ [SyncNext]_syncVars
        => [Queue(u)!TabQueueNext]_(Queue(u)!tabQueueVars)
  BY QueuesKept DEF Kept
<1> QED
  BY <1>1, <1>2, OrderInvariance, PTL DEF SyncSpec, Queue!TabQueueSpec

=============================================================================
