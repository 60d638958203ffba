--------------------------- MODULE PresenceProofs ---------------------------
(***************************************************************************)
(* Proofs about Presence, Calls and Meetings, for any people and any number  *)
(* of tabs.                                                                *)
(***************************************************************************)
EXTENDS Calls, Meetings, FiniteSetTheorems, SequenceTheorems, TLAPS

ReadyOf(u) == {s \in TabsOf(u) : conn[s] \in {"ready", "watching"}}
BrokenOf(u) == {s \in TabsOf(u) : conn[s] = "broken"}
ClosingOf(u) == {s \in TabsOf(u) : s \in closing}

\* Every socket that is counted works, is being closed, or broke before its
\* handlers were there; those that broke and are not counted yet are still set up.
Counted ==
  \A u \in Users :
    /\ Cardinality(BrokenOf(u)) <= stuck[u]
    /\ online[u] + Cardinality(BrokenOf(u))
         = Cardinality(ReadyOf(u)) + Cardinality(ClosingOf(u)) + stuck[u]

PresenceInv == PresenceTypeOK /\ Counted

----------------------------------------------------------------------------
LEMMA TabsAreFinite ==
  ASSUME NEW u, NEW S \in SUBSET TabsOf(u)
  PROVE  IsFiniteSet(S) /\ Cardinality(S) \in Nat
<1>1. S \in SUBSET Sockets  BY DEF TabsOf
<1> QED  BY <1>1, SocketsAreFinite, FS_Subset, FS_CardinalityType

\* The sets that are counted: sets of the person's tabs.
LEMMA CountsAreNumbers ==
  ASSUME NEW u
  PROVE  /\ IsFiniteSet(ReadyOf(u)) /\ Cardinality(ReadyOf(u)) \in Nat
         /\ IsFiniteSet(BrokenOf(u)) /\ Cardinality(BrokenOf(u)) \in Nat
         /\ IsFiniteSet(ClosingOf(u)) /\ Cardinality(ClosingOf(u)) \in Nat
         /\ IsFiniteSet(ReadyOf(u)') /\ Cardinality(ReadyOf(u)') \in Nat
         /\ IsFiniteSet(BrokenOf(u)') /\ Cardinality(BrokenOf(u)') \in Nat
         /\ IsFiniteSet(ClosingOf(u)') /\ Cardinality(ClosingOf(u)') \in Nat
<1>1. /\ ReadyOf(u) \in SUBSET TabsOf(u) /\ ReadyOf(u)' \in SUBSET TabsOf(u)
      /\ BrokenOf(u) \in SUBSET TabsOf(u) /\ BrokenOf(u)' \in SUBSET TabsOf(u)
      /\ ClosingOf(u) \in SUBSET TabsOf(u) /\ ClosingOf(u)' \in SUBSET TabsOf(u)
  BY DEF ReadyOf, BrokenOf, ClosingOf, TabsOf
<1> QED  BY ONLY <1>1, TabsAreFinite

\* One more and one less.
LEMMA OneMore ==
  ASSUME NEW S, IsFiniteSet(S), NEW x, x \notin S, NEW T, T = S \cup {x}
  PROVE  Cardinality(T) = Cardinality(S) + 1
BY FS_AddElement

LEMMA OneLess ==
  ASSUME NEW S, IsFiniteSet(S), NEW x \in S, NEW T, T = S \ {x}
  PROVE  Cardinality(T) = Cardinality(S) - 1
BY FS_RemoveElement

----------------------------------------------------------------------------
LEMMA PresenceInvInit == PresenceInit => PresenceInv
<1> SUFFICES ASSUME PresenceInit PROVE PresenceInv  OBVIOUS
<1>1. PresenceTypeOK  BY MaxStuckType DEF PresenceInit, PresenceTypeOK
<1>2. Counted
  <2> SUFFICES ASSUME NEW u \in Users
               PROVE /\ Cardinality(BrokenOf(u)) <= stuck[u]
                     /\ online[u] + Cardinality(BrokenOf(u))
                          = Cardinality(ReadyOf(u)) + Cardinality(ClosingOf(u)) + stuck[u]
    BY DEF Counted
  <2>1. ReadyOf(u) = {} /\ BrokenOf(u) = {} /\ ClosingOf(u) = {}
    BY DEF PresenceInit, ReadyOf, BrokenOf, ClosingOf, TabsOf
  <2>2. online[u] = 0 /\ stuck[u] = 0  BY DEF PresenceInit
  <2> QED  BY <2>1, <2>2, FS_EmptySet
<1> QED  BY <1>1, <1>2 DEF PresenceInv

\* A step on a tab is of no account to anybody but the tab's person.
LEMMA OthersAreUntouched ==
  ASSUME NEW s \in Sockets, NEW u \in Users, UserOf[s] # u,
         \A t \in Sockets \ {s} : conn'[t] = conn[t] /\ (t \in closing' <=> t \in closing)
  PROVE  ReadyOf(u)' = ReadyOf(u) /\ BrokenOf(u)' = BrokenOf(u) /\ ClosingOf(u)' = ClosingOf(u)
BY DEF ReadyOf, BrokenOf, ClosingOf, TabsOf

LEMMA PresenceInvStep == PresenceInv /\ [PresenceNext]_presenceVars => PresenceInv'
<1> SUFFICES ASSUME PresenceInv, [PresenceNext]_presenceVars PROVE PresenceInv'  OBVIOUS
<1> USE DEF PresenceInv, PresenceTypeOK
<1>1. ASSUME NEW s \in Sockets, Connects(s), UserOf[s] \in Managers PROVE PresenceInv'
  <2>1. PresenceTypeOK'  BY <1>1, UserOfType DEF Connects
  <2>2. ASSUME NEW u \in Users
        PROVE ReadyOf(u)' = ReadyOf(u) /\ BrokenOf(u)' = BrokenOf(u) /\ ClosingOf(u)' = ClosingOf(u)
    BY <1>1 DEF Connects, ReadyOf, BrokenOf, ClosingOf, TabsOf
  <2> QED  BY <1>1, <2>1, <2>2 DEF Connects, Counted
<1>2. ASSUME NEW s \in Sockets, Connects(s), UserOf[s] \notin Managers PROVE PresenceInv'
  <2>1. PresenceTypeOK'  BY <1>2, UserOfType DEF Connects
  <2>2. ASSUME NEW u \in Users, UserOf[s] # u
        PROVE /\ ReadyOf(u)' = ReadyOf(u) /\ BrokenOf(u)' = BrokenOf(u)
              /\ ClosingOf(u)' = ClosingOf(u) /\ online'[u] = online[u] /\ stuck' = stuck
    BY <1>2, <2>2, UserOfType, OthersAreUntouched DEF Connects
  <2>3. ASSUME NEW u \in Users, UserOf[s] = u
        PROVE /\ ReadyOf(u)' = ReadyOf(u) \cup {s} /\ s \notin ReadyOf(u)
              /\ BrokenOf(u)' = BrokenOf(u) /\ ClosingOf(u)' = ClosingOf(u)
              /\ online'[u] = online[u] + 1 /\ stuck' = stuck
    BY <1>2, <2>3, UserOfType DEF Connects, ReadyOf, BrokenOf, ClosingOf, TabsOf
  <2>4. ASSUME NEW u \in Users, UserOf[s] = u
        PROVE Cardinality(ReadyOf(u)') = Cardinality(ReadyOf(u)) + 1
    BY <2>3, <2>4, OneMore, CountsAreNumbers
  <2> SUFFICES ASSUME NEW u \in Users
               PROVE /\ Cardinality(BrokenOf(u)') <= stuck'[u]
                     /\ online'[u] + Cardinality(BrokenOf(u)')
                          = Cardinality(ReadyOf(u)') + Cardinality(ClosingOf(u)') + stuck'[u]
    BY <2>1 DEF Counted
  <2>8. /\ Cardinality(BrokenOf(u)) <= stuck[u] /\ online[u] \in Nat /\ stuck[u] \in Nat
        /\ online[u] + Cardinality(BrokenOf(u))
             = Cardinality(ReadyOf(u)) + Cardinality(ClosingOf(u)) + stuck[u]
    BY DEF Counted
  <2>9. CASE UserOf[s] # u  BY <2>2, <2>8, <2>9
  <2>10. CASE UserOf[s] = u  BY <2>3, <2>4, <2>8, <2>10, CountsAreNumbers
  <2> QED  BY <2>9, <2>10
<1>3. ASSUME NEW s \in Sockets, IsSetUp(s), conn[s] = "setup" PROVE PresenceInv'
  <2>1. PresenceTypeOK'
    <3>1. /\ \E new \in {"ready", "watching"} : conn' = [conn EXCEPT ![s] = new]
          /\ UNCHANGED <<closing, stuck>>
          /\ online' = [online EXCEPT ![UserOf[s]] = @ + 1]
      BY <1>3 DEF IsSetUp
    <3>0. UserOf[s] \in Users /\ online[UserOf[s]] + 1 \in Nat  BY UserOfType
    <3>2. online' \in [Users -> Nat]  BY <3>0, <3>1
    <3>3. conn' \in [Sockets -> {"off", "setup", "broken", "ready", "watching"}]  BY <3>1
    <3> QED  BY <3>1, <3>2, <3>3
  <2>2. ASSUME NEW u \in Users, UserOf[s] # u
        PROVE /\ ReadyOf(u)' = ReadyOf(u) /\ BrokenOf(u)' = BrokenOf(u)
              /\ ClosingOf(u)' = ClosingOf(u) /\ online'[u] = online[u] /\ stuck' = stuck
    BY <1>3, <2>2, UserOfType, OthersAreUntouched DEF IsSetUp
  <2>3. ASSUME NEW u \in Users, UserOf[s] = u
        PROVE /\ ReadyOf(u)' = ReadyOf(u) \cup {s} /\ s \notin ReadyOf(u)
              /\ BrokenOf(u)' = BrokenOf(u) /\ ClosingOf(u)' = ClosingOf(u)
              /\ online'[u] = online[u] + 1 /\ stuck' = stuck
    BY <1>3, <2>3, UserOfType DEF IsSetUp, ReadyOf, BrokenOf, ClosingOf, TabsOf
  <2>4. ASSUME NEW u \in Users, UserOf[s] = u
        PROVE Cardinality(ReadyOf(u)') = Cardinality(ReadyOf(u)) + 1
    BY <2>3, <2>4, OneMore, CountsAreNumbers
  <2> SUFFICES ASSUME NEW u \in Users
               PROVE /\ Cardinality(BrokenOf(u)') <= stuck'[u]
                     /\ online'[u] + Cardinality(BrokenOf(u)')
                          = Cardinality(ReadyOf(u)') + Cardinality(ClosingOf(u)') + stuck'[u]
    BY <2>1 DEF Counted
  <2>8. /\ Cardinality(BrokenOf(u)) <= stuck[u] /\ online[u] \in Nat /\ stuck[u] \in Nat
        /\ online[u] + Cardinality(BrokenOf(u))
             = Cardinality(ReadyOf(u)) + Cardinality(ClosingOf(u)) + stuck[u]
    BY DEF Counted
  <2>9. CASE UserOf[s] # u  BY <2>2, <2>8, <2>9
  <2>10. CASE UserOf[s] = u  BY <2>3, <2>4, <2>8, <2>10, CountsAreNumbers
  <2> QED  BY <2>9, <2>10
<1>4. ASSUME NEW s \in Sockets, IsSetUp(s), conn[s] = "broken" PROVE PresenceInv'
  <2>1. PresenceTypeOK'
    <3>1. /\ conn' = [conn EXCEPT ![s] = "off"] /\ UNCHANGED <<closing, stuck>>
          /\ online' = [online EXCEPT ![UserOf[s]] = @ + 1]
      BY <1>4 DEF IsSetUp
    <3>0. UserOf[s] \in Users /\ online[UserOf[s]] + 1 \in Nat  BY UserOfType
    <3>2. online' \in [Users -> Nat]  BY <3>0, <3>1
    <3>3. conn' \in [Sockets -> {"off", "setup", "broken", "ready", "watching"}]  BY <3>1
    <3> QED  BY <3>1, <3>2, <3>3
  <2>2. ASSUME NEW u \in Users, UserOf[s] # u
        PROVE /\ ReadyOf(u)' = ReadyOf(u) /\ BrokenOf(u)' = BrokenOf(u)
              /\ ClosingOf(u)' = ClosingOf(u) /\ online'[u] = online[u] /\ stuck' = stuck
    BY <1>4, <2>2, UserOfType, OthersAreUntouched DEF IsSetUp
  <2>3. ASSUME NEW u \in Users, UserOf[s] = u
        PROVE /\ BrokenOf(u)' = BrokenOf(u) \ {s} /\ s \in BrokenOf(u)
              /\ ReadyOf(u)' = ReadyOf(u) /\ ClosingOf(u)' = ClosingOf(u)
              /\ online'[u] = online[u] + 1 /\ stuck' = stuck
    BY <1>4, <2>3, UserOfType DEF IsSetUp, ReadyOf, BrokenOf, ClosingOf, TabsOf
  <2>4. ASSUME NEW u \in Users, UserOf[s] = u
        PROVE Cardinality(BrokenOf(u)') = Cardinality(BrokenOf(u)) - 1
    BY <2>3, <2>4, OneLess, CountsAreNumbers
  <2> SUFFICES ASSUME NEW u \in Users
               PROVE /\ Cardinality(BrokenOf(u)') <= stuck'[u]
                     /\ online'[u] + Cardinality(BrokenOf(u)')
                          = Cardinality(ReadyOf(u)') + Cardinality(ClosingOf(u)') + stuck'[u]
    BY <2>1 DEF Counted
  <2>8. /\ Cardinality(BrokenOf(u)) <= stuck[u] /\ online[u] \in Nat /\ stuck[u] \in Nat
        /\ online[u] + Cardinality(BrokenOf(u))
             = Cardinality(ReadyOf(u)) + Cardinality(ClosingOf(u)) + stuck[u]
    BY DEF Counted
  <2>9. CASE UserOf[s] # u  BY <2>2, <2>8, <2>9
  <2>10. CASE UserOf[s] = u  BY <2>3, <2>4, <2>8, <2>10, CountsAreNumbers
  <2> QED  BY <2>9, <2>10
<1>5. ASSUME NEW s \in Sockets, Disconnects(s), Ready(s) PROVE PresenceInv'
  <2>0. /\ s \notin closing /\ conn' = [conn EXCEPT ![s] = "off"]
        /\ closing' = closing \cup {s} /\ UNCHANGED <<online, stuck>>
    BY <1>5 DEF Disconnects, Ready
  <2>1. PresenceTypeOK'  BY <2>0
  <2>2. ASSUME NEW u \in Users, UserOf[s] # u
        PROVE /\ ReadyOf(u)' = ReadyOf(u) /\ BrokenOf(u)' = BrokenOf(u)
              /\ ClosingOf(u)' = ClosingOf(u)
    BY <2>0, <2>2, OthersAreUntouched
  <2>3. ASSUME NEW u \in Users, UserOf[s] = u
        PROVE /\ ReadyOf(u)' = ReadyOf(u) \ {s} /\ s \in ReadyOf(u)
              /\ ClosingOf(u)' = ClosingOf(u) \cup {s} /\ s \notin ClosingOf(u)
              /\ BrokenOf(u)' = BrokenOf(u)
    BY <1>5, <2>0, <2>3 DEF Ready, ReadyOf, BrokenOf, ClosingOf, TabsOf
  <2>4. ASSUME NEW u \in Users, UserOf[s] = u
        PROVE /\ Cardinality(ReadyOf(u)') = Cardinality(ReadyOf(u)) - 1
              /\ Cardinality(ClosingOf(u)') = Cardinality(ClosingOf(u)) + 1
    BY <2>3, <2>4, OneLess, OneMore, CountsAreNumbers
  <2> SUFFICES ASSUME NEW u \in Users
               PROVE /\ Cardinality(BrokenOf(u)') <= stuck'[u]
                     /\ online'[u] + Cardinality(BrokenOf(u)')
                          = Cardinality(ReadyOf(u)') + Cardinality(ClosingOf(u)') + stuck'[u]
    BY <2>1 DEF Counted
  <2>8. /\ Cardinality(BrokenOf(u)) <= stuck[u] /\ online[u] \in Nat /\ stuck[u] \in Nat
        /\ online[u] + Cardinality(BrokenOf(u))
             = Cardinality(ReadyOf(u)) + Cardinality(ClosingOf(u)) + stuck[u]
    BY DEF Counted
  <2>9. CASE UserOf[s] # u  BY <2>0, <2>2, <2>8, <2>9
  <2>10. CASE UserOf[s] = u  BY <2>0, <2>3, <2>4, <2>8, <2>10, CountsAreNumbers
  <2> QED  BY <2>9, <2>10
<1>6. ASSUME NEW s \in Sockets, Disconnects(s), conn[s] = "setup" PROVE PresenceInv'
  <2>0. /\ stuck[UserOf[s]] < MaxStuck /\ conn' = [conn EXCEPT ![s] = "broken"]
        /\ stuck' = [stuck EXCEPT ![UserOf[s]] = @ + 1] /\ UNCHANGED <<online, closing>>
    BY <1>6 DEF Disconnects, Ready
  <2>1. PresenceTypeOK'
    <3>0. UserOf[s] \in Users /\ stuck[UserOf[s]] \in 0..MaxStuck  BY UserOfType
    <3>1. stuck[UserOf[s]] + 1 \in 0..MaxStuck  BY <2>0, <3>0, MaxStuckType
    <3>2. stuck' \in [Users -> 0..MaxStuck]  BY <2>0, <3>0, <3>1
    <3> QED  BY <2>0, <3>2
  <2>2. ASSUME NEW u \in Users, UserOf[s] # u
        PROVE /\ ReadyOf(u)' = ReadyOf(u) /\ BrokenOf(u)' = BrokenOf(u)
              /\ ClosingOf(u)' = ClosingOf(u) /\ stuck'[u] = stuck[u]
    BY <2>0, <2>2, UserOfType, OthersAreUntouched
  <2>3. ASSUME NEW u \in Users, UserOf[s] = u
        PROVE /\ BrokenOf(u)' = BrokenOf(u) \cup {s} /\ s \notin BrokenOf(u)
              /\ ReadyOf(u)' = ReadyOf(u) /\ ClosingOf(u)' = ClosingOf(u)
              /\ stuck'[u] = stuck[u] + 1
    BY <1>6, <2>0, <2>3 DEF ReadyOf, BrokenOf, ClosingOf, TabsOf
  <2>4. ASSUME NEW u \in Users, UserOf[s] = u
        PROVE Cardinality(BrokenOf(u)') = Cardinality(BrokenOf(u)) + 1
    BY <2>3, <2>4, OneMore, CountsAreNumbers
  <2> SUFFICES ASSUME NEW u \in Users
               PROVE /\ Cardinality(BrokenOf(u)') <= stuck'[u]
                     /\ online'[u] + Cardinality(BrokenOf(u)')
                          = Cardinality(ReadyOf(u)') + Cardinality(ClosingOf(u)') + stuck'[u]
    BY <2>1 DEF Counted
  <2>8. /\ Cardinality(BrokenOf(u)) <= stuck[u] /\ online[u] \in Nat /\ stuck[u] \in Nat
        /\ online[u] + Cardinality(BrokenOf(u))
             = Cardinality(ReadyOf(u)) + Cardinality(ClosingOf(u)) + stuck[u]
    BY DEF Counted
  <2>9. CASE UserOf[s] # u  BY <2>0, <2>2, <2>8, <2>9
  <2>10. CASE UserOf[s] = u  BY <2>0, <2>3, <2>4, <2>8, <2>10, CountsAreNumbers
  <2> QED  BY <2>9, <2>10
<1>7. ASSUME NEW s \in Sockets, Closed(s) PROVE PresenceInv'
  <2>2. ASSUME NEW u \in Users, UserOf[s] # u
        PROVE /\ ReadyOf(u)' = ReadyOf(u) /\ BrokenOf(u)' = BrokenOf(u)
              /\ ClosingOf(u)' = ClosingOf(u) /\ online'[u] = online[u] /\ stuck' = stuck
    BY <1>7, <2>2, UserOfType, OthersAreUntouched DEF Closed
  <2>3. ASSUME NEW u \in Users, UserOf[s] = u
        PROVE /\ ClosingOf(u)' = ClosingOf(u) \ {s} /\ s \in ClosingOf(u)
              /\ ReadyOf(u)' = ReadyOf(u) /\ BrokenOf(u)' = BrokenOf(u)
              /\ online'[u] = online[u] - 1 /\ stuck' = stuck
    BY <1>7, <2>3, UserOfType DEF Closed, ReadyOf, BrokenOf, ClosingOf, TabsOf
  <2>4. ASSUME NEW u \in Users, UserOf[s] = u
        PROVE Cardinality(ClosingOf(u)') = Cardinality(ClosingOf(u)) - 1
    BY <2>3, <2>4, OneLess, CountsAreNumbers
  <2>5. online[UserOf[s]] - 1 \in Nat
    BY <2>3, <2>4, UserOfType, CountsAreNumbers DEF Counted
  <2>1. PresenceTypeOK'  BY <1>7, <2>5, UserOfType DEF Closed
  <2> SUFFICES ASSUME NEW u \in Users
               PROVE /\ Cardinality(BrokenOf(u)') <= stuck'[u]
                     /\ online'[u] + Cardinality(BrokenOf(u)')
                          = Cardinality(ReadyOf(u)') + Cardinality(ClosingOf(u)') + stuck'[u]
    BY <2>1 DEF Counted
  <2>8. /\ Cardinality(BrokenOf(u)) <= stuck[u] /\ online[u] \in Nat /\ stuck[u] \in Nat
        /\ online[u] + Cardinality(BrokenOf(u))
             = Cardinality(ReadyOf(u)) + Cardinality(ClosingOf(u)) + stuck[u]
    BY DEF Counted
  <2>9. CASE UserOf[s] # u  BY <2>2, <2>8, <2>9
  <2>10. CASE UserOf[s] = u  BY <2>3, <2>4, <2>8, <2>10, CountsAreNumbers
  <2> QED  BY <2>9, <2>10
<1>8. CASE UNCHANGED presenceVars
  <2>1. \A u \in Users : /\ ReadyOf(u)' = ReadyOf(u) /\ BrokenOf(u)' = BrokenOf(u)
                         /\ ClosingOf(u)' = ClosingOf(u)
    BY <1>8 DEF presenceVars, ReadyOf, BrokenOf, ClosingOf
  <2> QED  BY <1>8, <2>1 DEF presenceVars, Counted
<1> QED
  BY <1>1, <1>2, <1>3, <1>4, <1>5, <1>6, <1>7, <1>8 DEF PresenceNext, IsSetUp, Disconnects, Ready

LEMMA PresenceInvHolds == PresenceSpec => []PresenceInv
BY PresenceInvInit, PresenceInvStep, PTL DEF PresenceSpec

\* The count of a person's sockets is a number, and every variable has its type,
\* in every reachable state: no disconnect takes away what was not counted.
THEOREM PresenceTypeCorrect == PresenceSpec => []PresenceTypeOK
<1>1. PresenceInv => PresenceTypeOK  BY DEF PresenceInv
<1> QED  BY <1>1, PresenceInvHolds, PTL

\* Who has a tab that works is online, and who is online without one lost a
\* connection while it was being set up, for any number of tabs (app.js, the
\* "connection" and "disconnect" handlers).
THEOREM PresenceIsTrue == PresenceSpec => []OnlineMeansConnected
<1>1. PresenceInv => OnlineMeansConnected
  <2> SUFFICES ASSUME PresenceInv, NEW u \in Users
               PROVE /\ (\E s \in TabsOf(u) : Ready(s)) => online[u] > 0
                     /\ online[u] > 0 =>
                          stuck[u] > 0 \/ (\E s \in TabsOf(u) : Ready(s) \/ s \in closing)
    BY DEF OnlineMeansConnected
  <2>1. /\ Cardinality(BrokenOf(u)) <= stuck[u]
        /\ online[u] + Cardinality(BrokenOf(u))
             = Cardinality(ReadyOf(u)) + Cardinality(ClosingOf(u)) + stuck[u]
        /\ online[u] \in Nat /\ stuck[u] \in Nat
    BY DEF PresenceInv, Counted, PresenceTypeOK
  <2>2. ASSUME NEW s \in TabsOf(u), Ready(s) PROVE Cardinality(ReadyOf(u)) # 0
    <3>1. ReadyOf(u) # {}  BY <2>2 DEF ReadyOf, Ready
    <3> QED  BY <3>1, CountsAreNumbers, FS_EmptySet
  <2>3. ASSUME ~\E s \in TabsOf(u) : Ready(s) \/ s \in closing
        PROVE Cardinality(ReadyOf(u)) = 0 /\ Cardinality(ClosingOf(u)) = 0
    <3>1. ReadyOf(u) = {} /\ ClosingOf(u) = {}  BY <2>3 DEF ReadyOf, ClosingOf, Ready
    <3> QED  BY <3>1, FS_EmptySet
  <2> QED  BY <2>1, <2>2, <2>3, CountsAreNumbers
<1> QED  BY <1>1, PresenceInvHolds, PTL

----------------------------------------------------------------------------
(* Calls.                                                                  *)

LEMMA EventsAreTyped ==
  ASSUME NEW type \in {"start", "accept", "reject", "end", "offer", "answer"},
         NEW s \in Sockets, NEW u \in Users, NEW n \in 1..MaxPresses
  PROVE  Event(type, s, u, n) \in Events
BY DEF Event, Events

LEMMA TasksAreTyped ==
  ASSUME NEW for \in {"accept", "accepted", "offer"}, NEW u \in Users, NEW v \in Users,
         NEW n \in 1..MaxPresses
  PROVE  Task(for, u, v, n) \in Handlers
BY DEF Task, Handlers

LEMMA ForgettingIsTyped ==
  ASSUME CallsTypeOK, NEW S, Forgets(S)
  PROVE  /\ active' \in [Sockets -> Anyone] /\ line' \in [Sockets -> Anyone]
         /\ status' \in [Sockets -> {"idle", "calling", "ringing", "incoming", "connecting",
                                     "connected"}]
         /\ peer' \subseteq Sockets
BY DEF CallsTypeOK, Forgets, In, Anyone

LEMMA ResettingIsTyped ==
  ASSUME CallsTypeOK, NEW S, Resets(S)
  PROVE  Forgets(S) /\ popup' \in [Sockets -> Anyone]
BY DEF CallsTypeOK, Resets, In, Anyone

LEMMA CallFailsIsTyped ==
  ASSUME CallsTypeOK, NEW m, CallFails(m)
  PROVE  CallsTypeOK'
<1>1. Forgets(Answered(m))  BY DEF CallFails
<1> QED  BY <1>1, ForgettingIsTyped DEF CallFails, Passed, CallsTypeOK

\* Whoever hears an event is a tab; who sent it is a person.
LEMMA EventsName ==
  ASSUME CallsTypeOK, NEW m \in serving
  PROVE  /\ m \in Events /\ m.by \in Sockets /\ m.to \in Users /\ m.n \in 1..MaxPresses
         /\ UserOf[m.by] \in Users /\ Hears(m.to) \subseteq Sockets
         /\ InCall(m) \subseteq Hears(m.to) /\ Concerned(m) \subseteq InCall(m)
         /\ \A t \in InCall(m) : active[t] \in Users
BY UserOfType DEF CallsTypeOK, Events, Hears, PersonalRoom, InCall, Concerned, Anyone

LEMMA CallsTypeStep == CallsTypeOK /\ [CallsNext]_<<presenceVars, callVars>> => CallsTypeOK'
<1> SUFFICES ASSUME CallsTypeOK, [CallsNext]_<<presenceVars, callVars>> PROVE CallsTypeOK'
  OBVIOUS
<1>0. ASSUME UNCHANGED callVars PROVE CallsTypeOK'
  BY <1>0 DEF callVars, phoneVars, CallsTypeOK
<1>1. ASSUME NEW s \in Sockets, NEW u \in Users, StartCall(s, u) PROVE CallsTypeOK'
  <2>1. presses' \in 1..MaxPresses
    BY <1>1, MaxPressesType DEF CallsTypeOK, StartCall, Presses
  <2>2. serving' \subseteq Events  BY <1>1, <2>1, EventsAreTyped DEF CallsTypeOK, StartCall
  <2> QED  BY <1>1, <2>1, <2>2 DEF CallsTypeOK, StartCall, Agrees, Anyone
<1>2. ASSUME NEW s \in Sockets, AcceptIncomingCall(s) PROVE CallsTypeOK'
  <2>1. popup[s] \in Users  BY <1>2 DEF CallsTypeOK, AcceptIncomingCall, Anyone
  <2>2. presses' \in 1..MaxPresses
    BY <1>2, MaxPressesType DEF CallsTypeOK, AcceptIncomingCall, Presses
  <2>3. tasks' \in [Sockets -> SUBSET Handlers]
    BY <1>2, <2>1, <2>2, TasksAreTyped DEF CallsTypeOK, AcceptIncomingCall
  <2> QED  BY <1>2, <2>1, <2>2, <2>3 DEF CallsTypeOK, AcceptIncomingCall, Agrees, phoneVars
<1>3. ASSUME NEW s \in Sockets, NEW p \in tasks[s], Accepts(s, p) PROVE CallsTypeOK'
  <2>1. p \in Handlers /\ p.to \in Users /\ p.n \in 1..MaxPresses  BY DEF CallsTypeOK, Handlers
  <2>2. serving' \subseteq Events
    BY <1>3, <2>1, EventsAreTyped DEF CallsTypeOK, Accepts
  <2>3. tasks' \in [Sockets -> SUBSET Handlers]  BY <1>3 DEF CallsTypeOK, Accepts
  <2> QED  BY <1>3, <2>1, <2>2, <2>3 DEF CallsTypeOK, Accepts, Anyone
<1>4. ASSUME NEW s \in Sockets, NEW p \in tasks[s], MakesOffer(s, p) PROVE CallsTypeOK'
  <2>1. p \in Handlers /\ p.to \in Users /\ p.who \in Users /\ p.n \in 1..MaxPresses
    BY DEF CallsTypeOK, Handlers
  <2>2. tasks' \in [Sockets -> SUBSET Handlers]
    BY <1>4, <2>1, TasksAreTyped DEF CallsTypeOK, MakesOffer
  <2> QED  BY <1>4, <2>2 DEF CallsTypeOK, MakesOffer, Anyone
<1>5. ASSUME NEW s \in Sockets, NEW p \in tasks[s], SendsOffer(s, p) PROVE CallsTypeOK'
  <2>1. p \in Handlers /\ p.to \in Users /\ p.n \in 1..MaxPresses  BY DEF CallsTypeOK, Handlers
  <2>2. serving' \subseteq Events
    BY <1>5, <2>1, EventsAreTyped DEF CallsTypeOK, SendsOffer
  <2>3. tasks' \in [Sockets -> SUBSET Handlers]  BY <1>5 DEF CallsTypeOK, SendsOffer
  <2> QED  BY <1>5, <2>2, <2>3 DEF CallsTypeOK, SendsOffer, phoneVars
<1>6. ASSUME NEW s \in Sockets, NEW p \in tasks[s], TaskFails(s, p) PROVE CallsTypeOK'
  <2>1. p \in Handlers /\ p.who \in Users /\ p.n \in 1..MaxPresses  BY DEF CallsTypeOK, Handlers
  <2>2. serving' \subseteq Events
    BY <1>6, <2>1, EventsAreTyped DEF CallsTypeOK, TaskFails
  <2>3. tasks' \in [Sockets -> SUBSET Handlers]  BY <1>6 DEF CallsTypeOK, TaskFails
  <2>4. Resets({s})  BY <1>6 DEF TaskFails
  <2> QED  BY <1>6, <2>2, <2>3, <2>4, ForgettingIsTyped, ResettingIsTyped
           DEF CallsTypeOK, TaskFails
<1>7. ASSUME NEW s \in Sockets, RejectIncomingCall(s) PROVE CallsTypeOK'
  <2>1. popup[s] \in Users  BY <1>7 DEF CallsTypeOK, RejectIncomingCall, Anyone
  <2>2. presses' \in 1..MaxPresses
    BY <1>7, MaxPressesType DEF CallsTypeOK, RejectIncomingCall, Presses
  <2>3. serving' \subseteq Events
    BY <1>7, <2>1, <2>2, EventsAreTyped DEF CallsTypeOK, RejectIncomingCall
  <2> QED  BY <1>7, <2>2, <2>3 DEF CallsTypeOK, RejectIncomingCall, Anyone
<1>8. ASSUME NEW s \in Sockets, EndActiveCall(s) PROVE CallsTypeOK'
  <2>1. active[s] \in Users  BY <1>8 DEF CallsTypeOK, EndActiveCall, Anyone
  <2>2. presses' \in 1..MaxPresses
    BY <1>8, MaxPressesType DEF CallsTypeOK, EndActiveCall, Presses
  <2>3. serving' \subseteq Events
    BY <1>8, <2>1, <2>2, EventsAreTyped DEF CallsTypeOK, EndActiveCall
  <2>4. Resets({s})  BY <1>8 DEF EndActiveCall
  <2> QED  BY <1>8, <2>2, <2>3, <2>4, ForgettingIsTyped, ResettingIsTyped
           DEF CallsTypeOK, EndActiveCall
<1>9. ASSUME NEW s \in Sockets, OpensChat(s) \/ LeavesChat(s) PROVE CallsTypeOK'
  BY <1>9 DEF CallsTypeOK, OpensChat, LeavesChat, phoneVars, Anyone
<1>10. ASSUME NEW s \in Sockets, CallerDisconnects(s) PROVE CallsTypeOK'
  <2>1. \A m \in Events : [m EXCEPT !.gone = TRUE] \in Events  BY DEF Events
  <2>2. \A e \in serving' : \E m \in serving : e = m \/ e = [m EXCEPT !.gone = TRUE]
    BY <1>10 DEF CallerDisconnects
  <2>3. serving' \subseteq Events  BY <2>1, <2>2 DEF CallsTypeOK
  <2> QED  BY <1>10, <2>3 DEF CallsTypeOK, CallerDisconnects, phoneVars
<1>11. ASSUME NEW m \in serving, Unavailable(m) PROVE CallsTypeOK'
  BY <1>11, CallFailsIsTyped DEF Unavailable
<1>12. ASSUME NEW m \in serving, Rings(m) PROVE CallsTypeOK'
  <2>1. serving' \subseteq Events
    BY <1>12, EventsName, EventsAreTyped DEF CallsTypeOK, Rings
  <2>2. popup' \in [Sockets -> Anyone]
    BY <1>12, EventsName DEF CallsTypeOK, Rings, In, Anyone
  <2>3. status' \in [Sockets -> {"idle", "calling", "ringing", "incoming", "connecting",
                                 "connected"}]
    BY <1>12 DEF CallsTypeOK, Rings, In
  <2> QED  BY <1>12, <2>1, <2>2, <2>3 DEF CallsTypeOK, Rings
<1>13. ASSUME NEW m \in serving, PassAccept(m) PROVE CallsTypeOK'
  <2>1. tasks' \in [Sockets -> SUBSET Handlers]
    BY <1>13, EventsName, TasksAreTyped DEF CallsTypeOK, PassAccept
  <2>2. status' \in [Sockets -> {"idle", "calling", "ringing", "incoming", "connecting",
                                 "connected"}]
    BY <1>13 DEF CallsTypeOK, PassAccept, In
  <2> QED  BY <1>13, <2>1, <2>2 DEF CallsTypeOK, PassAccept, Passed
<1>14. ASSUME NEW m \in serving, PassEnd(m) PROVE CallsTypeOK'
  <2>1. Forgets(Hears(m.to)) /\ popup' \in [Sockets -> Anyone]
    BY <1>14, ResettingIsTyped DEF PassEnd, CallsTypeOK
  <2> QED  BY <1>14, <2>1, ForgettingIsTyped DEF CallsTypeOK, PassEnd, Passed
<1>15. ASSUME NEW m \in serving, PassSignal(m) PROVE CallsTypeOK'
  <2>1. PICK done \in SUBSET (Concerned(m) \cap peer) :
          /\ line' = In(line, done, UserOf[m.by])
          /\ status' = In(status, IF m.type = "answer" THEN done \cup (Concerned(m) \ peer)
                                                       ELSE done, "connected")
          /\ serving' = (serving \ {m}) \cup
               {Event("answer", t, UserOf[m.by], m.n) : t \in {s \in done : m.type = "offer"}}
    BY <1>15 DEF PassSignal
  <2>2. line' \in [Sockets -> Anyone]
    BY <2>1, EventsName DEF CallsTypeOK, In, Anyone
  <2>3. status' \in [Sockets -> {"idle", "calling", "ringing", "incoming", "connecting",
                                 "connected"}]
    BY <2>1 DEF CallsTypeOK, In
  <2>4. serving' \subseteq Events
    BY <2>1, EventsName, EventsAreTyped DEF CallsTypeOK
  <2> QED  BY <1>15, <2>2, <2>3, <2>4 DEF CallsTypeOK, PassSignal
<1>16. ASSUME NEW m \in serving, Dropped(m) PROVE CallsTypeOK'
  BY <1>16, CallFailsIsTyped DEF Dropped, Passed, CallsTypeOK, phoneVars
<1> QED
  BY <1>0, <1>1, <1>2, <1>3, <1>4, <1>5, <1>6, <1>7, <1>8, <1>9, <1>10, <1>11, <1>12, <1>13,
     <1>14, <1>15, <1>16
  DEF CallsNext, RelayStep, Mishap, PhoneStep, PhoneConnects

LEMMA CallsTypeInit == CallsInit => CallsTypeOK
<1> SUFFICES ASSUME CallsInit PROVE CallsTypeOK
  OBVIOUS
<1>1. presses \in 0..MaxPresses  BY MaxPressesType DEF CallsInit
<1> QED  BY <1>1 DEF CallsInit, CallsTypeOK, Anyone

\* The phones of any number of people and tabs, the events on their way and the handlers
\* that wait keep their types.
THEOREM CallsTypeCorrect == CallsSpec => []CallsTypeOK
BY CallsTypeInit, CallsTypeStep, PTL DEF CallsSpec

----------------------------------------------------------------------------
(* Calls: nobody is heard by somebody they did not choose.                  *)

\* What the property rests on: a tab is in a call, or about to accept one, only with
\* whom its person dialled or accepted there.
CallsByChoice ==
  /\ \A s \in Sockets : active[s] # Nobody => active[s] \in agreed[s]
  /\ \A s \in Sockets : \A p \in tasks[s] : p.for = "accept" => p.to \in agreed[s]

ChoiceInv == CallsByChoice /\ HeardByChoice

\* What forgets calls, and agrees to none.
LEMMA ForgettingIsByChoice ==
  ASSUME CallsTypeOK, ChoiceInv, NEW S, Forgets(S), UNCHANGED agreed,
         \A s \in Sockets : \A p \in tasks'[s] : p.for = "accept" => p \in tasks[s]
  PROVE  ChoiceInv'
BY DEF CallsTypeOK, ChoiceInv, CallsByChoice, HeardByChoice, Forgets, In

LEMMA ChoiceStep ==
  CallsTypeOK /\ ChoiceInv /\ [CallsNext]_<<presenceVars, callVars>> => ChoiceInv'
<1> SUFFICES ASSUME CallsTypeOK, ChoiceInv, [CallsNext]_<<presenceVars, callVars>>
             PROVE  ChoiceInv'
  OBVIOUS
<1> USE DEF ChoiceInv, CallsByChoice, HeardByChoice
<1>0. ASSUME UNCHANGED <<active, line, agreed, tasks>> PROVE ChoiceInv'
  BY <1>0
<1>1. ASSUME NEW s \in Sockets, NEW u \in Users, StartCall(s, u) PROVE ChoiceInv'
  BY <1>1 DEF StartCall, Agrees, CallsTypeOK
<1>2. ASSUME NEW s \in Sockets, AcceptIncomingCall(s) PROVE ChoiceInv'
  BY <1>2 DEF AcceptIncomingCall, Agrees, Task, phoneVars, CallsTypeOK
<1>3. ASSUME NEW s \in Sockets, NEW p \in tasks[s], Accepts(s, p) PROVE ChoiceInv'
  BY <1>3 DEF Accepts, CallsTypeOK
<1>4. ASSUME NEW s \in Sockets, NEW p \in tasks[s], MakesOffer(s, p) PROVE ChoiceInv'
  BY <1>4 DEF MakesOffer, Task, CallsTypeOK
<1>5. ASSUME NEW s \in Sockets, NEW p \in tasks[s], SendsOffer(s, p) PROVE ChoiceInv'
  BY <1>5 DEF SendsOffer, phoneVars, CallsTypeOK
<1>6. ASSUME NEW s \in Sockets, NEW p \in tasks[s], TaskFails(s, p) PROVE ChoiceInv'
  BY <1>6, ForgettingIsByChoice DEF TaskFails, Resets, CallsTypeOK
<1>7. ASSUME NEW s \in Sockets, EndActiveCall(s) PROVE ChoiceInv'
  BY <1>7, ForgettingIsByChoice DEF EndActiveCall, Resets
<1>8. ASSUME NEW s \in Sockets, LeavesChat(s) PROVE ChoiceInv'
  BY <1>8 DEF LeavesChat, CallsTypeOK
<1>9. ASSUME NEW m \in serving, CallFails(m) PROVE ChoiceInv'
  BY <1>9, ForgettingIsByChoice DEF CallFails
<1>10. ASSUME NEW m \in serving, PassAccept(m) PROVE ChoiceInv'
  <2>1. \A s \in Sockets : \A p \in tasks'[s] : p.for = "accept" => p \in tasks[s]
    BY <1>10 DEF PassAccept, Task, CallsTypeOK
  <2> QED  BY <1>10, <2>1 DEF PassAccept
<1>11. ASSUME NEW m \in serving, PassEnd(m) PROVE ChoiceInv'
  BY <1>11, ForgettingIsByChoice DEF PassEnd, Resets
<1>12. ASSUME NEW m \in serving, PassSignal(m) PROVE ChoiceInv'
  <2>1. PICK done \in SUBSET (Concerned(m) \cap peer) : line' = In(line, done, UserOf[m.by])
    BY <1>12 DEF PassSignal
  <2>2. \A t \in done : t \in Sockets /\ active[t] = UserOf[m.by] /\ active[t] # Nobody
    BY EventsName, UserOfType, NobodyIsNoUser DEF Concerned, CallsTypeOK
  <2> QED  BY <1>12, <2>1, <2>2 DEF PassSignal, In, CallsTypeOK
<1> QED
  BY <1>0, <1>1, <1>2, <1>3, <1>4, <1>5, <1>6, <1>7, <1>8, <1>9, <1>10, <1>11, <1>12
  DEF CallsNext, RelayStep, Mishap, PhoneStep, PhoneConnects, OpensChat, CallerDisconnects,
      RejectIncomingCall, Unavailable, Rings, Dropped, callVars, phoneVars

\* For any people, tabs and managers, and however the events of their calls are delayed,
\* doubled or overtaken: a tab's connection is established only with a person whom its
\* own person dialled or accepted there.
THEOREM CallsAreHeardByChoice == CallsSpec => []HeardByChoice
<1>1. CallsInit => ChoiceInv
  BY DEF CallsInit, ChoiceInv, CallsByChoice, HeardByChoice
<1>2. CallsTypeOK /\ ChoiceInv /\ [CallsNext]_<<presenceVars, callVars>> => ChoiceInv'
  BY ChoiceStep
<1>3. ChoiceInv => HeardByChoice  BY DEF ChoiceInv
<1> QED  BY <1>1, <1>2, <1>3, CallsTypeCorrect, PTL DEF CallsSpec

\* The phones change nothing of who is online.
LEMMA CallsKeepPresence == CallsSpec => PresenceSpec
<1>1. [CallsNext]_<<presenceVars, callVars>> => [PresenceNext]_presenceVars
  <2> SUFFICES ASSUME [CallsNext]_<<presenceVars, callVars>>,
                      ~UNCHANGED presenceVars
               PROVE  PresenceNext
    OBVIOUS
  <2>1. \E s \in Sockets : CallerDisconnects(s) \/ PhoneConnects(s)
    BY DEF CallsNext, RelayStep, Mishap, PhoneStep, StartCall, AcceptIncomingCall, Accepts,
           MakesOffer, SendsOffer, TaskFails, RejectIncomingCall, EndActiveCall, OpensChat,
           LeavesChat, CallFails, Unavailable, Rings, PassAccept, PassEnd, PassSignal, Dropped
  <2> QED  BY <2>1 DEF CallerDisconnects, PhoneConnects, PresenceNext
<1> QED  BY <1>1, PTL DEF CallsSpec, PresenceSpec

\* For any number of tabs: whoever the server says is offline has no tab that works, in
\* all interleavings of calls, connections and late "disconnect" handlers.
THEOREM CalledIfConnected == CallsSpec => OfflineIsTrue
<1>1. CallsTypeOK /\ OnlineMeansConnected /\ [CallsNext]_<<presenceVars, callVars>>
        => [\A m \in serving : Unavailable(m) => \A t \in TabsOf(m.to) : ~Ready(t)]_<<
             presenceVars, callVars>>
  <2> SUFFICES ASSUME CallsTypeOK, OnlineMeansConnected, NEW m \in serving, Unavailable(m),
                      NEW t \in TabsOf(m.to)
               PROVE  ~Ready(t)
    OBVIOUS
  <2>1. m.to \in Users /\ online[m.to] = 0  BY EventsName DEF Unavailable
  <2> QED  BY <2>1 DEF OnlineMeansConnected
<1> QED
  BY <1>1, CallsTypeCorrect, CallsKeepPresence, PresenceIsTrue, PTL DEF CallsSpec, OfflineIsTrue

----------------------------------------------------------------------------
(* Meetings: types.                                                        *)

Signals == {"join", "leave"}

\* The parts of MeetingTypeOK: the rows, and what is live.
RowsTyped ==
  /\ meeting \in [status : {"scheduled", "live", "ended", "cancelled"}, approval : BOOLEAN,
                  locked : BOOLEAN]
  /\ part \in [Users -> Statuses] /\ asking \in [Users -> Asking]
  /\ ending \in BOOLEAN
LiveTyped ==
  /\ evicting \in [Users -> {"no", "removed", "rejected"}]
  /\ wire \in [Sockets -> Seq(Signals)]
  /\ checked \in [Sockets -> Nat]
  /\ room \subseteq Sockets /\ banned \subseteq Users /\ overtaken \subseteq Users

LEMMA MeetingTypes == MeetingTypeOK <=> PresenceTypeOK /\ RowsTyped /\ LiveTyped
BY DEF MeetingTypeOK, RowsTyped, LiveTyped, Signals

LEMMA MeetingInitTypes == MeetingInit => RowsTyped /\ LiveTyped
<1> SUFFICES ASSUME MeetingInit PROVE RowsTyped /\ LiveTyped  OBVIOUS
<1>1. NotAsking \in Asking  BY DEF NotAsking, Asking, Statuses
<1>2. <<>> \in Seq(Signals)  BY EmptySeq
<1> QED  BY <1>1, <1>2 DEF MeetingInit, RowsTyped, LiveTyped, Statuses

\* The steps that change rows and nothing else.
OnlyRowStep ==
  \/ StartMeeting \/ ResumeMeeting \/ CancelMeeting \/ EndMeeting \/ EndReleases
  \/ \E locked \in BOOLEAN : SetMeetingLock(locked)
  \/ \E u \in Users : \/ Invite(u) \/ JoinReads(u) \/ JoinSeesRow(u) \/ JoinWrites(u)
                      \/ LeaveMeeting(u) \/ AdmitParticipant(u)

\* Who was removed stays removed as long as no POST /join goes on that had seen another row.
RowsKeep(v) ==
  part[v] \in {"removed", "rejected"} /\ asking[v].at # "seen"
    => part'[v] = part[v] /\ asking'[v].at # "seen"

LEMMA RowsMove ==
  ASSUME RowsTyped, OnlyRowStep
  PROVE  RowsTyped' /\ OnlyRows /\ \A v \in Users : RowsKeep(v)
<1>1. NotAsking \in Asking /\ NotAsking.at # "seen"  BY DEF NotAsking, Asking, Statuses
<1>2. CASE \/ StartMeeting \/ ResumeMeeting \/ CancelMeeting \/ EndMeeting
           \/ \E locked \in BOOLEAN : SetMeetingLock(locked)
  BY <1>2 DEF StartMeeting, ResumeMeeting, CancelMeeting, EndMeeting, SetMeetingLock, SetStatus,
              RowsTyped, OnlyRows, RowsKeep
<1>3. CASE EndReleases
  BY <1>3 DEF EndReleases, RowsTyped, OnlyRows, RowsKeep, Statuses
<1>4. ASSUME NEW u \in Users, Invite(u) \/ LeaveMeeting(u) \/ AdmitParticipant(u)
      PROVE  RowsTyped' /\ OnlyRows /\ \A v \in Users : RowsKeep(v)
  BY <1>4 DEF Invite, LeaveMeeting, AdmitParticipant, SetPart, RowsTyped, OnlyRows, Statuses,
              RowsKeep
<1>5. ASSUME NEW u \in Users, JoinReads(u)
      PROVE  RowsTyped' /\ OnlyRows /\ \A v \in Users : RowsKeep(v)
  <2> DEFINE a == [at |-> "met", locked |-> meeting.locked, row |-> "none"]
  <2>1. a \in Asking /\ a.at # "seen"  BY DEF RowsTyped, Asking, Statuses
  <2>2. asking' = [asking EXCEPT ![u] = a]  BY <1>5 DEF JoinReads
  <2> HIDE DEF a
  <2> QED  BY <1>5, <2>1, <2>2 DEF JoinReads, RowsTyped, OnlyRows, RowsKeep
<1>6. ASSUME NEW u \in Users, JoinSeesRow(u)
      PROVE  RowsTyped' /\ OnlyRows /\ \A v \in Users : RowsKeep(v)
  <2> DEFINE a == [at |-> "seen", locked |-> FALSE, row |-> part[u]]
             gone == \/ part[u] \in {"removed", "rejected"}
                     \/ asking[u].locked /\ part[u] = "none"
  <2>1. a \in Asking  BY DEF RowsTyped, Asking
  <2>2. asking' = [asking EXCEPT ![u] = IF gone THEN NotAsking ELSE a]
    BY <1>6 DEF JoinSeesRow
  <2>3. part[u] \in {"removed", "rejected"} => gone  OBVIOUS
  <2> HIDE DEF a, gone
  <2>4. UNCHANGED <<meeting, part, ending>> /\ OnlyRows  BY <1>6 DEF JoinSeesRow
  <2>5. asking' \in [Users -> Asking]  BY <1>1, <2>1, <2>2 DEF RowsTyped
  <2>6. \A v \in Users : RowsKeep(v)
    BY <1>1, <2>2, <2>3, <2>4 DEF RowsTyped, RowsKeep
  <2> QED  BY <2>4, <2>5, <2>6 DEF RowsTyped
<1>7. ASSUME NEW u \in Users, JoinWrites(u)
      PROVE  RowsTyped' /\ OnlyRows /\ \A v \in Users : RowsKeep(v)
  BY <1>1, <1>7 DEF JoinWrites, SetPart, RowsTyped, OnlyRows, Statuses, RowsKeep
<1> QED  BY <1>2, <1>3, <1>4, <1>5, <1>6, <1>7 DEF OnlyRowStep

LEMMA MeetingStepTypes ==
  RowsTyped /\ LiveTyped /\ [MeetingNext]_<<presenceVars, meetingVars>> => RowsTyped' /\ LiveTyped'
<1> SUFFICES ASSUME RowsTyped, LiveTyped, [MeetingNext]_<<presenceVars, meetingVars>>
             PROVE  RowsTyped' /\ LiveTyped'
  OBVIOUS
<1>1. CASE OnlyRowStep
  BY <1>1, RowsMove DEF OnlyRows, roomVars, LiveTyped
<1>2. ASSUME NEW u \in Users, NEW new \in {"removed", "rejected"}, RemoveWrites(u, new)
      PROVE  RowsTyped' /\ LiveTyped'
  BY <1>2 DEF RemoveWrites, SetPart, roomVars, RowsTyped, LiveTyped, Statuses
<1>3. ASSUME NEW u \in Users, Evict(u) PROVE RowsTyped' /\ LiveTyped'
  BY <1>3 DEF Evict, rowVars, RowsTyped, LiveTyped
<1>4. ASSUME NEW s \in Sockets, NEW event \in Signals, Says(s, event)
      PROVE  RowsTyped' /\ LiveTyped'
  <2>1. Append(wire[s], event) \in Seq(Signals)
    BY AppendProperties DEF LiveTyped
  <2> QED  BY <1>4, <2>1 DEF Says, OnlyRoom, rowVars, RowsTyped, LiveTyped
<1>5. ASSUME NEW s \in Sockets, EventIsLost(s) \/ MeetingJoinChecks(s) \/ MeetingLeaves(s)
      PROVE  RowsTyped' /\ LiveTyped'
  <2>1. wire[s] # <<>> => Tail(wire[s]) \in Seq(Signals)
    BY HeadTailProperties DEF LiveTyped
  <2>2. CASE EventIsLost(s)
    BY <2>1, <2>2 DEF EventIsLost, OnlyRoom, rowVars, RowsTyped, LiveTyped
  <2>3. CASE MeetingJoinChecks(s)
    BY <2>1, <2>3 DEF MeetingJoinChecks, Arrives, OnlyRoom, rowVars, RowsTyped, LiveTyped
  <2>4. CASE MeetingLeaves(s)
    BY <2>1, <2>4 DEF MeetingLeaves, Arrives, OnlyRoom, rowVars, RowsTyped, LiveTyped
  <2> QED  BY <1>5, <2>2, <2>3, <2>4
<1>6. ASSUME NEW s \in Sockets, MeetingJoins(s) PROVE RowsTyped' /\ LiveTyped'
  BY <1>6 DEF MeetingJoins, OnlyRoom, rowVars, RowsTyped, LiveTyped
<1>7. ASSUME NEW s \in Sockets, LosesConnection(s) PROVE RowsTyped' /\ LiveTyped'
  BY <1>7, EmptySeq DEF LosesConnection, OnlyRoom, rowVars, RowsTyped, LiveTyped
<1>8. CASE UNCHANGED meetingVars
  BY <1>8 DEF meetingVars, rowVars, roomVars, RowsTyped, LiveTyped
<1> QED
  BY <1>1, <1>2, <1>3, <1>4, <1>5, <1>6, <1>7, <1>8
     DEF MeetingNext, HostStep, RowStep, TabStep, OnlyRowStep, ConnectsOrCloses, Signals

\* A meeting changes nothing of who is online.
LEMMA MeetingsKeepPresence == MeetingSpec => PresenceSpec
<1>1. MeetingInit => PresenceInit  BY DEF MeetingInit
<1>2. [MeetingNext]_<<presenceVars, meetingVars>> => [PresenceNext]_presenceVars
  <2> SUFFICES ASSUME [MeetingNext]_<<presenceVars, meetingVars>>, ~UNCHANGED presenceVars
               PROVE  PresenceNext
    OBVIOUS
  <2>1. \E s \in Sockets : ConnectsOrCloses(s) \/ LosesConnection(s)
    BY DEF MeetingNext, HostStep, RowStep, TabStep, StartMeeting, ResumeMeeting, CancelMeeting,
           EndMeeting, EndReleases, SetMeetingLock, Invite, JoinReads, JoinSeesRow, JoinWrites,
           LeaveMeeting, AdmitParticipant, Evict, RemoveWrites, OnlyRows, Says, EventIsLost,
           MeetingJoinChecks, MeetingJoins, MeetingLeaves
  <2> QED  BY <2>1 DEF ConnectsOrCloses, LosesConnection, PresenceNext
<1> QED  BY <1>1, <1>2, PTL DEF MeetingSpec, PresenceSpec

\* The rows of a meeting, its room and the histories keep their types, for any people and
\* any number of tabs.
THEOREM MeetingTypeCorrect == MeetingSpec => []MeetingTypeOK
<1>1. MeetingSpec => [](RowsTyped /\ LiveTyped)
  BY MeetingInitTypes, MeetingStepTypes, PTL DEF MeetingSpec
<1> QED  BY <1>1, MeetingTypes, MeetingsKeepPresence, PresenceTypeCorrect, PTL

-----------------------------------------------------------------------------
(* Meetings: who was removed stays out.                                    *)

\* Nobody who was removed is admitted again, has a POST /join that saw another row or a
\* "meeting:join" that was let in, or is in the room once put out.
Out(u) ==
  /\ part[u] \in {"removed", "rejected"} /\ asking[u].at # "seen"
  /\ \A s \in TabsOf(u) : checked[s] = 0
  /\ evicting[u] = "no" => room \cap TabsOf(u) = {}

OutInv ==
  RowsTyped /\ LiveTyped /\ \A u \in (banned \ overtaken) \ {Host} : Out(u)

LEMMA OutStep ==
  ASSUME OutInv, [MeetingNext]_<<presenceVars, meetingVars>>,
         NEW u \in (banned' \ overtaken') \ {Host}
  PROVE  Out(u)'
<1> DEFINE kept == u \in banned /\ u \notin overtaken /\ Out(u)
<1>t. u \in Users /\ \A s \in TabsOf(u) : s \in Sockets /\ UserOf[s] = u
  <2>1. RowsTyped' /\ LiveTyped'  BY MeetingStepTypes DEF OutInv
  <2> QED  BY <2>1 DEF LiveTyped, TabsOf
<1>k. banned' = banned /\ overtaken' = overtaken => kept  BY DEF OutInv
<1>0. \A s \in Sockets : UserOf[s] \in Users  BY UserOfType
<1>1. CASE OnlyRowStep
  <2>1. OnlyRows /\ RowsKeep(u)  BY <1>1, <1>t, RowsMove DEF OutInv
  <2> QED  BY <1>k, <2>1 DEF OnlyRows, roomVars, RowsKeep, Out, TabsOf
<1>2. ASSUME NEW v \in Users, NEW new \in {"removed", "rejected"}, RemoveWrites(v, new)
      PROVE  Out(u)'
  <2>1. UNCHANGED <<checked, room, asking>>  BY <1>2 DEF RemoveWrites, roomVars
  <2>2. CASE u = v
    <3>1. evicting'[u] # "no"  BY <1>2, <2>2 DEF RemoveWrites, OutInv, LiveTyped
    <3>2. CASE part[v] \in Removable(new)
      <4>1. part'[u] = new /\ ~(asking[u].at = "seen" \/ \E s \in TabsOf(u) : checked[s] > 0)
        BY <1>2, <2>2, <3>2, <1>t DEF RemoveWrites, SetPart, OutInv, RowsTyped
      <4>2. \A s \in TabsOf(u) : checked[s] = 0  BY <4>1, <1>t DEF OutInv, LiveTyped
      <4> QED  BY <2>1, <3>1, <4>1, <4>2 DEF Out, TabsOf
    <3>3. CASE part[v] \notin Removable(new)
      <4>1. kept /\ part' = part  BY <1>2, <1>k, <3>3 DEF RemoveWrites
      <4> QED  BY <2>1, <3>1, <4>1 DEF Out, TabsOf
    <3> QED  BY <3>2, <3>3
  <2>3. CASE u # v
    <3>1. part'[u] = part[u] /\ evicting'[u] = evicting[u]
      BY <1>2, <2>3, <1>t DEF RemoveWrites, SetPart, OutInv, RowsTyped, LiveTyped
    <3>2. u \in banned /\ u \notin overtaken  BY <1>2, <2>3 DEF RemoveWrites
    <3> QED  BY <2>1, <3>1, <3>2 DEF OutInv, Out, TabsOf
  <2> QED  BY <2>2, <2>3
<1>3. ASSUME NEW v \in Users, Evict(v) PROVE Out(u)'
  <2>1. kept /\ UNCHANGED <<part, asking, checked>> /\ room' = room \ TabsOf(v)
        /\ (u # v => evicting'[u] = evicting[u])
    BY <1>3, <1>k, <1>t DEF Evict, rowVars, OutInv, LiveTyped
  <2> QED  BY <2>1 DEF Out, TabsOf
<1>4. ASSUME NEW s \in Sockets,
             \/ \E event \in Signals : Says(s, event)
             \/ EventIsLost(s) \/ MeetingLeaves(s) \/ LosesConnection(s)
      PROVE  Out(u)'
  <2>1. kept /\ UNCHANGED <<part, asking, evicting>> /\ room' \subseteq room
    BY <1>4, <1>k
       DEF Says, EventIsLost, MeetingLeaves, LosesConnection, OnlyRoom, rowVars
  <2>2. \A t \in Sockets : checked[t] = 0 => checked'[t] = 0
    BY <1>4 DEF Says, EventIsLost, MeetingLeaves, LosesConnection, OutInv, LiveTyped
  <2> QED  BY <1>t, <2>1, <2>2 DEF Out, TabsOf
<1>5. ASSUME NEW s \in Sockets, MeetingJoinChecks(s) PROVE Out(u)'
  <2>1. kept /\ UNCHANGED <<part, asking, evicting, room>>
    BY <1>5, <1>k DEF MeetingJoinChecks, OnlyRoom, rowVars
  <2>2. ~MayEnter(u)  BY <2>1 DEF Out, MayEnter
  <2>3. \A t \in TabsOf(u) : checked'[t] = 0
    BY <1>5, <1>t, <2>1, <2>2 DEF MeetingJoinChecks, Out, OutInv, LiveTyped
  <2> QED  BY <2>1, <2>3 DEF Out, TabsOf
<1>6. ASSUME NEW s \in Sockets, MeetingJoins(s) PROVE Out(u)'
  <2>1. kept /\ UNCHANGED <<part, asking, evicting>> /\ room' = room \cup {s} /\ checked[s] > 0
    BY <1>6, <1>k DEF MeetingJoins, OnlyRoom, rowVars
  <2>2. s \notin TabsOf(u)  BY <2>1 DEF Out
  <2>3. \A t \in TabsOf(u) : checked'[t] = 0
    BY <1>6, <1>t, <2>1, <2>2 DEF MeetingJoins, Out, OutInv, LiveTyped
  <2> QED  BY <2>1, <2>2, <2>3 DEF Out, TabsOf
<1>7. CASE UNCHANGED meetingVars
  BY <1>7, <1>k DEF meetingVars, rowVars, roomVars, Out, TabsOf
<1> QED
  BY <1>1, <1>2, <1>3, <1>4, <1>5, <1>6, <1>7
     DEF MeetingNext, HostStep, RowStep, TabStep, OnlyRowStep, ConnectsOrCloses, Signals

\* For any people and any number of tabs: whoever is removed or turned down while no join of
\* theirs has been let in and not carried out never gets back into the meeting's room,
\* by no request, event or reconnect, and after no end or resumption of the meeting.
THEOREM RemovedNeverReturn == MeetingSpec => []RemovedStayOut
<1>1. MeetingInit => OutInv
  BY MeetingInitTypes DEF MeetingInit, OutInv
<1>2. OutInv /\ [MeetingNext]_<<presenceVars, meetingVars>> => OutInv'
  <2> SUFFICES ASSUME OutInv, [MeetingNext]_<<presenceVars, meetingVars>> PROVE OutInv'
    OBVIOUS
  <2>1. RowsTyped' /\ LiveTyped'  BY MeetingStepTypes DEF OutInv
  <2>2. \A u \in (banned' \ overtaken') \ {Host} : Out(u)'  BY OutStep
  <2> QED  BY <2>1, <2>2 DEF OutInv
<1>3. OutInv => RemovedStayOut  BY DEF OutInv, Out, RemovedStayOut, BackIn
<1> QED  BY <1>1, <1>2, <1>3, PTL DEF MeetingSpec
=============================================================================
