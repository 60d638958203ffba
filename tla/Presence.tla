------------------------------ MODULE Presence ------------------------------
(***************************************************************************)
(* The connections of one company's people to the Socket.IO server and the  *)
(* map of who is online (app.js, the "connection" and "disconnect"           *)
(* handlers).  onlineUsers maps a person to the ids of their sockets; an id  *)
(* is never used twice, so the size of the set is what is kept here.         *)
(*                                                                         *)
(* Every socket is in its person's own room.  A manager's socket is also put *)
(* in the rooms of the direct reports, for the changes of their shifts; what *)
(* is sent to a person's room reaches it too.                               *)
(***************************************************************************)
EXTENDS Naturals, FiniteSets

CONSTANTS
  Users,
  Sockets,     \* browser tabs; a tab that reconnects gets a new socket
  UserOf,      \* who signed in there
  Managers,    \* people whose direct reports are looked up when they connect
  Reports,     \* the direct reports of each manager
  MaxStuck     \* bound: connections that break while they are set up

ASSUME SocketsAreFinite == IsFiniteSet(Sockets)
ASSUME UserOfType == UserOf \in [Sockets -> Users]
ASSUME ManagersType == Managers \subseteq Users
ASSUME ReportsType == Reports \in [Managers -> SUBSET Users]
ASSUME MaxStuckType == MaxStuck \in Nat

VARIABLES
  conn,     \* each tab's present connection
  closing,  \* tabs whose last connection's "disconnect" handler has not run yet
  online,   \* onlineUsers: how many sockets each person has in it
  stuck     \* history: connections that broke before the handlers were there

presenceVars == <<conn, closing, online, stuck>>

Ready(s) == conn[s] \in {"ready", "watching"}
Connected(s) == Ready(s) \/ conn[s] = "setup"
TabsOf(u) == {s \in Sockets : UserOf[s] = u}

\* userRoom: u's own sockets, and those of a manager who watches u.
PersonalRoom(u) ==
  {s \in Sockets :
     \/ UserOf[s] = u /\ Connected(s)
     \/ conn[s] = "watching" /\ u \in Reports[UserOf[s]]}

PresenceInit ==
  /\ conn = [s \in Sockets |-> "off"]
  /\ closing = {}
  /\ online = [u \in Users |-> 0]
  /\ stuck = [u \in Users |-> 0]

\* Rooms are joined; a manager's direct reports are awaited before anything else.
Connects(s) ==
  /\ conn[s] = "off"
  /\ IF UserOf[s] \in Managers
     THEN conn' = [conn EXCEPT ![s] = "setup"] /\ online' = online
     ELSE /\ conn' = [conn EXCEPT ![s] = "ready"]
          /\ online' = [online EXCEPT ![UserOf[s]] = @ + 1]
  /\ UNCHANGED <<closing, stuck>>

\* The look-up returns, and the reports' rooms are joined, or it fails; the socket
\* is counted and its handlers registered.  It makes no difference to this code that
\* the connection is gone by now.
IsSetUp(s) ==
  /\ \/ /\ conn[s] = "setup"
        /\ \E new \in {"ready", "watching"} :
             /\ new = "watching" => Reports[UserOf[s]] # {}
             /\ conn' = [conn EXCEPT ![s] = new]
     \/ conn[s] = "broken" /\ conn' = [conn EXCEPT ![s] = "off"]
  /\ online' = [online EXCEPT ![UserOf[s]] = @ + 1]
  /\ UNCHANGED <<closing, stuck>>

\* The connection ends.  Nobody listens yet for the "disconnect" of one that is
\* being set up.
Disconnects(s) ==
  \/ /\ Ready(s) /\ s \notin closing
     /\ conn' = [conn EXCEPT ![s] = "off"]
     /\ closing' = closing \cup {s}
     /\ UNCHANGED <<online, stuck>>
  \/ /\ conn[s] = "setup" /\ stuck[UserOf[s]] < MaxStuck
     /\ conn' = [conn EXCEPT ![s] = "broken"]
     /\ stuck' = [stuck EXCEPT ![UserOf[s]] = @ + 1]
     /\ UNCHANGED <<closing, online>>

\* A bug: the first tab to close takes the person offline.
ClosedTakesAll(s) ==
  /\ s \in closing
  /\ closing' = closing \ {s}
  /\ online' = [online EXCEPT ![UserOf[s]] = 0]
  /\ UNCHANGED <<conn, stuck>>

\* The "disconnect" handler, behind the checks of the socket's earlier events.
Closed(s) ==
  /\ s \in closing
  /\ closing' = closing \ {s}
  /\ online' = [online EXCEPT ![UserOf[s]] = @ - 1]
  /\ UNCHANGED <<conn, stuck>>

PresenceNext ==
  \E s \in Sockets : Connects(s) \/ IsSetUp(s) \/ Disconnects(s) \/ Closed(s)

PresenceSpec == PresenceInit /\ [][PresenceNext]_presenceVars

PresenceTypeOK ==
  /\ conn \in [Sockets -> {"off", "setup", "broken", "ready", "watching"}]
  /\ closing \subseteq Sockets
  /\ online \in [Users -> Nat]
  /\ stuck \in [Users -> 0..MaxStuck]

\* Who has a tab that works is online, whatever other tabs of the same person come
\* and go; and who is online without one lost a connection while it was
\* being set up ("Only mark offline when ALL tabs/devices disconnect").
OnlineMeansConnected ==
  \A u \in Users :
    /\ (\E s \in TabsOf(u) : Ready(s)) => online[u] > 0
    /\ online[u] > 0 =>
         stuck[u] > 0 \/ (\E s \in TabsOf(u) : Ready(s) \/ s \in closing)
=============================================================================
