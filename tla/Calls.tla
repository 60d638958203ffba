------------------------------- MODULE Calls -------------------------------
(***************************************************************************)
(* Calls between two people: the relays of the Socket.IO server (app.js,     *)
(* "call:..." and "webrtc:...") and the phone in each tab's Chat page        *)
(* (Chat.jsx, callService.js).                                             *)
(*                                                                         *)
(* The server keeps nothing about a call.  Each event waits for the feature  *)
(* gate and for a query (verifyCallTarget), so that the events of one tab    *)
(* may pass each other, and goes to the whole personal room of the other     *)
(* person.  The events name people, never the call.  ICE candidates, the     *)
(* names, audio or video and the media streams are left out.                *)
(***************************************************************************)
EXTENDS Presence

CONSTANTS
  Nobody,
  MaxPresses   \* bound: buttons that are pressed

ASSUME MaxPressesType == MaxPresses \in Nat
ASSUME NobodyIsNoUser == Nobody \notin Users

VARIABLES
  chat,     \* tabs that show the Chat page: the only one that listens
  active,   \* activeCall: whom each tab is in a call with
  popup,    \* incomingCall: whose call rings there
  status,   \* callStatus
  peer,     \* tabs with a peerConnection
  line,     \* with whom that connection is established
  tasks,    \* handlers of each tab that wait for the microphone or for an offer to be made
  serving,  \* events the server has not passed on yet
  presses,  \* how often a button was pressed
  agreed    \* history: whom the person at each tab has dialled or accepted there

phoneVars == <<active, popup, status, peer, line>>
callVars == <<chat, phoneVars, tasks, serving, presses, agreed>>

\* `n` is the press that an event goes back to: it tells copies apart, no handler reads it.
\* What is emitted without a connection waits in the browser for the next; `gone` are
\* the events whose connection has ended since.
Event(type, s, u, n) == [type |-> type, by |-> s, to |-> u, n |-> n, gone |-> FALSE]
AtHandler(m) == m \in serving /\ (m.gone \/ Ready(m.by))

\* A handler of acceptIncomingCall or handleCallAccepted; `who` is told if it fails.
Task(for, u, who, n) == [for |-> for, to |-> u, who |-> who, n |-> n]

CallsInit ==
  /\ chat \in SUBSET Sockets
  /\ active = [s \in Sockets |-> Nobody] /\ popup = [s \in Sockets |-> Nobody]
  /\ status = [s \in Sockets |-> "idle"]
  /\ peer = {} /\ line = [s \in Sockets |-> Nobody]
  /\ tasks = [s \in Sockets |-> {}]
  /\ serving = {} /\ presses = 0
  /\ agreed = [s \in Sockets |-> {}]

\* In the tabs of S: the call is forgotten, cleanupCall closes the connection.
In(f, S, x) == [s \in Sockets |-> IF s \in S THEN x ELSE f[s]]
Forgets(S) ==
  /\ active' = In(active, S, Nobody) /\ status' = In(status, S, "idle")
  /\ peer' = peer \ S /\ line' = In(line, S, Nobody)

\* resetCallState.
Resets(S) == Forgets(S) /\ popup' = In(popup, S, Nobody)

-----------------------------------------------------------------------------
(* What people do.                                                         *)

Presses == presses < MaxPresses /\ presses' = presses + 1
Agrees(s, u) == agreed' = [agreed EXCEPT ![s] = @ \cup {u}]

\* startCall asks for callStatus only.
StartCall(s, u) ==
  /\ s \in chat /\ status[s] = "idle" /\ u # UserOf[s] /\ Presses
  /\ active' = [active EXCEPT ![s] = u] /\ status' = [status EXCEPT ![s] = "calling"]
  /\ serving' = serving \cup {Event("start", s, u, presses')}
  /\ Agrees(s, u)
  /\ UNCHANGED <<presenceVars, chat, popup, peer, line, tasks>>

\* acceptIncomingCall up to its await; the popup stays, and may be pressed again.
AcceptIncomingCall(s) ==
  /\ popup[s] # Nobody /\ Presses
  /\ tasks' = [tasks EXCEPT ![s] = @ \cup {Task("accept", popup[s], popup[s], presses')}]
  /\ Agrees(s, popup[s])
  /\ UNCHANGED <<presenceVars, chat, phoneVars, serving>>

\* The microphone is allowed: createPeerConnection closes the connection there was.
Accepts(s, p) ==
  /\ p \in tasks[s] /\ p.for = "accept"
  /\ tasks' = [tasks EXCEPT ![s] = @ \ {p}]
  /\ active' = [active EXCEPT ![s] = p.to] /\ popup' = [popup EXCEPT ![s] = Nobody]
  /\ status' = [status EXCEPT ![s] = "connecting"]
  /\ peer' = peer \cup {s} /\ line' = [line EXCEPT ![s] = Nobody]
  /\ serving' = serving \cup {Event("accept", s, p.to, p.n)}
  /\ UNCHANGED <<presenceVars, chat, presses, agreed>>

\* The same in handleCallAccepted, whatever became of the call; createOffer begins.
MakesOffer(s, p) ==
  /\ p \in tasks[s] /\ p.for = "accepted"
  /\ tasks' = [tasks EXCEPT ![s] = (@ \ {p}) \cup {Task("offer", p.to, p.who, p.n)}]
  /\ peer' = peer \cup {s} /\ line' = [line EXCEPT ![s] = Nobody]
  /\ UNCHANGED <<presenceVars, chat, active, popup, status, serving, presses, agreed>>

SendsOffer(s, p) ==
  /\ p \in tasks[s] /\ p.for = "offer" /\ s \in peer
  /\ tasks' = [tasks EXCEPT ![s] = @ \ {p}]
  /\ serving' = serving \cup {Event("offer", s, p.to, p.n)}
  /\ UNCHANGED <<presenceVars, chat, phoneVars, presses, agreed>>

\* The microphone is denied, or the connection was closed meanwhile.
TaskFails(s, p) ==
  /\ p \in tasks[s]
  /\ tasks' = [tasks EXCEPT ![s] = @ \ {p}]
  /\ serving' = serving \cup
       {Event(IF p.for = "accept" THEN "reject" ELSE "end", s, p.who, p.n)}
  /\ Resets({s})
  /\ UNCHANGED <<presenceVars, chat, presses, agreed>>

\* An active call goes on behind a status that says idle.
RejectIncomingCall(s) ==
  /\ popup[s] # Nobody /\ Presses
  /\ serving' = serving \cup {Event("reject", s, popup[s], presses')}
  /\ popup' = [popup EXCEPT ![s] = Nobody] /\ status' = [status EXCEPT ![s] = "idle"]
  /\ UNCHANGED <<presenceVars, chat, active, peer, line, tasks, agreed>>

EndActiveCall(s) ==
  /\ active[s] # Nobody /\ status[s] # "idle" /\ Presses
  /\ serving' = serving \cup {Event("end", s, active[s], presses')}
  /\ Resets({s})
  /\ UNCHANGED <<presenceVars, chat, tasks, agreed>>

OpensChat(s) ==
  /\ s \notin chat /\ chat' = chat \cup {s}
  /\ UNCHANGED <<presenceVars, phoneVars, tasks, serving, presses, agreed>>

\* Another page: the listeners and the call go; nothing is sent, the connection stays.
\* Bound: not while one of its handlers waits.
LeavesChat(s) ==
  /\ s \in chat /\ tasks[s] = {}
  /\ chat' = chat \ {s}
  /\ active' = [active EXCEPT ![s] = Nobody] /\ popup' = [popup EXCEPT ![s] = Nobody]
  /\ status' = [status EXCEPT ![s] = "idle"]
  /\ UNCHANGED <<presenceVars, peer, line, tasks, serving, presses, agreed>>

-----------------------------------------------------------------------------
(* The server passes an event on, and the phones that hear it.              *)

Hears(u) == PersonalRoom(u) \cap chat
InCall(m) == {t \in Hears(m.to) : active[t] # Nobody}
Passed(m) == serving' = serving \ {m}

\* call:unavailable, call:error and call:rejected end the call there is; a popup stays.
Answered(m) == {m.by} \cap (IF m.gone THEN {} ELSE chat)
CallFails(m) ==
  /\ Forgets(Answered(m)) /\ Passed(m)
  /\ UNCHANGED <<presenceVars, chat, popup, tasks, presses, agreed>>

Unavailable(m) ==
  /\ AtHandler(m) /\ m.type = "start" /\ online[m.to] = 0
  /\ CallFails(m)

\* A phone that is in a call or rings already turns a call down.
Rings(m) ==
  /\ AtHandler(m) /\ m.type = "start" /\ online[m.to] > 0
  /\ LET busy == {t \in Hears(m.to) : active[t] # Nobody \/ popup[t] # Nobody}
         free == Hears(m.to) \ busy
         back == {s \in Answered(m) : active[s] # Nobody} IN
       /\ popup' = In(popup, free, UserOf[m.by])
       /\ status' = In(In(status, free, "incoming"), back, "ringing")
       /\ serving' = (serving \ {m}) \cup
            {Event("reject", t, UserOf[m.by], m.n) : t \in busy}
  /\ UNCHANGED <<presenceVars, chat, active, peer, line, tasks, presses, agreed>>

\* "call:accept": every tab of that person in a call, whichever it is, asks for the
\* microphone to make an offer.
PassAccept(m) ==
  /\ AtHandler(m) /\ m.type = "accept" /\ m.to # UserOf[m.by]
  /\ status' = In(status, InCall(m), "connecting")
  /\ tasks' = [s \in Sockets |->
       IF s \in InCall(m)
       THEN tasks[s] \cup {Task("accepted", UserOf[m.by], active[s], m.n)} ELSE tasks[s]]
  /\ Passed(m)
  /\ UNCHANGED <<presenceVars, chat, active, popup, peer, line, presses, agreed>>

\* handleCallRejected and handleCallEnded ask nothing.
PassEnd(m) ==
  /\ AtHandler(m) /\ m.to # UserOf[m.by]
  /\ \/ m.type = "reject" /\ Forgets(Hears(m.to)) /\ popup' = popup
     \/ m.type = "end" /\ Resets(Hears(m.to))
  /\ Passed(m)
  /\ UNCHANGED <<presenceVars, chat, tasks, presses, agreed>>

\* A bug: a phone in a call takes any offer or answer for that of the other side.
AnySignal(m) == InCall(m)

\* handleWebRTCOffer and handleWebRTCAnswer ask who it is from.
Concerned(m) == {t \in InCall(m) : active[t] = UserOf[m.by]}

\* It is applied to the connection there is, or fails there: a failed offer is neither
\* answered nor told, and an answer without a connection looks connected.
PassSignal(m) ==
  /\ AtHandler(m) /\ m.type \in {"offer", "answer"} /\ m.to # UserOf[m.by]
  /\ \E done \in SUBSET (Concerned(m) \cap peer) :
       /\ line' = In(line, done, UserOf[m.by])
       /\ status' = In(status, IF m.type = "answer" THEN done \cup (Concerned(m) \ peer)
                                                    ELSE done, "connected")
       /\ serving' = (serving \ {m}) \cup
            {Event("answer", t, UserOf[m.by], m.n) : t \in {s \in done : m.type = "offer"}}
  /\ UNCHANGED <<presenceVars, chat, active, popup, peer, tasks, presses, agreed>>

\* The module is off, the person inactive, the query fails, the event goes to its own
\* sender or never reaches a handler.  Only a "start" may be answered.
Dropped(m) ==
  \/ AtHandler(m) /\ m.type = "start" /\ CallFails(m)
  \/ /\ m \in serving /\ Passed(m)
     /\ UNCHANGED <<presenceVars, chat, phoneVars, tasks, presses, agreed>>

CallerDisconnects(s) ==
  /\ Disconnects(s)
  /\ serving' = {IF m.by = s /\ Ready(s) THEN [m EXCEPT !.gone = TRUE] ELSE m : m \in serving}
  /\ UNCHANGED <<chat, phoneVars, tasks, presses, agreed>>

PhoneConnects(s) ==
  /\ Connects(s) \/ IsSetUp(s) \/ Closed(s)
  /\ UNCHANGED callVars

-----------------------------------------------------------------------------
PhoneStep(s) ==
  \/ AcceptIncomingCall(s) \/ RejectIncomingCall(s) \/ EndActiveCall(s) \/ OpensChat(s)
  \/ \E p \in tasks[s] : Accepts(s, p) \/ MakesOffer(s, p) \/ SendsOffer(s, p) \/ TaskFails(s, p)
  \/ \E u \in Users : StartCall(s, u)
RelayStep ==
  \E m \in serving :
    Unavailable(m) \/ Rings(m) \/ PassAccept(m) \/ PassEnd(m) \/ PassSignal(m)
Mishap ==
  \/ \E m \in serving : Dropped(m)
  \/ \E s \in Sockets : LeavesChat(s) \/ CallerDisconnects(s)
CallsNext ==
  \/ RelayStep \/ Mishap
  \/ \E s \in Sockets : PhoneStep(s) \/ PhoneConnects(s)

CallsSpec == PresenceInit /\ CallsInit /\ [][CallsNext]_<<presenceVars, callVars>>

-----------------------------------------------------------------------------
Anyone == Users \cup {Nobody}
Handlers == [for : {"accept", "accepted", "offer"}, to : Users, who : Users, n : 1..MaxPresses]
Events == [type : {"start", "accept", "reject", "end", "offer", "answer"}, by : Sockets,
           to : Users, n : 1..MaxPresses, gone : BOOLEAN]
CallsTypeOK ==
  /\ chat \subseteq Sockets /\ peer \subseteq Sockets
  /\ active \in [Sockets -> Anyone] /\ popup \in [Sockets -> Anyone]
  /\ line \in [Sockets -> Anyone]
  /\ status \in [Sockets -> {"idle", "calling", "ringing", "incoming", "connecting",
                             "connected"}]
  /\ tasks \in [Sockets -> SUBSET Handlers]
  /\ serving \subseteq Events
  /\ presses \in 0..MaxPresses
  /\ agreed \in [Sockets -> SUBSET Users]

\* Nobody is heard by somebody they did not choose: a tab's connection is established
\* only with a person whom its own person dialled or accepted there, though accepts come
\* late or to other tabs, offers are made to whoever accepted, and a manager's tab
\* hears the events of the reports (handleWebRTCOffer, handleWebRTCAnswer).
HeardByChoice == \A s \in Sockets : line[s] # Nobody => line[s] \in agreed[s]

\* A caller is told that somebody is offline only if no tab of theirs works, whatever
\* tabs of theirs came and went before ("call:start" and onlineUsers).
OfflineIsTrue ==
  [][\A m \in serving : Unavailable(m) => \A t \in TabsOf(m.to) : ~Ready(t)]_<<
     presenceVars, callVars>>
=============================================================================
