------------------------------ MODULE Meetings ------------------------------
(***************************************************************************)
(* ONE meeting: its rows as the REST handlers change them                  *)
(* (meetingService.js, meetingController.js) and its Socket.IO room (app.js,  *)
(* "meeting:join" and "meeting:leave").                                     *)
(*                                                                         *)
(* A browser may say that it joins or leaves whenever it likes: on its       *)
(* first visit, when it reconnects, on "meeting:removed" or "meeting:ended", *)
(* or late, from a session that is over.  The server has to keep out whoever *)
(* does not belong there.  The host moderates.  Roles, the chat, the media   *)
(* and what each screen shows change none of this state.                    *)
(***************************************************************************)
EXTENDS Presence, Sequences

CONSTANTS
  Host,     \* meetings.host_id
  MaxWire   \* bound: events of one tab on their way

ASSUME HostIsAUser == Host \in Users
ASSUME MaxWireType == MaxWire \in Nat

VARIABLES
  meeting,   \* the row in meetings
  part,      \* meeting_participants.status, or "none"
  asking,    \* POST /join of each person, between its queries
  ending,    \* endMeeting is between its two updates
  evicting,  \* people whose removal is written and whose sockets are not out yet
  wire,      \* events each tab has sent
  checked,   \* "meeting:join" handlers of each tab that were let in and go on
  room,      \* tabs in the meeting's room
  banned,    \* history: people who were removed or turned down
  overtaken  \* history: people a join of whom was under way when that was written

rowVars == <<meeting, part, asking, ending>>
roomVars == <<wire, checked, room>>
meetingVars == <<rowVars, evicting, roomVars, banned, overtaken>>

Statuses == {"none", "waiting", "admitted", "joined", "left", "removed", "rejected"}
Asking == [at : {"idle", "met", "seen"}, locked : BOOLEAN, row : Statuses]
NotAsking == [at |-> "idle", locked |-> FALSE, row |-> "none"]

\* isMeetingParticipant.
MayEnter(u) == u = Host \/ part[u] \in {"admitted", "joined"}

\* createMeeting.
MeetingInit ==
  /\ PresenceInit
  /\ meeting \in [status : {"scheduled", "live"}, approval : BOOLEAN, locked : {FALSE}]
  /\ part = [u \in Users |-> IF u = Host THEN "admitted" ELSE "none"]
  /\ asking = [u \in Users |-> NotAsking]
  /\ ending = FALSE /\ evicting = [u \in Users |-> "no"]
  /\ wire = [s \in Sockets |-> <<>>]
  /\ checked = [s \in Sockets |-> 0]
  /\ room = {} /\ banned = {} /\ overtaken = {}

-----------------------------------------------------------------------------
(* The rows.                                                               *)

SetStatus(new) == meeting' = [meeting EXCEPT !.status = new]
SetPart(u, new) == part' = [part EXCEPT ![u] = new]
OnlyRows == UNCHANGED <<presenceVars, evicting, roomVars, banned, overtaken>>

\* addParticipants, from createMeeting or updateMeeting.
Invite(u) ==
  /\ meeting.status = "scheduled" /\ part[u] = "none"
  /\ SetPart(u, "admitted")
  /\ UNCHANGED <<meeting, asking, ending>> /\ OnlyRows

\* startMeeting asks only who the host is.
StartMeeting ==
  /\ SetStatus("live")
  /\ UNCHANGED <<part, asking, ending>> /\ OnlyRows

ResumeMeeting ==
  /\ meeting.status = "ended" /\ SetStatus("live")
  /\ UNCHANGED <<part, asking, ending>> /\ OnlyRows

CancelMeeting ==
  /\ meeting.status = "scheduled" /\ SetStatus("cancelled")
  /\ UNCHANGED <<part, asking, ending>> /\ OnlyRows

SetMeetingLock(locked) ==
  /\ meeting' = [meeting EXCEPT !.locked = locked]
  /\ UNCHANGED <<part, asking, ending>> /\ OnlyRows

\* endMeeting: two updates, no transaction.
EndMeeting ==
  /\ ~ending /\ SetStatus("ended") /\ ending' = TRUE
  /\ UNCHANGED <<part, asking>> /\ OnlyRows

EndReleases ==
  /\ ending /\ ending' = FALSE
  /\ part' = [u \in Users |-> IF part[u] \in {"admitted", "joined"} THEN "left" ELSE part[u]]
  /\ UNCHANGED <<meeting, asking>> /\ OnlyRows

\* joinMeeting: the meeting is read, the password compared, the row read, written.
JoinReads(u) ==
  /\ asking[u].at = "idle" /\ meeting.status \notin {"cancelled", "ended"}
  /\ asking' = [asking EXCEPT ![u] = [at |-> "met", locked |-> meeting.locked, row |-> "none"]]
  /\ UNCHANGED <<meeting, part, ending>> /\ OnlyRows

JoinSeesRow(u) ==
  /\ asking[u].at = "met"
  /\ asking' = [asking EXCEPT ![u] =
       IF \/ part[u] \in {"removed", "rejected"}
          \/ asking[u].locked /\ part[u] = "none"
       THEN NotAsking
       ELSE [at |-> "seen", locked |-> FALSE, row |-> part[u]]]
  /\ UNCHANGED <<meeting, part, ending>> /\ OnlyRows

\* A row that was there becomes "joined", whatever it was and is by now; a new one waits
\* if the meeting wants it so.  An INSERT that finds a row fails.
JoinWrites(u) ==
  /\ asking[u].at = "seen"
  /\ asking' = [asking EXCEPT ![u] = NotAsking]
  /\ IF asking[u].row # "none" THEN SetPart(u, "joined")
     ELSE IF part[u] # "none" THEN part' = part
     ELSE SetPart(u, IF u # Host /\ meeting.approval THEN "waiting" ELSE "joined")
  /\ UNCHANGED <<meeting, ending>> /\ OnlyRows

LeaveMeeting(u) ==
  /\ part[u] \in {"admitted", "joined"} /\ SetPart(u, "left")
  /\ UNCHANGED <<meeting, asking, ending>> /\ OnlyRows

AdmitParticipant(u) ==
  /\ part[u] = "waiting" /\ SetPart(u, "admitted")
  /\ UNCHANGED <<meeting, asking, ending>> /\ OnlyRows

\* removeParticipant and rejectParticipant; the UPDATE may find nothing to change.
Removable(new) ==
  IF new = "removed" THEN {"admitted", "joined", "waiting"} ELSE {"waiting"}
RemoveWrites(u, new) ==
  /\ evicting[u] = "no"
  /\ evicting' = [evicting EXCEPT ![u] = new]
  /\ IF part[u] \in Removable(new)
     THEN /\ SetPart(u, new)
          /\ banned' = banned \cup {u}
          /\ overtaken' = IF asking[u].at = "seen" \/ \E s \in TabsOf(u) : checked[s] > 0
                          THEN overtaken \cup {u} ELSE overtaken
     ELSE UNCHANGED <<part, banned, overtaken>>
  /\ UNCHANGED <<meeting, asking, ending, presenceVars, roomVars>>

\* evictParticipantSockets, behind the queries of moderateParticipant.
Evict(u) ==
  /\ evicting[u] # "no" /\ evicting' = [evicting EXCEPT ![u] = "no"]
  /\ room' = room \ TabsOf(u)
  /\ UNCHANGED <<rowVars, presenceVars, wire, checked, banned, overtaken>>

-----------------------------------------------------------------------------
(* The room.                                                               *)

OnlyRoom == UNCHANGED <<rowVars, evicting, banned, overtaken>>

\* joinRoom, leaveSession, handleRemoved, handleSocketReconnect.
Says(s, event) ==
  /\ Connected(s) /\ Len(wire[s]) < MaxWire
  /\ wire' = [wire EXCEPT ![s] = Append(@, event)]
  /\ OnlyRoom /\ UNCHANGED <<presenceVars, checked, room>>

\* Events that arrive before the handlers are registered are nobody's.
EventIsLost(s) ==
  /\ conn[s] = "setup" /\ wire[s] # <<>>
  /\ wire' = [wire EXCEPT ![s] = Tail(@)]
  /\ OnlyRoom /\ UNCHANGED <<presenceVars, checked, room>>

Arrives(s, event) ==
  /\ Ready(s) /\ wire[s] # <<>> /\ Head(wire[s]) = event
  /\ wire' = [wire EXCEPT ![s] = Tail(@)]

\* A bug: the handler takes the browser's word for it.
JoinIsTrusted(s) ==
  /\ Arrives(s, "join")
  /\ checked' = [checked EXCEPT ![s] = @ + 1]
  /\ OnlyRoom /\ UNCHANGED <<presenceVars, room>>

\* "meeting:join" asks the database first.
MeetingJoinChecks(s) ==
  /\ Arrives(s, "join")
  /\ checked' = IF MayEnter(UserOf[s]) THEN [checked EXCEPT ![s] = @ + 1] ELSE checked
  /\ OnlyRoom /\ UNCHANGED <<presenceVars, room>>

MeetingJoins(s) ==
  /\ checked[s] > 0
  /\ checked' = [checked EXCEPT ![s] = @ - 1]
  /\ room' = room \cup {s}
  /\ OnlyRoom /\ UNCHANGED <<presenceVars, wire>>

\* "meeting:leave" awaits nothing, so it may pass a join that does.
MeetingLeaves(s) ==
  /\ Arrives(s, "leave")
  /\ room' = room \ {s}
  /\ OnlyRoom /\ UNCHANGED <<presenceVars, checked>>

\* The connection breaks, or the tab is closed: Socket.IO takes the socket out of its
\* rooms, and handlers of it that still run put it in none.
LosesConnection(s) ==
  /\ Disconnects(s)
  /\ wire' = [wire EXCEPT ![s] = <<>>]
  /\ checked' = [checked EXCEPT ![s] = 0]
  /\ room' = room \ {s}
  /\ OnlyRoom

ConnectsOrCloses(s) ==
  /\ Connects(s) \/ IsSetUp(s) \/ Closed(s)
  /\ UNCHANGED meetingVars

-----------------------------------------------------------------------------
RowStep(u) ==
  \/ Invite(u) \/ JoinReads(u) \/ JoinSeesRow(u) \/ JoinWrites(u) \/ LeaveMeeting(u)
  \/ AdmitParticipant(u) \/ Evict(u)
  \/ \E new \in {"removed", "rejected"} : RemoveWrites(u, new)

HostStep ==
  \/ StartMeeting \/ ResumeMeeting \/ CancelMeeting \/ EndMeeting \/ EndReleases
  \/ \E locked \in BOOLEAN : SetMeetingLock(locked)

TabStep(s) ==
  \/ \E event \in {"join", "leave"} : Says(s, event)
  \/ EventIsLost(s) \/ MeetingJoinChecks(s) \/ MeetingJoins(s) \/ MeetingLeaves(s)
  \/ LosesConnection(s) \/ ConnectsOrCloses(s)

MeetingNext ==
  HostStep \/ (\E u \in Users : RowStep(u)) \/ (\E s \in Sockets : TabStep(s))

MeetingSpec == MeetingInit /\ [][MeetingNext]_<<presenceVars, meetingVars>>

-----------------------------------------------------------------------------
MeetingTypeOK ==
  /\ PresenceTypeOK
  /\ meeting \in [status : {"scheduled", "live", "ended", "cancelled"}, approval : BOOLEAN,
                  locked : BOOLEAN]
  /\ part \in [Users -> Statuses] /\ asking \in [Users -> Asking]
  /\ ending \in BOOLEAN /\ evicting \in [Users -> {"no", "removed", "rejected"}]
  /\ wire \in [Sockets -> Seq({"join", "leave"})]
  /\ checked \in [Sockets -> Nat]
  /\ room \subseteq Sockets /\ banned \subseteq Users /\ overtaken \subseteq Users

\* The tabs of people who were removed or turned down, and put out, and are in the room.
BackIn(u) == IF u # Host /\ evicting[u] = "no" THEN room \cap TabsOf(u) ELSE {}

\* Whoever was removed or turned down, and put out, while no join of theirs, by POST or
\* by socket, had been let in and not carried out, never gets back: not by asking,
\* reconnecting or joining again, from no tab, whatever becomes of the meeting
\* (app.js: "Every handler re-verifies meeting access from the database itself").  A
\* join that was under way is not stopped: its answer is read before an await and used
\* after it, and a POST /join writes "joined" over the removal.
RemovedStayOut == \A u \in banned \ overtaken : BackIn(u) = {}
=============================================================================
