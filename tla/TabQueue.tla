------------------------------ MODULE TabQueue ------------------------------
(***************************************************************************)
(* What the save queue of one editor tab promises the rest of the system   *)
(* (smartSheetSync.js, the comment on createSaveQueue): changes are sent   *)
(* one at a time, in the order they were typed, only while the connection  *)
(* is up, and each is kept until it is confirmed or reported as lost.      *)
(*                                                                         *)
(* No answers, counters or timers here: SaveQueue has them, and the queues *)
(* inside SmartSheetSync have the wire.  Both implement this.  In both, a  *)
(* step that leaves something to send may begin to send it at once.        *)
(***************************************************************************)
EXTENDS Sequences

CONSTANT Changes  \* what may be typed in this tab, each once

VARIABLES
  unsaved,  \* the changes not yet settled, in order
  online,   \* the queue may send
  sender,   \* nothing under way, awaiting an answer, or awaiting a delay
  fate,     \* what the user has been told of each change
  typed     \* everything typed, in order

tabQueueVars == <<unsaved, online, sender, fate, typed>>

TabQueueInit ==
  /\ unsaved = << >> /\ typed = << >>
  /\ online = FALSE
  /\ sender = "idle"
  /\ fate = [o \in Changes |-> "untyped"]

\* The head of the queue is sent, or is left for later.
MaySend(q, up) == sender' = "idle" \/ (sender' = "waiting" /\ q # << >> /\ up)

MaySendIfIdle(q, up) == sender' = sender \/ (sender = "idle" /\ MaySend(q, up))

Type(o) ==
  /\ fate[o] = "untyped"
  /\ fate' = [fate EXCEPT ![o] = "pending"]
  /\ unsaved' = Append(unsaved, o)
  /\ typed' = Append(typed, o)
  /\ MaySendIfIdle(unsaved', online)
  /\ UNCHANGED online

Send ==
  /\ sender = "idle" /\ MaySend(unsaved, online)
  /\ UNCHANGED <<unsaved, online, fate, typed>>

ComesOnline ==
  /\ online' = TRUE
  /\ MaySendIfIdle(unsaved, TRUE)
  /\ UNCHANGED <<unsaved, fate, typed>>

\* The connection drops or the access is taken away; an answer may still come.
GoesOffline ==
  /\ online' = FALSE
  /\ UNCHANGED <<unsaved, sender, fate, typed>>

\* The head was answered: it is saved.
Confirm ==
  /\ sender = "waiting"
  /\ fate' = [fate EXCEPT ![Head(unsaved)] = "confirmed"]
  /\ unsaved' = Tail(unsaved)
  /\ MaySend(unsaved', online)
  /\ UNCHANGED <<online, typed>>

\* The head is refused or given up, perhaps because the connection dropped.
Report ==
  /\ sender = "waiting"
  /\ fate' = [fate EXCEPT ![Head(unsaved)] = "rejected"]
  /\ unsaved' = Tail(unsaved)
  /\ online' \in {online, FALSE}
  /\ MaySend(unsaved', online')
  /\ UNCHANGED typed

\* The head stays: it is sent again after a delay ...
PutOff ==
  /\ sender = "waiting"
  /\ sender' = "pausing"
  /\ UNCHANGED <<unsaved, online, fate, typed>>

Resume ==
  /\ sender = "pausing" /\ MaySend(unsaved, online)
  /\ UNCHANGED <<unsaved, online, fate, typed>>

\* ... or when something wakes the queue: a connection, a join, a timer.
LetGo ==
  /\ sender = "waiting"
  /\ sender' = "idle"
  /\ online' \in {online, FALSE}
  /\ UNCHANGED <<unsaved, fate, typed>>

TabQueueNext ==
  \/ \E o \in Changes : Type(o)
  \/ Send \/ ComesOnline \/ GoesOffline
  \/ Confirm \/ Report \/ PutOff \/ Resume \/ LetGo

TabQueueSpec == TabQueueInit /\ [][TabQueueNext]_tabQueueVars
=============================================================================
