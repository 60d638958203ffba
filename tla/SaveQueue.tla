----------------------------- MODULE SaveQueue -----------------------------
(***************************************************************************)
(* The save queue of one editor tab (createSaveQueue, smartSheetSync.js):  *)
(* typed changes are sent one at a time, kept until the server confirms    *)
(* them, retried when an answer is missing or says "not now", and reported *)
(* when they are given up.                                                 *)
(*                                                                         *)
(* The server and the wire are an environment: any answer may come to the  *)
(* change that is on its way, or none before the acknowledgement times out *)
(* (emitWithAck, SmartSheetEditor.jsx).  A change that is too large to     *)
(* send is refused like one the server refuses.                            *)
(***************************************************************************)
EXTENDS Naturals, Sequences, SequencesExt

CONSTANTS
  Changes,              \* changes a user may type, each once
  MaxFailures,      \* maxTransportFailures: unanswered sends before giving up
  TransportRetries, \* transportRetryDelaysMs.length, per connection
  Retries,          \* retryDelaysMs.length, for SERVER_ERROR and CONFLICT
  RateRetries       \* MAX_RATE_LIMITED_RETRIES

ASSUME FailuresType == MaxFailures \in Nat \ {0}
ASSUME RetriesType ==
  TransportRetries \in Nat /\ Retries \in Nat /\ RateRetries \in Nat

VARIABLES
  queue,      \* the changes not yet settled, the one being sent at the head
  connected,  \* the flag setConnected sets
  runner,     \* run(): not running, awaiting an answer, or awaiting a delay
  spent,      \* the head's counters; every other change still has zeroes
  timer,      \* the last-resort timer is armed
  rejoining,  \* onNeedsRejoin's join is under way
  drain,      \* a whenDrained promise
  entered,      \* history: everything enqueued, in order
  outcome,    \* history: what became of each change
  reconnects  \* history: the changes a controlled reconnect was asked for

queueVars == <<queue, connected, runner, spent, timer, rejoining, drain, entered,
               outcome, reconnects>>

Fresh == [failures |-> 0, tries |-> 0, retries |-> 0, rate |-> 0]

QueueInit ==
  /\ queue = << >> /\ entered = << >>
  /\ connected = FALSE
  /\ runner = "idle"
  /\ spent = Fresh
  /\ timer = FALSE /\ rejoining = FALSE
  /\ drain = "none"
  /\ outcome = [o \in Changes |-> "none"]
  /\ reconnects = {}

----------------------------------------------------------------------------
(* run(): while something is queued and the connection is up, send the     *)
(* head; on the way out, arm the timer if anything is left and tell those  *)
(* who wait for an empty queue.                                            *)

\* A bug: the loop ends without arming the timer.
NeverArms(q, up, armed) ==
  /\ runner' = IF q # << >> /\ up THEN "waiting" ELSE "idle"
  /\ timer' = armed
  /\ drain' = IF q = << >> /\ drain = "waiting" THEN "drained" ELSE drain

\* A bug: the loop does not look at the connection.
LoopSendsOffline(q, up, armed) ==
  /\ runner' = IF q # << >> THEN "waiting" ELSE "idle"
  /\ timer' = (armed \/ (q # << >> /\ ~up))
  /\ drain' = IF q = << >> /\ drain = "waiting" THEN "drained" ELSE drain

LoopFrom(q, up, armed) ==
  /\ runner' = IF q # << >> /\ up THEN "waiting" ELSE "idle"
  /\ timer' = (armed \/ (q # << >> /\ ~up))
  /\ drain' = IF q = << >> /\ drain = "waiting" THEN "drained" ELSE drain

Loop(q, up) == LoopFrom(q, up, timer)

\* run() returns at once when another call of it is still awaiting something.
Run(q, up) == IF runner = "idle" THEN Loop(q, up) ELSE UNCHANGED <<runner, timer, drain>>

BreakUnarmed ==
  /\ runner' = "idle"
  /\ UNCHANGED <<queue, timer, drain, outcome>>

\* Leaving the loop with the head still queued.
Break ==
  /\ runner' = "idle"
  /\ timer' = TRUE
  /\ UNCHANGED <<queue, drain, outcome>>

PauseShifts ==
  /\ runner' = "pausing"
  /\ queue' = Tail(queue)
  /\ UNCHANGED <<timer, drain, outcome>>

Pause == runner' = "pausing" /\ UNCHANGED <<queue, timer, drain, outcome>>

\* The head is settled; the loop goes on with the next change.
Settle(result, up) ==
  /\ queue' = Tail(queue)
  /\ outcome' = [outcome EXCEPT ![Head(queue)] = result]
  /\ spent' = Fresh
  /\ Loop(Tail(queue), up)

----------------------------------------------------------------------------
Enqueue(o) ==
  /\ o \notin ToSet(entered)
  /\ entered' = Append(entered, o)
  /\ queue' = Append(queue, o)
  /\ Run(Append(queue, o), connected)
  /\ UNCHANGED <<connected, spent, rejoining, outcome, reconnects>>

\* A fresh connection: the backoff starts over, the failure count does not.
SetConnected ==
  /\ connected' = TRUE
  /\ spent' = [spent EXCEPT !.tries = 0]
  /\ Run(queue, TRUE)
  /\ UNCHANGED <<queue, rejoining, entered, outcome, reconnects>>

\* The server took the access away: nothing is sent, an answer may still come.
Revoked ==
  /\ connected' = FALSE
  /\ UNCHANGED <<queue, runner, spent, timer, rejoining, drain, entered, outcome,
                 reconnects>>

\* NETWORK: no answer, and the connection is or is not there to try again.  With the
\* program's limits, five failures and four delays, the last case never comes.
Unanswered(up) ==
  /\ runner = "waiting"
  /\ \/ /\ spent.failures + 1 >= MaxFailures
        /\ Settle("undelivered", up)
        /\ connected' = up
        /\ UNCHANGED reconnects
     \/ /\ spent.failures + 1 < MaxFailures
        /\ ~up
        /\ spent' = [spent EXCEPT !.failures = @ + 1]
        /\ connected' = FALSE
        /\ Break
        /\ UNCHANGED reconnects
     \/ /\ spent.failures + 1 < MaxFailures
        /\ up /\ spent.tries < TransportRetries
        /\ spent' = [spent EXCEPT !.failures = @ + 1, !.tries = @ + 1]
        /\ Pause
        /\ UNCHANGED <<connected, reconnects>>
     \/ /\ spent.failures + 1 < MaxFailures
        /\ up /\ spent.tries = TransportRetries
        /\ spent' = [spent EXCEPT !.failures = @ + 1, !.tries = 0]
        /\ reconnects' = reconnects \cup {Head(queue)}
        /\ connected' = FALSE
        /\ Break
  /\ UNCHANGED <<rejoining, entered>>

AnswerTimesOut == Unanswered(connected)

\* The disconnect event first clears the flag, then fails what was on its way.
ConnectionDrops ==
  \/ Unanswered(FALSE)
  \/ /\ runner # "waiting"
     /\ connected' = FALSE
     /\ UNCHANGED <<queue, runner, spent, timer, rejoining, drain, entered, outcome,
                    reconnects>>

Confirmed ==
  /\ runner = "waiting"
  /\ Settle("saved", connected)
  /\ UNCHANGED <<connected, rejoining, entered, reconnects>>

\* READ_ONLY, NOT_FOUND, SHEET_NOT_WRITABLE, a validation error, a full sheet.
Refused ==
  /\ runner = "waiting"
  /\ Settle("refused", connected)
  /\ UNCHANGED <<connected, rejoining, entered, reconnects>>

RateLimited ==
  /\ runner = "waiting"
  /\ \/ /\ spent.rate < RateRetries
        /\ spent' = [spent EXCEPT !.rate = @ + 1]
        /\ Pause
     \/ spent.rate = RateRetries /\ Settle("refused", connected)
  /\ UNCHANGED <<connected, rejoining, entered, reconnects>>

\* SERVER_ERROR or CONFLICT.
ServerError ==
  /\ runner = "waiting"
  /\ \/ /\ spent.retries < Retries
        /\ spent' = [spent EXCEPT !.retries = @ + 1]
        /\ Pause
     \/ spent.retries = Retries /\ Settle("refused", connected)
  /\ UNCHANGED <<connected, rejoining, entered, reconnects>>

NotJoined ==
  /\ runner = "waiting"
  /\ rejoining' = TRUE
  /\ Break
  /\ UNCHANGED <<connected, spent, entered, reconnects>>

\* The rejoin's answer; resume() runs the queue unless the join failed.
Rejoined(ok) ==
  /\ rejoining
  /\ rejoining' = FALSE
  /\ IF ok THEN Run(queue, connected) ELSE UNCHANGED <<runner, timer, drain>>
  /\ UNCHANGED <<queue, connected, spent, entered, outcome, reconnects>>

PauseEnds ==
  /\ runner = "pausing"
  /\ Loop(queue, connected)
  /\ UNCHANGED <<queue, connected, spent, rejoining, entered, outcome, reconnects>>

\* Firing disarms the timer; run() arms it again if it still cannot send.
IdleTimer ==
  /\ timer
  /\ IF runner = "idle" THEN LoopFrom(queue, connected, FALSE)
                        ELSE timer' = FALSE /\ UNCHANGED <<runner, drain>>
  /\ UNCHANGED <<queue, connected, spent, rejoining, entered, outcome, reconnects>>

WhenDrained ==
  /\ drain # "waiting"
  /\ drain' = IF queue = << >> THEN "drained" ELSE "waiting"
  /\ UNCHANGED <<queue, connected, runner, spent, timer, rejoining, entered, outcome,
                 reconnects>>

DrainTimesOut ==
  /\ drain = "waiting"
  /\ drain' = "timed out"
  /\ UNCHANGED <<queue, connected, runner, spent, timer, rejoining, entered, outcome,
                 reconnects>>

----------------------------------------------------------------------------
Answer ==
  Confirmed \/ Refused \/ RateLimited \/ ServerError \/ NotJoined \/ AnswerTimesOut

QueueNext ==
  \/ \E o \in Changes : Enqueue(o)
  \/ Answer
  \/ SetConnected \/ Revoked \/ ConnectionDrops
  \/ \E ok \in BOOLEAN : Rejoined(ok)
  \/ PauseEnds \/ IdleTimer \/ WhenDrained \/ DrainTimesOut

QueueSpec == QueueInit /\ [][QueueNext]_queueVars

\* Timers fire (the acknowledgement's own one included), a rejoin is answered,
\* and a lost connection comes back.
QueueFairness ==
  /\ WF_queueVars(AnswerTimesOut)
  /\ WF_queueVars(PauseEnds)
  /\ WF_queueVars(IdleTimer)
  /\ WF_queueVars(\E ok \in BOOLEAN : Rejoined(ok))
  /\ WF_queueVars(~connected /\ SetConnected)

FairQueueSpec == QueueSpec /\ QueueFairness

----------------------------------------------------------------------------
(* Properties.                                                             *)

\* Every variable keeps its shape; no counter passes its limit.
QueueTypeOK ==
  /\ queue \in Seq(Changes) /\ entered \in Seq(Changes)
  /\ connected \in BOOLEAN /\ timer \in BOOLEAN /\ rejoining \in BOOLEAN
  /\ runner \in {"idle", "waiting", "pausing"}
  /\ spent \in [failures : 0..(MaxFailures - 1), tries : 0..TransportRetries,
                retries : 0..Retries, rate : 0..RateRetries]
  /\ drain \in {"none", "waiting", "drained", "timed out"}
  /\ outcome \in [Changes -> {"none", "saved", "refused", "undelivered"}]
  /\ reconnects \subseteq Changes

\* Nothing typed is lost or overtaken: the queue is exactly the tail of what was
\* typed that is neither confirmed nor reported, in the order it was typed.
NothingOvertaken ==
  /\ Len(queue) <= Len(entered)
  /\ \A k \in DOMAIN entered :
       LET settled == Len(entered) - Len(queue) IN
         IF k <= settled THEN outcome[entered[k]] # "none"
                         ELSE /\ outcome[entered[k]] = "none"
                              /\ queue[k - settled] = entered[k]

\* NEVER STUCK, as a safety property: a queue at rest with something in it has a
\* timer that will wake it.
NeverUnattended == runner = "idle" /\ queue # << >> => timer

\* Every typed change is confirmed or reported in the end, unless the server goes
\* on for ever to answer that the sheet is not open (a rejoin has no limit).
EverySettles ==
  <>[][~NotJoined]_queueVars =>
    \A o \in Changes : (o \in ToSet(entered)) ~> (outcome[o] # "none")

\* What the rest of the system relies on is TabQueue: one change is on its way at a
\* time and only while the connection is up, the head stays the head until it is
\* confirmed or reported, and nobody is told twice.
ToldOf(o) ==
  CASE o \notin ToSet(entered) -> "untyped"
    [] o \in ToSet(entered) /\ outcome[o] = "none" -> "pending"
    [] o \in ToSet(entered) /\ outcome[o] = "saved" -> "confirmed"
    [] OTHER -> "rejected"

Promise == INSTANCE TabQueue WITH
  unsaved <- queue, online <- connected, sender <- runner, typed <- entered,
  fate <- [o \in Changes |-> ToldOf(o)]
KeepsItsPromise == Promise!TabQueueSpec
=============================================================================
