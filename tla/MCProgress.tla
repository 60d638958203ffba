----------------------------- MODULE MCProgress -----------------------------
(***************************************************************************)
(* Queues that must not come to a standstill, for TLC.  A behaviour is about *)
(* one of three machines, and the others rest in their initial state.       *)
(*   queue     SaveQueue by itself, with five failures and the two delays    *)
(*             of the repository's own test of the give-up (H4 in            *)
(*             _test_smart_sheets_resilience.js): with the program's four    *)
(*             no controlled reconnect would be seen (NeverReconnects).      *)
(*             Two retries stand for its three, and for its twenty repeats   *)
(*             of a rate-limited change.                                    *)
(*   tab       the whole of SmartSheetSync for one user with two changes     *)
(*   reminders the sweep over two companies with two tasks each; the first   *)
(*             task of each is due a day earlier, and may be edited          *)
(***************************************************************************)
EXTENDS SaveQueue, MCSmartSheetSync, NotificationSweep

CONSTANTS first, second

MCTenantOf == (1 :> 1) @@ (2 :> 1) @@ (3 :> 2) @@ (4 :> 2)
Dated == {1, 3}

VARIABLES scene, moves

\* Everything around the passes, and every company that fails, is a move.
Interruption ==
  \/ SweeperRestarts \/ DayPasses
  \/ \E t \in Dated, new \in [due : Days, open : BOOLEAN] : EditTodo(t, new)
  \/ \E c \in Tenants : ToggleServed(c)
  \/ \E p \in Passes : CompanyFails(p)
  \/ \E t \in Dated, type \in Types : DeletesReminder(t, type)
ReminderStep ==
  \/ (\E p \in Passes : PassStep(p)) /\ UNCHANGED moves
  \/ Interruption /\ moves' = moves + 1 /\ moves' <= 2

Queue(A) == scene = "queue" /\ A /\ UNCHANGED <<mcVars, sweepVars, scene, moves>>
Tab(A) == scene = "tab" /\ A /\ UNCHANGED <<queueVars, sweepVars, scene, moves>>
Reminders(A) == scene = "reminders" /\ A /\ UNCHANGED <<queueVars, mcVars, scene>>

ProgressInit ==
  /\ scene \in {"queue", "tab", "reminders"} /\ moves = 0
  /\ QueueInit /\ MCInit
  /\ SweepInit /\ \A t \in Todos : todo[t].due = IF t \in Dated THEN 0 ELSE 1
ProgressNext == Queue(QueueNext) \/ Tab(LiveNext) \/ Reminders(ReminderStep)

progressVars == <<queueVars, mcVars, sweepVars, scene, moves>>

\* The fairness of FairQueueSpec and of LiveSpec.
ProgressSpec ==
  /\ ProgressInit /\ [][ProgressNext]_progressVars
  /\ WF_queueVars(scene = "queue" /\ AnswerTimesOut)
  /\ WF_queueVars(scene = "queue" /\ PauseEnds)
  /\ WF_queueVars(scene = "queue" /\ IdleTimer)
  /\ WF_queueVars(scene = "queue" /\ \E ok \in BOOLEAN : Rejoined(ok))
  /\ WF_queueVars(scene = "queue" /\ ~connected /\ SetConnected)
  /\ WF_mcVars(scene = "tab" /\ ServerProgress /\ UNCHANGED faults)
  /\ \A u \in Users : /\ WF_mcVars(scene = "tab" /\ TabProgress(u) /\ UNCHANGED faults)
                      /\ WF_mcVars(scene = "tab" /\ TabConnects(u) /\ UNCHANGED faults)

\* One scene by itself.
RemindersSpec == ProgressInit /\ scene = "reminders" /\ [][ProgressNext]_progressVars
=============================================================================
