-------------------------- MODULE MCSmartSheetSync --------------------------
(***************************************************************************)
(* Instances of SmartSheetSync for TLC: ann and bob with ann's a1 and a2   *)
(* and bob's b1, all in one cell.  What goes wrong is counted, and each    *)
(* specification says what may.                                            *)
(***************************************************************************)
EXTENDS SmartSheetSync, TLC

CONSTANTS ann, bob, a1, a2, b1, cell, MaxFaults

VARIABLE faults   \* how often something has gone wrong

mcVars == <<syncVars, faults>>

MCItemOf == [o \in Ops |-> cell]
MCAuthorOf == [o \in Ops |-> IF o = b1 THEN bob ELSE ann]

MCInit == SyncInit /\ faults = 0

\* A join whose queries fail is a fault like the others (ServerStep has it too).
SmoothServerStep ==
  \/ \E u \in Users : Arrival(u)
  \/ \E j \in joining : JoinStep(j)
  \/ \E i \in DOMAIN line : OpStep(i)
  \/ \E e \in evicting : Evict(e)

Going ==
  /\ \/ \E u \in Users : QueueStep(u) \/ ControllerStep(u)
     \/ SmoothServerStep /\ UNCHANGED tabVars
     \/ UserStep
  /\ UNCHANGED faults

Fault(F) == faults < MaxFaults /\ F /\ faults' = faults + 1

\* A connect is ignored until the first synchronisation is done (FirstSpec shows
\* what comes of it); the runs that hold begin after that.
LoadedOrJoining ==
  \A u \in Users : tab[u].first \/ tab[u].sync \in {"off", "due", "joining"}

\* The connection of a tab drops.
DropNext ==
  \/ Going
  \/ \E u \in Users : Fault(tab[u].first /\ TabDisconnects(u))

\* What another admin may do about ann.
ManagesAnn ==
  \/ Unassign(ann) \/ \E p \in {"view", "edit"} : Assign(ann, p)
  \/ \E s \in {"active", "archived", "deleted"} : SetStatus(s)
  \/ \E a \in Accounts : SetAccount(ann, a)

\* The same under an admin who changes what ann may do, archives, reopens or
\* deletes the sheet, and a server that restarts or forgets an opId.
TroubledNext ==
  \/ DropNext
  \/ Fault(LoadedOrJoining /\ TabsRestart)
  \/ \E o \in Ops : Fault(Forget(o) /\ UNCHANGED tabVars)
  \/ Fault(ManagesAnn /\ UNCHANGED tabVars)

DropSpec == MCInit /\ [][DropNext]_mcVars
TroubledSpec == MCInit /\ [][TroubledNext]_mcVars

\* Everything that may fail does, until it has failed MaxFaults times; everything
\* else goes on.  A restart or a drop brings a reconnect with it.
LiveNext ==
  \/ UNCHANGED faults /\ (UserStep \/ ServerProgress \/ \E u \in Users : TabProgress(u))
  \/ Fault(LoadedOrJoining /\ TabsRestart)
  \/ \E u \in Users :
       \/ Fault(tab[u].first /\ TabDisconnects(u))
       \/ Fault(DrainTimeout(u) \/ FetchFails(u) \/ JoinTimeout(u))
       \/ Fault(OpRateLimited(u) /\ UNCHANGED tabVars)
  \/ \E j \in joining : Fault(JoinFails(j) /\ UNCHANGED tabVars)
  \/ \E i \in DOMAIN line : Fault(OpFails(i) /\ UNCHANGED tabVars)

LiveSpec ==
  /\ MCInit /\ [][LiveNext]_mcVars
  /\ WF_mcVars(ServerProgress /\ UNCHANGED faults)
  /\ \A u \in Users : /\ WF_mcVars(TabProgress(u) /\ UNCHANGED faults)
                      /\ WF_mcVars(TabConnects(u) /\ UNCHANGED faults)

----------------------------------------------------------------------------
(* What the other runs let go wrong.  No change is refused or given up in  *)
(* them: a counterexample owes nothing to a limit that was never reached.  *)

NothingGivenUp == \A o \in Ops : fate'[o] = "rejected" => fate[o] = "rejected"

Persistent(F) == F /\ NothingGivenUp

\* An answer takes longer than the tab waits for it.
SlowNext == Going \/ \E u \in Users : Fault(AckTimeout(u))

SlowSpec == MCInit /\ [][Persistent(SlowNext)]_mcVars

\* The server restarts once.
ForgetfulNext == Going \/ Fault(TabsRestart)

ForgetfulSpec == MCInit /\ [][Persistent(ForgetfulNext)]_mcVars

\* A tab's first connection drops while it loads.
FirstNext == Going \/ \E u \in Users : Fault(TabDisconnects(u))

FirstSpec == MCInit /\ [][Persistent(FirstNext)]_mcVars
=============================================================================
