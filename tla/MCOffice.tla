------------------------------ MODULE MCOffice ------------------------------
(***************************************************************************)
(* Machines of the server that share no state with one another, in one     *)
(* instance for TLC: a behaviour is about one of them, `scene` says which    *)
(* and which part of it, and the others rest in one initial state.          *)
(*   members   the members of a ZioVault collection (three changes of them)  *)
(*   people    the same with an item to read (two changes)                   *)
(*   contents  its item, with two managers (one change of the membership)    *)
(*   tree      deletions below a feature, its story and its task             *)
(*   sprints   the same items in and out of one sprint                       *)
(*   meeting   a person with two tabs asks, is let in, turned down, removed    *)
(*   tabs      the connections of two people, one with two tabs              *)
(*   calls     three people call each other, one of whom another watches     *)
(***************************************************************************)
EXTENDS VaultKeys, WorkItems, Meetings, Calls, TLC

CONSTANTS mia, noa, feature, story, taskItem,
          host, ann, bea, hostTab, annTab, annPhone, beaTab

MCKind == (feature :> "feature") @@ (story :> "story") @@ (taskItem :> "task")
MCUserOf == (hostTab :> host) @@ (annTab :> ann) @@ (annPhone :> ann) @@ (beaTab :> bea)
MCReports == (host :> {ann}) @@ (ann :> {})

VARIABLES scene, moves

Vault == {"members", "people", "contents"}
MembershipChanges == [members |-> 3, people |-> 2, contents |-> 1]
Work == {"tree", "sprints"}
Scenes == Vault \cup Work \cup {"meeting", "tabs", "calls"}

MCInit ==
  /\ scene \in Scenes /\ moves = 0
  /\ VaultInit /\ level[mia] = "manager"
  /\ WorkInit
  /\ MeetingInit
  /\ CallsInit /\ chat = (IF scene = "calls" THEN Sockets ELSE {})
  /\ scene = "meeting" \/ (meeting.approval /\ meeting.status = "live")

VaultStep ==
  /\ \/ \E u \in Staff :
          \/ Reload(u) \/ GivesUp(u) \/ RekeyStep(u)
          \/ scene # "contents" /\ (MemberStep(u) \/ Offboard(u) \/ Lapses(u))
          \/ scene = "people" /\ \E i \in Entries : CreateCompanyItem(u, i)
          \/ scene = "contents" /\ (ItemStep(u) \/ \E t \in Staff : AddMember(u, t, "manager"))
     \/ scene # "contents" /\ SweepExpired
  /\ Learns
  /\ moves' = IF <<level, lapsed>>' = <<level, lapsed>> THEN moves ELSE moves + 1
  /\ moves' <= MembershipChanges[scene]

WorkStep ==
  /\ \/ \E r \in Requests : \/ scene = "tree" /\ TreeStep(r)
                            \/ scene = "sprints" /\ SprintStep(r)
                            \/ CreateStep(r) \/ RequestFails(r)
     \/ \E n \in Items : SoftDeleteTask(n) \/ RestoreRow(n)
     \/ scene = "sprints" /\ \E x \in Sprints : CreateSprint(x) \/ RestoreSprint(x)
  /\ Histories
  /\ UNCHANGED moves

\* Ann is invited, asks, is let in, removed; her tabs say what they like.  Bounds: rows
\* changed, events sent and connections lost; none breaks while it is set up.
MeetingStep ==
  /\ \/ HostStep \/ RowStep(ann)
     \/ \E s \in {annTab, annPhone} : TabStep(s)
  /\ moves' = moves + Cardinality({s \in Sockets : Len(wire'[s]) > Len(wire[s])})
                    + Cardinality(closing' \ closing)
                    + (IF part' = part THEN 0 ELSE 1) + (IF meeting' = meeting THEN 0 ELSE 1)
  /\ moves' <= 4
  /\ stuck' = stuck

\* The tabs come and go with their connections.
TabsStep ==
  /\ \E s \in {beaTab, annTab, annPhone} :
       Connects(s) \/ IsSetUp(s) \/ Disconnects(s) \/ Closed(s)
  /\ UNCHANGED moves

\* The first button is pressed when all are connected; ann has two tabs, and the host
\* may watch her.  One thing goes wrong at most, in place of one button, and nobody
\* connects but at the start.
CallsStep ==
  \/ presses = 0 /\ \E s \in Sockets : PhoneConnects(s) /\ UNCHANGED moves
  \/ presses > 0 /\ \E s \in closing : PhoneConnects(s) /\ UNCHANGED <<conn, moves>>
  \/ /\ presses > 0 \/ \A s \in Sockets : Connected(s)
     /\ RelayStep \/ \E s \in Sockets : PhoneStep(s)
     /\ presses' + moves <= MaxPresses
     /\ UNCHANGED moves
  \/ moves = 0 /\ presses \in 1..MaxPresses - 1 /\ Mishap /\ moves' = 1

MCNext ==
  /\ \/ scene \in Vault /\ VaultStep
          /\ UNCHANGED <<workVars, presenceVars, meetingVars, callVars>>
     \/ scene \in Work /\ WorkStep
          /\ UNCHANGED <<vaultVars, presenceVars, meetingVars, callVars>>
     \/ scene = "meeting" /\ MeetingStep
          /\ UNCHANGED <<vaultVars, workVars, callVars>>
     \/ scene = "tabs" /\ TabsStep
          /\ UNCHANGED <<vaultVars, workVars, meetingVars, callVars>>
     \/ scene = "calls" /\ CallsStep
          /\ UNCHANGED <<vaultVars, workVars, meetingVars>>
  /\ UNCHANGED scene

officeVars == <<vaultVars, workVars, presenceVars, meetingVars, callVars, scene, moves>>
MCSpec == MCInit /\ [][MCNext]_officeVars
=============================================================================
