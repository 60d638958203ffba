------------------------ MODULE MCSmartSheetServer ------------------------
(***************************************************************************)
(* The instance of SmartSheetServer for TLC: an employee (ann) and an admin *)
(* (bob) who change the same item.  A behaviour is about one of these,       *)
(* `scene` says which: saving, where ann is given the sheet once and for all *)
(* and the messages go to the changes of both; or access, where bob manages  *)
(* the sheet from another page while ann does anything an editor can.  The   *)
(* third scene is FeatureGate, which shares no state with the server of the  *)
(* sheets: the module that the company's rooms belong to is switched on and  *)
(* off.                                                                    *)
(***************************************************************************)
EXTENDS SmartSheetServer, FeatureGate, TLC

CONSTANTS ann, bob, a1, b1, cell, request

MCItemOf == (a1 :> cell) @@ (b1 :> cell)
MCAuthorOf == (a1 :> ann) @@ (b1 :> bob)

VARIABLE scene

\* ann is given the sheet first; tabs stay open, join once and change what they have
\* joined.  Only ann's connection drops by itself.
SavingNext ==
  \/ assignment[ann] = "none" /\ Assign(ann, "edit")
  \/ /\ assignment[ann] = "edit"
     /\ \/ ServerStep
        \/ Restart \/ Disconnect(ann)
        \/ (\E o \in Ops : Forget(o)) \/ (\E i \in DOMAIN line : OpCommitLost(i))
        \/ \E u \in Users : Connect(u) \/ ClientReceives(u)
        \/ \E u \in Users : \E m \in ClientMessages :
             /\ m.type # "leave" /\ (m.type = "join" => m.n = 1)
             /\ (m.type = "op" => u \in joined)
             /\ ClientEmits(u, m)

\* What an admin may do about ann; an assignment of bob's changes nothing.  Bound: her
\* account is closed after all of it, on an active sheet.
ManagesAnn ==
  /\ outbox[ann] = << >> /\ account[ann] = "member"
  /\ \/ Unassign(ann) \/ \E p \in {"view", "edit"} : Assign(ann, p)
     \/ \E s \in {"active", "archived", "deleted"} : SetStatus(s)
     \/ evicting = {} /\ status = "active" /\ SetAccount(ann, "inactive")

\* Two joins of ann's at a time included; one change is saved at most.
AccessNext ==
  \/ ServerStep
  \/ Restart
  \/ ManagesAnn
  \/ Connect(ann) \/ Disconnect(ann) \/ ClientReceives(ann)
  \/ \E m \in ClientMessages :
       /\ m.type = "op" => Len(log) + OpsOnTheWay = 0
       /\ ClientEmits(ann, m)

\* One of the two callers is a request and joins no room.
GateStep == GateNext /\ request \notin liveRoom'

MCInit ==
  /\ ServerInit
  /\ GateInit
  /\ scene \in {"saving", "access", "gate"}
  /\ scene # "gate" => enabled
MCNext ==
  /\ \/ scene = "saving" /\ SavingNext /\ UNCHANGED gateVars
     \/ scene = "access" /\ AccessNext /\ UNCHANGED gateVars
     \/ scene = "gate" /\ GateStep /\ UNCHANGED serverVars
  /\ UNCHANGED scene
MCSpec == MCInit /\ [][MCNext]_<<serverVars, gateVars, scene>>
=============================================================================
