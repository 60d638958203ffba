-------------------------- MODULE MCSubscriptions --------------------------
(***************************************************************************)
(* Instances of Subscriptions for TLC: one payment, two requests at a      *)
(* time, days from 0 to Horizon.  The Owner's changes and the failures are *)
(* counted.                                                                *)
(***************************************************************************)
EXTENDS Subscriptions, TLC

CONSTANTS first, left, right, MaxChanges, MaxFailures

VARIABLES changes, failures

MCTerm == [p \in Payments |-> 2]
Alike == Permutations({left, right})

Counted ==
  \/ (SweepStep \/ Tick \/ Arrive \/ \E r \in Requests : RequestStep(r))
       /\ UNCHANGED <<changes, failures>>
  \/ changes < MaxChanges /\ changes' = changes + 1 /\ OwnerStep /\ UNCHANGED failures
  \/ failures < MaxFailures /\ failures' = failures + 1 /\ Failure /\ UNCHANGED changes

MCInit == SubscriptionsInit /\ changes = 0 /\ failures = 0

MCSpec == MCInit /\ [][Counted]_<<vars, changes, failures>>
=============================================================================
