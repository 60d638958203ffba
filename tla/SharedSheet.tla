---------------------------- MODULE SharedSheet ----------------------------
(***************************************************************************)
(* What a shared spreadsheet promises (SMART_SHEETS.md, Live collaboration *)
(* and Saving and recovery), without sockets, queues or retries: a typed   *)
(* change is saved at most once and replaces its item; "Saved" is said     *)
(* only of a change that is saved; one that is reported as not saved may   *)
(* still turn out to have been.                                            *)
(***************************************************************************)
EXTENDS Sequences, SequencesExt

CONSTANTS Ops, Items, Blank, ItemOf

VARIABLES
  saved,  \* the changes in the order they took effect
  value,  \* what the sheet holds
  fate    \* what the author of each change has been told

sharedVars == <<saved, value, fate>>

SharedInit ==
  /\ saved = << >>
  /\ value = [i \in Items |-> Blank]
  /\ fate = [o \in Ops |-> "untyped"]

Typed(o) ==
  /\ fate[o] = "untyped"
  /\ fate' = [fate EXCEPT ![o] = "pending"]
  /\ UNCHANGED <<saved, value>>

Save(o) ==
  /\ fate[o] # "untyped"
  /\ o \notin ToSet(saved)
  /\ saved' = Append(saved, o)
  /\ value' = [value EXCEPT ![ItemOf[o]] = o]
  /\ UNCHANGED fate

Confirm(o) ==
  /\ fate[o] = "pending"
  /\ o \in ToSet(saved)
  /\ fate' = [fate EXCEPT ![o] = "confirmed"]
  /\ UNCHANGED <<saved, value>>

\* Several at once, when a restart cuts several tabs off.
Report(lost) ==
  /\ \A o \in lost : fate[o] = "pending"
  /\ fate' = [o \in Ops |-> IF o \in lost THEN "rejected" ELSE fate[o]]
  /\ UNCHANGED <<saved, value>>

SharedNext ==
  \/ \E o \in Ops : Typed(o) \/ Save(o) \/ Confirm(o)
  \/ \E lost \in SUBSET Ops : Report(lost)

SharedSpec == SharedInit /\ [][SharedNext]_sharedVars
=============================================================================
