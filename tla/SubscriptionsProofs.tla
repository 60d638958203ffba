------------------------ MODULE SubscriptionsProofs ------------------------
(***************************************************************************)
(* Proofs about Subscriptions, for any payments, requests, terms and days. *)
(***************************************************************************)
EXTENDS Subscriptions, FiniteSetTheorems, TLAPS

(* The inductive invariant. *)

\* The row, the requests and the sweep keep their shape.
Shape ==
  /\ today \in 0..Horizon
  /\ company \in Companies
  /\ payment \in [Payments -> Statuses]
  /\ request \in [Requests ->
       [step : {"free", "mark", "load", "activate", "save", "clear"},
        pay : Payments \cup Edits \cup {None}, row : Companies]]
  /\ sweep \in [step : {"resting", "evaluate", "remind", "telling", "ungrace"},
                row : Companies, reminders : SUBSET Reminders, reminder : Reminders \cup {None}]
  /\ activations \in [Payments -> Nat] /\ opened \in [Payments -> Nat]
  /\ granted \in Nat /\ lost \subseteq Payments

\* A confirmation is about a payment, a save about an edit.
Aimed ==
  \A r \in Requests :
    /\ request[r].step \in {"mark", "load", "activate"} => request[r].pay \in Payments
    /\ request[r].step = "save" => request[r].pay \in Edits

\* Every date the row holds, or the sweep may still write, was granted.
Granted ==
  /\ LastDay(company) <= granted
  /\ company.grace # None => company.grace <= granted + Grace
  /\ sweep.row.sub = "active" /\ sweep.row.expires # None => sweep.row.expires <= granted

\* The requests that are to activate the payment p.
Confirming(p) == {r \in Requests : request[r].step \in {"load", "activate"} /\ request[r].pay = p}

\* The chances to activate a payment, used, under way and left, were opened.
Accounted ==
  \A p \in Payments :
    activations[p] + Cardinality(Confirming(p)) + (IF payment[p] = "pending" THEN 1 ELSE 0)
      <= opened[p]

SubscriptionsInv == Shape /\ Aimed /\ Granted /\ Accounted /\ PaidIsActivated

----------------------------------------------------------------------------
(* Helpers. *)

\* A row's last day is a day, and has to do with its status and dates only.
LEMMA LastDayIsADay ==
  ASSUME NEW c \in Companies
  PROVE  LastDay(c) \in Nat
BY DaysAreNumbers DEF LastDay, Companies, Subs, Dates

LEMMA LastDayOfSame ==
  ASSUME NEW c, NEW d, c.sub = d.sub, c.trialEnds = d.trialEnds, c.expires = d.expires
  PROVE  LastDay(c) = LastDay(d)
BY DEF LastDay

LEMMA LaterIsLater ==
  ASSUME NEW d \in Nat, NEW e \in Nat
  PROVE  Later(d, e) \in Nat /\ d <= Later(d, e) /\ e <= Later(d, e)
BY DEF Later

LEMMA BlankIsARow == Blank \in Companies
BY DEF Blank, Companies, Subs, Dates

----------------------------------------------------------------------------
(* Initially. *)

LEMMA InitHolds == SubscriptionsInit => SubscriptionsInv
<1> SUFFICES ASSUME SubscriptionsInit PROVE SubscriptionsInv
  OBVIOUS
<1> USE DaysAreNumbers DEF SubscriptionsInit
<1>1. company \in Companies
  BY DEF Blank, Companies, Subs, Dates
<1>2. Shape
  BY <1>1, BlankIsARow DEF Shape, Free, Resting, Statuses
<1>3. Aimed
  BY DEF Aimed, Free
<1>4. Granted
  <2>1. company.grace = None /\ sweep.row.expires = None
    BY DEF Blank, Resting
  <2>2. LastDay(company) = Trial
    <3>1. CASE company = [Blank EXCEPT !.trialEnds = Trial]
      <4>1. company.sub = "trial" /\ company.trialEnds = Trial
        BY <3>1 DEF Blank
      <4>2. QED
        BY <4>1, NoneIsNoDay DEF LastDay
    <3>2. CASE company = [Blank EXCEPT !.sub = "active", !.expires = Trial]
      <4>1. company.sub = "active" /\ company.expires = Trial
        BY <3>2 DEF Blank
      <4>2. QED
        BY <4>1, NoneIsNoDay DEF LastDay
    <3>3. QED
      BY <3>1, <3>2
  <2>3. QED
    BY <2>1, <2>2 DEF Granted
<1>5. Accounted
  <2> SUFFICES ASSUME NEW p \in Payments
      PROVE  activations[p] + Cardinality(Confirming(p)) + (IF payment[p] = "pending" THEN 1 ELSE 0)
               <= opened[p]
    BY DEF Accounted
  <2>1. Confirming(p) = {}
    BY DEF Confirming, Free
  <2>2. Cardinality(Confirming(p)) = 0
    BY <2>1, FS_EmptySet
  <2>3. QED
    BY <2>2
<1>6. PaidIsActivated
  BY DEF PaidIsActivated
<1>7. QED
  BY <1>2, <1>3, <1>4, <1>5, <1>6 DEF SubscriptionsInv

----------------------------------------------------------------------------
(* Every step keeps the shape. *)

LEMMA ShapeIsKept ==
  ASSUME SubscriptionsInv, [SubscriptionsNext]_vars
  PROVE  Shape' /\ Aimed'
<1> USE DEF SubscriptionsInv, Shape, Aimed, billingVars, ghosts
<1> USE DaysAreNumbers, BlankIsARow
<1>f. Free.step = "free" /\ Free \in
        [step : {"free", "mark", "load", "activate", "save", "clear"},
         pay : Payments \cup Edits \cup {None}, row : Companies]
  BY DEF Free
<1>g. Resting \in [step : {"resting", "evaluate", "remind", "telling", "ungrace"},
                row : Companies, reminders : SUBSET Reminders, reminder : Reminders \cup {None}]
  BY DEF Resting
<1>1. CASE Tick
  BY <1>1 DEF Tick
<1>2. ASSUME NEW r \in Requests, NEW p \in Payments, ConfirmArrives(r, p) PROVE Shape' /\ Aimed'
  BY <1>2, <1>f DEF ConfirmArrives, Starts, Free
<1>3. ASSUME NEW r \in Requests, MarkPaid(r) PROVE Shape' /\ Aimed'
  BY <1>3, <1>f DEF MarkPaid, Proceeds, Ends, Statuses
<1>4. ASSUME NEW r \in Requests, LoadCompany(r) PROVE Shape' /\ Aimed'
  <2>1. request[r] \in [step : {"free", "mark", "load", "activate", "save", "clear"},
                         pay : Payments \cup Edits \cup {None}, row : Companies]
    OBVIOUS
  <2>2. request' = [request EXCEPT ![r] = [@ EXCEPT !.step = "activate", !.row = company]]
    BY <1>4 DEF LoadCompany
  <2>3. request[r].step = "load" /\ UNCHANGED <<today, billingVars, sweep, ghosts>>
    BY <1>4 DEF LoadCompany
  <2>4. QED
    BY <2>1, <2>2, <2>3
<1>5. ASSUME NEW r \in Requests, Activate(r) PROVE Shape' /\ Aimed'
  <2>1. request[r].pay \in Payments /\ request[r].row \in Companies
    BY <1>5 DEF Activate
  <2>2. today + Term[request[r].pay] \in Nat
    BY <2>1, TermIsPositive
  <2>3. company' \in Companies
    BY <1>5, <2>1, <2>2 DEF Activate, Companies, Subs, Dates
  <2>4. granted' \in Nat
    BY <1>5, <2>2, LaterIsLater DEF Activate
  <2>5. request' \in [Requests ->
       [step : {"free", "mark", "load", "activate", "save", "clear"},
        pay : Payments \cup Edits \cup {None}, row : Companies]] /\ Aimed'
    BY <1>5, <1>f DEF Activate, Proceeds, Ends
  <2>6. activations' \in [Payments -> Nat]
    BY <1>5, <2>1 DEF Activate
  <2>7. QED
    BY <1>5, <2>3, <2>4, <2>5, <2>6 DEF Activate
<1>6. ASSUME NEW r \in Requests, ClearGrace(r) PROVE Shape' /\ Aimed'
  BY SMTT(30), <1>6, <1>f DEF ClearGrace, Ends, Companies, Dates
<1>7. ASSUME NEW r \in Requests, RequestFails(r) PROVE Shape' /\ Aimed'
  BY <1>7, <1>f DEF RequestFails, Ends
<1>8. ASSUME NEW r \in Requests, NEW e \in Edits, EditArrives(r, e) PROVE Shape' /\ Aimed'
  BY <1>8, <1>f DEF EditArrives, Starts, Free
<1>9. ASSUME NEW r \in Requests, SaveEdit(r) PROVE Shape' /\ Aimed'
  <2>1. request[r].pay \in Edits
    BY <1>9 DEF SaveEdit
  <2>2. company' \in Companies
    BY <1>9, <2>1 DEF SaveEdit, Companies, Edits
  <2>3. granted' \in Nat
    BY <1>9, <2>2, LaterIsLater, LastDayIsADay DEF SaveEdit
  <2>4. request' \in [Requests ->
       [step : {"free", "mark", "load", "activate", "save", "clear"},
        pay : Payments \cup Edits \cup {None}, row : Companies]] /\ Aimed'
    BY <1>9, <1>f DEF SaveEdit, Proceeds, Ends
  <2>5. QED
    BY <1>9, <2>2, <2>3, <2>4 DEF SaveEdit
<1>10. CASE ToggleSuspended
  BY <1>10 DEF ToggleSuspended, Companies
<1>11. ASSUME NEW p \in Payments, NEW s \in Statuses, SetPaymentStatus(p, s) PROVE Shape' /\ Aimed'
  BY <1>11 DEF SetPaymentStatus
<1>12. CASE SweepReads
  BY <1>12 DEF SweepReads, Resting
<1>13. CASE ExpireTrial \/ EndGrace
  <2>1. company' \in Companies
    BY ZenonT(40), <1>13 DEF ExpireTrial, EndGrace, WriteExpired, Companies, Subs
  <2>2. QED
    BY <1>13, <1>g, <2>1 DEF ExpireTrial, EndGrace, WriteExpired
<1>14. CASE StartGrace
  <2>1. sweep.row.expires + Grace \in Nat
    BY <1>14 DEF StartGrace, Due, Companies, Dates
  <2>2. company' \in Companies
    BY <1>14, <2>1 DEF StartGrace, Companies, Dates
  <2>3. QED
    BY <1>14, <1>g, <2>2 DEF StartGrace
<1>15. CASE SweepClears
  BY <1>15, <1>g DEF SweepClears, Companies, Dates
<1>16. ASSUME NEW m \in sweep.reminders, Remind(m) PROVE Shape' /\ Aimed'
  BY <1>16 DEF Remind
<1>17. CASE Tell
  BY <1>17 DEF Tell
<1>18. CASE SweepMovesOn
  BY <1>18, <1>g DEF SweepMovesOn
<1>19. CASE Crash
  BY <1>19, <1>f, <1>g DEF Crash
<1>23. CASE SweepFails
  BY <1>23, <1>g DEF SweepFails
<1>24. CASE NothingDue
  <2>1. Upcoming(sweep.row) \subseteq Reminders
    BY NoneIsNoDay DEF Upcoming, Reminders, Kinds, Companies, Dates
  <2>2. QED
    BY <1>24, <2>1 DEF NothingDue
<1>20. CASE UNCHANGED vars
  BY <1>20 DEF vars
<1>21. ASSUME NEW s \in Subs, NEW t \in {None, today + Trial}, NEW x \in {None, today + Trial}
       PROVE  [sub |-> s, trialEnds |-> t, expires |-> x] \in Edits
  BY DEF Edits, Dates
<1>22. QED
  BY <1>1, <1>2, <1>3, <1>4, <1>5, <1>6, <1>7, <1>8, <1>9, <1>10, <1>11, <1>12, <1>13,
     <1>14, <1>15, <1>16, <1>17, <1>18, <1>19, <1>20, <1>21, <1>23, <1>24
  DEF SubscriptionsNext, SweepStep, Arrive, OwnerStep, Failure, RequestStep

----------------------------------------------------------------------------
(* Every step keeps to the dates that were granted.  Most of them leave    *)
(* them alone.                                                             *)

LEMMA GrantedIsKept ==
  ASSUME SubscriptionsInv, [SubscriptionsNext]_vars
  PROVE  Granted'
<1> USE DEF SubscriptionsInv, Shape, Granted, billingVars, ghosts
<1> USE DaysAreNumbers, NoneIsNoDay
<1>n. LastDay(company) \in Nat /\ company.grace \in Dates /\ sweep.row.expires \in Dates
  BY LastDayIsADay DEF Companies
\* A step that touches neither the row nor what the sweep has read.
<1>a. ASSUME UNCHANGED <<company, granted>>,
             sweep'.row = sweep.row \/ sweep'.row = company \/ sweep' = Resting
      PROVE  Granted'
  <2>1. CASE sweep'.row = sweep.row
    BY <1>a, <2>1
  <2>2. CASE sweep'.row = company
    <3>1. company.sub = "active" /\ company.expires # None => company.expires <= granted
      BY DEF LastDay
    <3>2. QED
      BY <1>a, <2>2, <3>1
  <2>3. CASE sweep' = Resting
    BY <1>a, <2>3 DEF Resting, Blank
  <2>4. QED
    BY <1>a, <2>1, <2>2, <2>3
\* One that changes the row's status or drops its grace period.
<1>b. ASSUME company' = [company EXCEPT !.grace = None]
               \/ \E s : company' = [company EXCEPT !.status = s],
             UNCHANGED granted, sweep' = sweep \/ sweep' = Resting
      PROVE  Granted'
  <2>1. company'.sub = company.sub /\ company'.trialEnds = company.trialEnds
        /\ company'.expires = company.expires /\ company'.grace \in {None, company.grace}
    BY <1>b DEF Companies
  <2>2. LastDay(company') = LastDay(company)
    BY <2>1, LastDayOfSame
  <2>3. sweep'.row.sub = "active" /\ sweep'.row.expires # None => sweep'.row.expires <= granted'
    BY <1>b DEF Resting, Blank
  <2>4. QED
    BY <1>b, <2>1, <2>2, <2>3
<1>1. CASE Tick
  BY <1>1, <1>a DEF Tick
<1>2. ASSUME NEW r \in Requests, NEW p \in Payments, ConfirmArrives(r, p) PROVE Granted'
  BY <1>2, <1>a DEF ConfirmArrives
<1>3. ASSUME NEW r \in Requests, MarkPaid(r) PROVE Granted'
  BY <1>3, <1>a DEF MarkPaid
<1>4. ASSUME NEW r \in Requests, LoadCompany(r) PROVE Granted'
  BY <1>4, <1>a DEF LoadCompany
<1>5. ASSUME NEW r \in Requests, Activate(r) PROVE Granted'
  <2> DEFINE end == today + Term[request[r].pay]
  <2>1. end \in Nat
    <3>1. request[r].pay \in Payments
      BY <1>5 DEF Activate, Aimed
    <3>2. Term[request[r].pay] \in Nat
      BY <3>1, TermIsPositive
    <3>3. QED
      BY <3>2
  <2>2. granted' \in Nat /\ granted <= granted' /\ end <= granted'
    BY <1>5, <2>1, LaterIsLater DEF Activate
  <2>3. company'.sub = "active" /\ company'.expires = end /\ company'.grace = company.grace
    BY <1>5 DEF Activate, Companies
  <2>4. LastDay(company') = end
    BY <2>1, <2>3 DEF LastDay
  <2>5. sweep' = sweep
    BY <1>5 DEF Activate
  <2> HIDE DEF end
  <2>6. company'.grace # None => company'.grace <= granted' + Grace
    BY <1>n, <2>2, <2>3 DEF Dates
  <2>7. sweep'.row.sub = "active" /\ sweep'.row.expires # None => sweep'.row.expires <= granted'
    BY <1>n, <2>2, <2>5 DEF Dates
  <2>8. QED
    BY <2>2, <2>4, <2>6, <2>7
<1>6. ASSUME NEW r \in Requests, ClearGrace(r) PROVE Granted'
  BY <1>6, <1>b DEF ClearGrace
<1>7. ASSUME NEW r \in Requests, RequestFails(r) PROVE Granted'
  BY <1>7, <1>a DEF RequestFails
<1>8. ASSUME NEW r \in Requests, NEW e, EditArrives(r, e) PROVE Granted'
  BY <1>8, <1>a DEF EditArrives
<1>9. ASSUME NEW r \in Requests, SaveEdit(r) PROVE Granted'
  <2>1. company' \in Companies /\ company'.grace = company.grace
    BY <1>9 DEF SaveEdit, Companies, Edits, Aimed
  <2>2. LastDay(company') \in Nat
    BY <2>1, LastDayIsADay
  <2>3. granted' \in Nat /\ granted <= granted' /\ LastDay(company') <= granted'
    BY <1>9, <2>2, LaterIsLater DEF SaveEdit
  <2>4. sweep' = sweep
    BY <1>9 DEF SaveEdit
  <2>5. company'.grace # None => company'.grace <= granted' + Grace
    BY <1>n, <2>1, <2>3 DEF Dates
  <2>6. sweep'.row.sub = "active" /\ sweep'.row.expires # None => sweep'.row.expires <= granted'
    BY <1>n, <2>3, <2>4 DEF Dates
  <2>7. QED
    BY <2>3, <2>5, <2>6
<1>10. CASE ToggleSuspended
  BY <1>10, <1>b DEF ToggleSuspended
<1>11. ASSUME NEW p, NEW s, SetPaymentStatus(p, s) PROVE Granted'
  BY <1>11, <1>a DEF SetPaymentStatus
<1>12. CASE SweepReads
  BY <1>12, <1>a DEF SweepReads
<1>13. CASE ExpireTrial \/ EndGrace
  <2>1. company'.sub = "expired" /\ company'.grace = company.grace
    BY <1>13 DEF ExpireTrial, EndGrace, WriteExpired, Companies
  <2>2. LastDay(company') = 0
    BY <2>1 DEF LastDay
  <2>3. sweep'.row = sweep.row \/ sweep' = Resting
    BY <1>13 DEF ExpireTrial, EndGrace
  <2>4. granted' = granted
    BY <1>13 DEF ExpireTrial, EndGrace, WriteExpired
  <2>5. QED
    BY <2>1, <2>2, <2>3, <2>4 DEF Resting, Blank
<1>14. CASE StartGrace
  <2>1. sweep.row.expires \in Nat /\ sweep.row.expires <= granted
    BY <1>14, <1>n DEF StartGrace, Evaluates, Due, Dates
  <2>2. company'.grace = sweep.row.expires + Grace /\ granted' = granted /\ sweep' = Resting
    BY <1>14 DEF StartGrace, Companies
  <2>3. LastDay(company') = LastDay(company)
    BY <1>14, LastDayOfSame DEF StartGrace, Companies
  <2>4. sweep'.row.expires = None
    BY <2>2 DEF Resting, Blank
  <2>5. QED
    BY <2>1, <2>2, <2>3, <2>4
<1>15. CASE SweepClears
  BY <1>15, <1>b DEF SweepClears
<1>16. ASSUME NEW m, Remind(m) PROVE Granted'
  BY <1>16, <1>a DEF Remind
<1>17. CASE Tell
  BY <1>17, <1>a DEF Tell
<1>18. CASE SweepMovesOn
  BY <1>18, <1>a DEF SweepMovesOn
<1>19. CASE Crash \/ SweepFails
  BY <1>19, <1>a DEF Crash, SweepFails
<1>22. CASE NothingDue
  BY <1>22, <1>a DEF NothingDue
<1>20. CASE UNCHANGED vars
  BY <1>20, <1>a DEF vars
<1>21. QED
  BY <1>1, <1>2, <1>3, <1>4, <1>5, <1>6, <1>7, <1>8, <1>9, <1>10, <1>11, <1>12, <1>13,
     <1>14, <1>15, <1>16, <1>17, <1>18, <1>19, <1>20, <1>22
  DEF SubscriptionsNext, SweepStep, Arrive, OwnerStep, Failure, RequestStep

----------------------------------------------------------------------------
(* Every step accounts for the chances to activate a payment.              *)

\* The summands for one payment.
Chance(p) == IF payment[p] = "pending" THEN 1 ELSE 0

LEMMA ConfirmingIsFinite ==
  ASSUME NEW p
  PROVE  IsFiniteSet(Confirming(p)) /\ Cardinality(Confirming(p)) \in Nat
<1>1. Confirming(p) \subseteq Requests
  BY DEF Confirming
<1>2. QED
  BY <1>1, RequestsAreFew, FS_Subset, FS_CardinalityType

\* Steps that neither begin nor end an activation.
LEMMA NothingConfirmed ==
  ASSUME SubscriptionsInv, UNCHANGED <<payment, activations, opened>>,
         \A p \in Payments : Confirming(p)' \subseteq Confirming(p)
  PROVE  Accounted'
<1> SUFFICES ASSUME NEW p \in Payments
    PROVE  (activations[p] + Cardinality(Confirming(p)) + Chance(p) <= opened[p])'
  BY DEF Accounted, Chance
<1>1. Cardinality(Confirming(p)') <= Cardinality(Confirming(p))
      /\ Cardinality(Confirming(p)') \in Nat
  BY ConfirmingIsFinite, FS_Subset, FS_CardinalityType
<1>2. activations[p] + Cardinality(Confirming(p)) + Chance(p) <= opened[p]
  BY DEF SubscriptionsInv, Accounted, Chance
<1>3. activations[p] \in Nat /\ opened[p] \in Nat /\ Chance(p) \in Nat
      /\ Cardinality(Confirming(p)) \in Nat
  BY ConfirmingIsFinite DEF SubscriptionsInv, Shape, Chance
<1>4. Chance(p)' = Chance(p) /\ activations'[p] = activations[p] /\ opened'[p] = opened[p]
  BY DEF Chance
<1>5. QED
  BY <1>1, <1>2, <1>3, <1>4

LEMMA MarkPaidAccounts ==
  ASSUME SubscriptionsInv, NEW r \in Requests, MarkPaid(r)
  PROVE  Accounted'
<1> USE DEF SubscriptionsInv, Shape
<1> DEFINE q == request[r].pay
<1>0. q \in Payments /\ request[r].step = "mark"
  BY DEF MarkPaid, Aimed
<1>1. CASE payment[q] # "pending"
  <2>1. request' = [request EXCEPT ![r] = Free] /\ UNCHANGED <<payment, activations, opened>>
    BY <1>1 DEF MarkPaid, Ends, ghosts
  <2>2. \A p \in Payments : Confirming(p)' \subseteq Confirming(p)
    BY <2>1 DEF Confirming, Free
  <2>3. QED
    BY <2>1, <2>2, NothingConfirmed
<1>2. CASE payment[q] = "pending"
  <2>1. /\ request' = [request EXCEPT ![r].step = "load"]
        /\ payment' = [payment EXCEPT ![q] = "paid"]
        /\ UNCHANGED <<activations, opened>>
    BY <1>2 DEF MarkPaid, Proceeds, ghosts
  <2> SUFFICES ASSUME NEW p \in Payments
      PROVE  (activations[p] + Cardinality(Confirming(p)) + Chance(p) <= opened[p])'
    BY DEF Accounted, Chance
  <2>2. activations[p] + Cardinality(Confirming(p)) + Chance(p) <= opened[p]
    BY DEF Accounted, Chance
  <2>3. activations[p] \in Nat /\ opened[p] \in Nat /\ Cardinality(Confirming(p)) \in Nat
    BY ConfirmingIsFinite
  <2>4. CASE p = q
    <3>1. Confirming(p)' = Confirming(p) \cup {r} /\ r \notin Confirming(p)
      BY <1>0, <2>1, <2>4 DEF Confirming
    <3>2. Cardinality(Confirming(p)') = Cardinality(Confirming(p)) + 1
      BY <3>1, ConfirmingIsFinite, FS_AddElement
    <3>3. Chance(p) = 1 /\ Chance(p)' = 0
      BY <1>0, <1>2, <2>1, <2>4 DEF Chance
    <3>4. QED
      BY <2>1, <2>2, <2>3, <3>2, <3>3
  <2>5. CASE p # q
    <3>1. Confirming(p)' = Confirming(p)
      BY <1>0, <2>1, <2>5 DEF Confirming
    <3>2. Chance(p)' = Chance(p)
      BY <1>0, <2>1, <2>5 DEF Chance
    <3>3. QED
      BY <2>1, <2>2, <3>1, <3>2
  <2>6. QED
    BY <2>4, <2>5
<1>3. QED
  BY <1>1, <1>2

LEMMA ActivateAccounts ==
  ASSUME SubscriptionsInv, NEW r \in Requests, Activate(r)
  PROVE  Accounted'
<1> USE DEF SubscriptionsInv, Shape
<1> DEFINE q == request[r].pay
<1>0. /\ q \in Payments /\ request[r].step = "activate"
      /\ \E s \in {"clear", "free"} : request'[r].step = s
      /\ \A x \in Requests : x # r => request'[x] = request[x]
      /\ activations' = [activations EXCEPT ![q] = @ + 1]
      /\ UNCHANGED <<payment, opened>>
  BY DEF Activate, Aimed, Proceeds, Ends, Free
<1> SUFFICES ASSUME NEW p \in Payments
    PROVE  (activations[p] + Cardinality(Confirming(p)) + Chance(p) <= opened[p])'
  BY DEF Accounted, Chance
<1>1. activations[p] + Cardinality(Confirming(p)) + Chance(p) <= opened[p]
  BY DEF Accounted, Chance
<1>2. activations[p] \in Nat /\ opened[p] \in Nat /\ Chance(p) \in Nat
      /\ Cardinality(Confirming(p)) \in Nat
  BY ConfirmingIsFinite DEF Chance
<1>3. Chance(p)' = Chance(p)
  BY <1>0 DEF Chance
<1>4. CASE p = q
  <2>1. Confirming(p)' = Confirming(p) \ {r} /\ r \in Confirming(p)
    BY <1>0, <1>4 DEF Confirming
  <2>2. Cardinality(Confirming(p)') = Cardinality(Confirming(p)) - 1
    BY <2>1, ConfirmingIsFinite, FS_RemoveElement
  <2>3. activations'[p] = activations[p] + 1
    BY <1>0, <1>4
  <2>4. QED
    BY <1>0, <1>1, <1>2, <1>3, <2>2, <2>3
<1>5. CASE p # q
  <2>1. Confirming(p)' = Confirming(p)
    BY <1>0, <1>5 DEF Confirming
  <2>2. activations'[p] = activations[p]
    BY <1>0, <1>5
  <2>3. QED
    BY <1>0, <1>1, <1>3, <2>1, <2>2
<1>6. QED
  BY <1>4, <1>5

LEMMA StatusAccounts ==
  ASSUME SubscriptionsInv, NEW q \in Payments, NEW s \in Statuses, SetPaymentStatus(q, s)
  PROVE  Accounted'
<1> USE DEF SubscriptionsInv, Shape
<1> SUFFICES ASSUME NEW p \in Payments
    PROVE  (activations[p] + Cardinality(Confirming(p)) + Chance(p) <= opened[p])'
  BY DEF Accounted, Chance
<1>1. activations[p] + Cardinality(Confirming(p)) + Chance(p) <= opened[p]
  BY DEF Accounted, Chance
<1>2. activations[p] \in Nat /\ opened[p] \in Nat /\ Cardinality(Confirming(p)) \in Nat
  BY ConfirmingIsFinite
<1>3. Confirming(p)' = Confirming(p) /\ activations' = activations
  BY DEF SetPaymentStatus, Confirming
<1>4. opened'[p] + Chance(p) >= opened[p] + Chance(p)'
  BY <1>2 DEF SetPaymentStatus, Chance
<1>5. Chance(p) \in Nat /\ Chance(p)' \in Nat /\ opened'[p] \in Nat
  BY <1>2 DEF SetPaymentStatus, Chance
<1>6. QED
  BY <1>1, <1>2, <1>3, <1>4, <1>5

LEMMA AccountsAreKept ==
  ASSUME SubscriptionsInv, [SubscriptionsNext]_vars
  PROVE  Accounted'
<1> USE DEF SubscriptionsInv, Shape, billingVars, ghosts, Confirming
<1>1. CASE UNCHANGED <<payment, activations, opened, request>>
  BY <1>1, NothingConfirmed
<1>2. ASSUME NEW r \in Requests, NEW p, ConfirmArrives(r, p) \/ EditArrives(r, p) PROVE Accounted'
  <2>1. /\ request'[r].step \in {"mark", "save"}
        /\ \A x \in Requests : x # r => request'[x] = request[x]
    <3> DEFINE mark == [Free EXCEPT !.step = "mark", !.pay = p]
               save == [Free EXCEPT !.step = "save", !.pay = p, !.row = company]
    <3>1. mark.step = "mark" /\ save.step = "save"
      BY DEF Free
    <3>2. PICK next \in {mark, save} : request' = [request EXCEPT ![r] = next]
      BY <1>2 DEF ConfirmArrives, EditArrives, Starts
    <3> HIDE DEF mark, save
    <3>3. QED
      BY <3>1, <3>2
  <2>2. UNCHANGED <<payment, activations, opened>>
    BY <1>2 DEF ConfirmArrives, EditArrives
  <2>3. \A q \in Payments : Confirming(q)' \subseteq Confirming(q)
    BY <2>1
  <2>4. QED
    BY <2>2, <2>3, NothingConfirmed
<1>3. ASSUME NEW r \in Requests, LoadCompany(r) PROVE Accounted'
  BY <1>3, NothingConfirmed DEF LoadCompany
<1>4. ASSUME NEW r \in Requests, ClearGrace(r) \/ RequestFails(r) \/ SaveEdit(r) PROVE Accounted'
  BY <1>4, NothingConfirmed DEF ClearGrace, RequestFails, SaveEdit, Ends, Proceeds, Free
<1>5. CASE Crash
  BY <1>5, NothingConfirmed DEF Crash, Free
<1>6. CASE \/ Tick \/ SweepStep \/ SweepFails \/ ToggleSuspended \/ UNCHANGED vars
  <2>1. UNCHANGED <<payment, activations, opened, request>>
    BY <1>6 DEF Tick, SweepStep, ToggleSuspended, vars, SweepReads, ExpireTrial, StartGrace,
      EndGrace, WriteExpired, SweepClears, NothingDue, Remind, Tell, SweepMovesOn, SweepFails
  <2>2. QED
    BY <2>1, <1>1
<1>7. QED
  BY <1>2, <1>3, <1>4, <1>5, <1>6, MarkPaidAccounts, ActivateAccounts, StatusAccounts
  DEF SubscriptionsNext, Arrive, OwnerStep, Failure, RequestStep

----------------------------------------------------------------------------
(* Every step leaves a paid payment activated, about to be, or lost.       *)

LEMMA PaidStaysActivated ==
  ASSUME SubscriptionsInv, [SubscriptionsNext]_vars
  PROVE  PaidIsActivated'
<1> USE DEF SubscriptionsInv, Shape, billingVars, ghosts
<1> SUFFICES ASSUME NEW p \in Payments, payment'[p] = "paid"
    PROVE  activations'[p] > 0 \/ Activating(p)' \/ p \in lost'
  BY DEF PaidIsActivated
<1>0. payment[p] = "paid" => activations[p] > 0 \/ Activating(p) \/ p \in lost
  BY DEF PaidIsActivated
\* A step that leaves the payment alone and no activation unfinished.
<1>a. ASSUME UNCHANGED <<payment, activations, lost>>,
             \A r \in Requests : request[r].step \in {"load", "activate"} =>
               request'[r].step \in {"load", "activate"} /\ request'[r].pay = request[r].pay
      PROVE  activations'[p] > 0 \/ Activating(p)' \/ p \in lost'
  BY <1>0, <1>a DEF Activating
<1>1. CASE Tick \/ SweepStep \/ SweepFails \/ ToggleSuspended \/ UNCHANGED vars
  <2>1. UNCHANGED <<payment, activations, lost, request>>
    BY <1>1 DEF Tick, SweepStep, ToggleSuspended, vars, SweepReads, ExpireTrial, StartGrace,
      EndGrace, WriteExpired, SweepClears, NothingDue, Remind, Tell, SweepMovesOn, SweepFails
  <2>2. QED
    BY <2>1, <1>a
<1>2. ASSUME NEW r \in Requests, NEW q, ConfirmArrives(r, q) \/ EditArrives(r, q)
      PROVE  activations'[p] > 0 \/ Activating(p)' \/ p \in lost'
  <2>1. request[r].step = "free" /\ \A x \in Requests : x # r => request'[x] = request[x]
    BY <1>2 DEF ConfirmArrives, EditArrives, Starts, Free
  <2>2. UNCHANGED <<payment, activations, lost>>
    BY <1>2 DEF ConfirmArrives, EditArrives
  <2>3. QED
    BY <2>1, <2>2, <1>a
<1>3. ASSUME NEW r \in Requests, MarkPaid(r)
      PROVE  activations'[p] > 0 \/ Activating(p)' \/ p \in lost'
  <2>1. CASE payment[p] = "paid"
    <3>1. \A x \in Requests : request[x].step \in {"load", "activate"} => request'[x] = request[x]
      BY <1>3 DEF MarkPaid, Proceeds, Ends
    <3>2. QED
      BY <1>0, <1>3, <2>1, <3>1 DEF MarkPaid, Activating
  <2>2. CASE payment[p] # "paid"
    <3>1. request[r].pay = p /\ payment[p] = "pending"
      BY <1>3, <2>2 DEF MarkPaid, Aimed
    <3>2. request'[r].step = "load" /\ request'[r].pay = p
      BY <1>3, <3>1 DEF MarkPaid, Proceeds
    <3>3. QED
      BY <3>2 DEF Activating
  <2>3. QED
    BY <2>1, <2>2
<1>4. ASSUME NEW r \in Requests, LoadCompany(r)
      PROVE  activations'[p] > 0 \/ Activating(p)' \/ p \in lost'
  BY <1>4, <1>a DEF LoadCompany
<1>5. ASSUME NEW r \in Requests, Activate(r)
      PROVE  activations'[p] > 0 \/ Activating(p)' \/ p \in lost'
  <2>1. /\ UNCHANGED <<payment, lost>>
        /\ activations' = [activations EXCEPT ![request[r].pay] = @ + 1]
        /\ \A x \in Requests : x # r => request'[x] = request[x]
    BY <1>5 DEF Activate, Proceeds, Ends
  <2>2. CASE request[r].pay = p
    BY <2>1, <2>2
  <2>3. CASE request[r].pay # p
    BY <1>0, <2>1, <2>3 DEF Activating
  <2>4. QED
    BY <2>2, <2>3
<1>6. ASSUME NEW r \in Requests, ClearGrace(r) \/ SaveEdit(r)
      PROVE  activations'[p] > 0 \/ Activating(p)' \/ p \in lost'
  <2>1. request[r].step \in {"clear", "save"} /\ \A x \in Requests : x # r => request'[x] = request[x]
    BY <1>6 DEF ClearGrace, SaveEdit, Ends, Proceeds
  <2>2. UNCHANGED <<payment, activations, lost>>
    BY <1>6 DEF ClearGrace, SaveEdit
  <2>3. QED
    BY <2>1, <2>2, <1>a
<1>7. ASSUME NEW q \in Payments, NEW s \in Statuses, SetPaymentStatus(q, s)
      PROVE  activations'[p] > 0 \/ Activating(p)' \/ p \in lost'
  <2>1. payment[p] = "paid"
    BY <1>7 DEF SetPaymentStatus
  <2>2. QED
    BY <1>0, <1>7, <2>1 DEF SetPaymentStatus, Activating
<1>8. CASE Crash
  BY <1>0, <1>8 DEF Crash
<1>10. ASSUME NEW r \in Requests, RequestFails(r)
      PROVE  activations'[p] > 0 \/ Activating(p)' \/ p \in lost'
  <2>1. UNCHANGED <<payment, activations>> /\ \A x \in Requests : x # r => request'[x] = request[x]
    BY <1>10 DEF RequestFails, Ends
  <2>2. request[r].step \in {"load", "activate"} /\ request[r].pay = p => p \in lost'
    BY <1>10 DEF RequestFails
  <2>3. lost \subseteq lost'
    BY <1>10 DEF RequestFails
  <2>4. QED
    BY <1>0, <2>1, <2>2, <2>3 DEF Activating
<1>9. QED
  BY <1>1, <1>2, <1>3, <1>4, <1>5, <1>6, <1>7, <1>8, <1>10
  DEF SubscriptionsNext, Arrive, OwnerStep, Failure, RequestStep

----------------------------------------------------------------------------
(* The reminders.                                                          *)

\* What has been sent was recorded before, and what is about to be sent was recorded
\* and has not been sent.
Recorded ==
  /\ history \subseteq Reminders /\ told \in Seq(Reminders)
  /\ \A k \in DOMAIN told : told[k] \in history
  /\ sweep.step = "telling" =>
       sweep.reminder \in history /\ \A k \in DOMAIN told : told[k] # sweep.reminder
  /\ RemindedOnce
  /\ paidUntil \in Dates /\ blurred \in BOOLEAN

LEMMA RecordedInit == SubscriptionsInit => Recorded
<1> SUFFICES ASSUME SubscriptionsInit PROVE Recorded
  OBVIOUS
<1>1. history = {} /\ told = << >> /\ paidUntil = None /\ blurred = FALSE
  BY DEF SubscriptionsInit
<1>2. sweep.step # "telling"
  BY DEF SubscriptionsInit, Resting
<1>3. told \in Seq(Reminders) /\ DOMAIN told = {}
  BY <1>1
<1>4. RemindedOnce
  BY <1>3 DEF RemindedOnce
<1>5. paidUntil \in Dates
  BY <1>1 DEF Dates
<1> QED
  BY <1>1, <1>2, <1>3, <1>4, <1>5 DEF Recorded

LEMMA RecordedStep ==
  ASSUME Shape, Aimed, Recorded, [SubscriptionsNext]_vars
  PROVE  Recorded'
<1> USE DEF Recorded, billingVars, ghosts
<1> SUFFICES /\ (history' = history /\ told' = told) => (sweep' = sweep \/ sweep'.step # "telling")
             /\ \/ history' = history /\ told' = told
                \/ \E m \in sweep.reminders : Remind(m)
                \/ Tell
             /\ paidUntil' \in Dates /\ blurred' \in BOOLEAN
  <2>1. CASE history' = history /\ told' = told /\ (sweep' = sweep \/ sweep'.step # "telling")
             /\ paidUntil' \in Dates /\ blurred' \in BOOLEAN
    BY <2>1 DEF RemindedOnce
  <2>2. ASSUME NEW m \in sweep.reminders, Remind(m) PROVE Recorded'
    <3>1. /\ m \notin history /\ history' = history \cup {m} /\ sweep'.reminder = m
          /\ sweep'.step = "telling" /\ UNCHANGED <<told, paidUntil, blurred>>
      BY <2>2 DEF Remind, Shape
    <3>2. m \in Reminders  BY DEF Shape
    <3> QED  BY <3>1, <3>2 DEF RemindedOnce
  <2>3. CASE Tell
    <3>1. /\ sweep.step = "telling" /\ told' = Append(told, sweep.reminder)
          /\ sweep'.step # "telling" /\ UNCHANGED <<history, paidUntil, blurred>>
      BY <2>3 DEF Tell, Shape
    <3>2. sweep.reminder \in Reminders /\ sweep.reminder \in history
      BY <3>1
    <3>3. /\ told' \in Seq(Reminders) /\ Len(told') = Len(told) + 1
          /\ \A k \in 1..Len(told) : told'[k] = told[k]
          /\ told'[Len(told) + 1] = sweep.reminder
      BY <3>1, <3>2
    <3>4. /\ DOMAIN told' = 1..Len(told) + 1 /\ DOMAIN told = 1..Len(told)
          /\ Len(told) \in Nat
      BY <3>3
    <3>5. \A k \in DOMAIN told' : k \in DOMAIN told \/ k = Len(told) + 1
      BY <3>4
    <3>6. \A k \in DOMAIN told' : told'[k] \in history'
      BY <3>1, <3>2, <3>3, <3>4, <3>5
    <3>7. RemindedOnce'
      <4> SUFFICES ASSUME NEW k \in DOMAIN told', NEW l \in DOMAIN told', told'[k] = told'[l]
                   PROVE  k = l
        BY DEF RemindedOnce
      <4>1. \A n \in DOMAIN told : told'[n] = told[n] /\ told'[n] # sweep.reminder
        BY <3>1, <3>3, <3>4
      <4>2. CASE k \in DOMAIN told /\ l \in DOMAIN told
        BY <4>1, <4>2 DEF RemindedOnce
      <4>3. CASE k = Len(told) + 1 \/ l = Len(told) + 1
        BY <3>3, <3>5, <4>1, <4>3
      <4> QED
        BY <3>5, <4>2, <4>3
    <3> QED  BY <3>1, <3>3, <3>6, <3>7
  <2> QED  BY <2>1, <2>2, <2>3
<1>1. CASE Tick  BY <1>1 DEF Tick
<1>2. ASSUME NEW r \in Requests, RequestStep(r) \/ RequestFails(r)
      PROVE  /\ UNCHANGED <<history, told, sweep>>
             /\ paidUntil' \in Dates /\ blurred' \in BOOLEAN
  <2>1. CASE Activate(r)
    <3>1. today + Term[request[r].pay] \in Nat
      <4>1. request[r].pay \in Payments  BY <2>1 DEF Aimed, Activate
      <4> QED  BY <4>1, TermIsPositive, DaysAreNumbers DEF Shape
    <3> QED  BY <2>1, <3>1 DEF Activate, Dates
  <2>2. CASE ~Activate(r)
    BY <1>2, <2>2 DEF RequestStep, MarkPaid, LoadCompany, ClearGrace, SaveEdit, RequestFails, Dates
  <2> QED  BY <2>1, <2>2
<1>3. CASE Arrive
  BY <1>3 DEF Arrive, ConfirmArrives
<1>4. CASE OwnerStep
  BY <1>4 DEF OwnerStep, EditArrives, ToggleSuspended, SetPaymentStatus
<1>r. Resting.step # "telling"
  BY DEF Resting
<1>5. CASE Crash \/ SweepFails
  <2>1. UNCHANGED <<history, told, paidUntil>> /\ sweep' = Resting
    BY <1>5 DEF Crash, SweepFails
  <2>2. blurred' \in BOOLEAN
    BY <1>5 DEF Crash, SweepFails
  <2> QED
    BY <1>r, <2>1, <2>2
<1>6. CASE SweepStep
  <2>0. ASSUME NEW m \in sweep.reminders, Remind(m)
        PROVE  history' # history /\ UNCHANGED <<paidUntil, blurred>>
    BY <2>0 DEF Remind
  <2>1. CASE \E m \in sweep.reminders : Remind(m)
    BY <2>0, <2>1
  <2>5. CASE Tell
    <3>1. sweep'.step # "telling" /\ UNCHANGED <<paidUntil, blurred>>
      BY <2>5 DEF Tell, Shape
    <3> QED
      BY <2>5, <3>1
  <2>2. CASE SweepReads \/ NothingDue
    <3>1. UNCHANGED <<history, told, paidUntil, blurred>>
      BY <2>2 DEF SweepReads, NothingDue
    <3>2. sweep'.step # "telling"
      BY <2>2 DEF SweepReads, NothingDue, Resting, Shape
    <3> QED
      BY <3>1, <3>2
  <2>3. CASE ExpireTrial \/ StartGrace \/ EndGrace
    <3>1. UNCHANGED <<history, told, paidUntil>> /\ blurred' \in BOOLEAN
      BY <2>3 DEF ExpireTrial, StartGrace, EndGrace, WriteExpired
    <3>2. sweep'.step # "telling"
      BY <1>r, <2>3 DEF ExpireTrial, StartGrace, EndGrace, Shape
    <3> QED
      BY <3>1, <3>2
  <2>4. CASE SweepClears \/ SweepMovesOn
    <3>1. UNCHANGED <<history, told, paidUntil, blurred>> /\ sweep' = Resting
      BY <2>4 DEF SweepClears, SweepMovesOn
    <3> QED
      BY <1>r, <3>1
  <2> QED
    BY <1>6, <2>1, <2>2, <2>3, <2>4, <2>5 DEF SweepStep
<1>7. CASE UNCHANGED vars
  BY <1>7 DEF vars
<1> QED
  BY <1>1, <1>2, <1>3, <1>4, <1>5, <1>6, <1>7 DEF SubscriptionsNext, Failure

----------------------------------------------------------------------------
(* The theorems. *)

LEMMA SubscriptionsInvariance == SubscriptionsSpec => []SubscriptionsInv
<1>1. SubscriptionsInv /\ [SubscriptionsNext]_vars => SubscriptionsInv'
  BY ShapeIsKept, GrantedIsKept, AccountsAreKept, PaidStaysActivated DEF SubscriptionsInv
<1>2. QED
  BY InitHolds, <1>1, PTL DEF SubscriptionsSpec

\* However often, and from however many sides, a payment is confirmed, it extends
\* the subscription at most once for every time it became pending.
THEOREM PaymentsActivateOnce == SubscriptionsSpec => []ActivatedOnce
<1>1. SubscriptionsInv => ActivatedOnce
  <2> SUFFICES ASSUME SubscriptionsInv, NEW p \in Payments
      PROVE  activations[p] <= opened[p]
    BY DEF ActivatedOnce
  <2>1. activations[p] + Cardinality(Confirming(p)) + Chance(p) <= opened[p]
    BY DEF SubscriptionsInv, Accounted, Chance
  <2>2. activations[p] \in Nat /\ opened[p] \in Nat /\ Chance(p) \in Nat
        /\ Cardinality(Confirming(p)) \in Nat
    BY ConfirmingIsFinite DEF SubscriptionsInv, Shape, Chance
  <2>3. QED
    BY <2>1, <2>2
<1>2. QED
  BY <1>1, SubscriptionsInvariance, PTL

\* A paid payment has been activated, is about to be, or died on the way.
THEOREM PaidMeansActivated == SubscriptionsSpec => []PaidIsActivated
<1>1. SubscriptionsInv => PaidIsActivated
  BY DEF SubscriptionsInv
<1>2. QED
  BY <1>1, SubscriptionsInvariance, PTL

\* Access never outlives what was granted by more than the grace period, whatever
\* stale row the sweep or a request writes from.
THEOREM AccessEnds == SubscriptionsSpec => []NoAccessBeyondGrace
<1>1. SubscriptionsInv => NoAccessBeyondGrace
  <2> SUFFICES ASSUME SubscriptionsInv, Allowed(company)
      PROVE  today <= granted + Grace
    BY DEF NoAccessBeyondGrace
  <2> USE DaysAreNumbers DEF SubscriptionsInv, Shape, Granted
  <2>1. /\ company.sub \in {"trial", "active"} /\ company.trialEnds \in Dates
        /\ company.expires \in Dates /\ company.grace \in Dates
    BY DEF Allowed, Companies, Subs
  <2>2. CASE company.sub = "trial" /\ company.trialEnds # None
    <3>1. LastDay(company) = company.trialEnds
      BY <2>2 DEF LastDay
    <3>2. QED
      BY <2>1, <2>2, <3>1 DEF Allowed, Past, Dates
  <2>3. CASE company.sub = "active" \/ company.trialEnds = None
    <3>1. LastDay(company) = IF company.expires = None THEN Horizon ELSE company.expires
      BY <2>1, <2>3 DEF LastDay
    <3>2. QED
      BY <2>1, <3>1 DEF Allowed, Past, Dates
  <2>4. QED
    BY <2>1, <2>2, <2>3
<1>2. QED
  BY <1>1, SubscriptionsInvariance, PTL

LEMMA RecordedHolds == SubscriptionsSpec => []Recorded
<1>1. SubscriptionsInv /\ Recorded /\ [SubscriptionsNext]_vars => Recorded'
  BY RecordedStep DEF SubscriptionsInv
<1>2. QED
  BY RecordedInit, SubscriptionsInvariance, <1>1, PTL DEF SubscriptionsSpec

\* The row, the requests, the sweep and the histories keep their types.
THEOREM SubscriptionsTypeCorrect == SubscriptionsSpec => []SubscriptionsTypeOK
<1>1. SubscriptionsInv /\ Recorded => SubscriptionsTypeOK
  BY DEF SubscriptionsInv, Shape, Recorded, SubscriptionsTypeOK
<1>2. QED
  BY <1>1, SubscriptionsInvariance, RecordedHolds, PTL

\* No reminder is sent twice, across restarts and failures: it is recorded before it is
\* sent, and never sent again once it is recorded (hasEvent, logLifecycleEvent).
THEOREM ToldOnce == SubscriptionsSpec => []RemindedOnce
<1>1. Recorded => RemindedOnce
  BY DEF Recorded
<1>2. QED
  BY <1>1, RecordedHolds, PTL

(* The sweep ends a subscription only after its own grace period. *)

Clearing == \E r \in Requests : request[r].step = "clear"

\* Unless a grace period is still to be cleared, or was written from an old row, the
\* one a subscription has is counted from its own end.
OwnGrace ==
  ~blurred /\ company.sub = "active" /\ ~Clearing /\ company.grace # None =>
    company.expires # None /\ company.grace = company.expires + Grace

LEMMA OwnGraceInit == SubscriptionsInit => OwnGrace
BY DEF SubscriptionsInit, OwnGrace, Blank

LEMMA OwnGraceStep ==
  ASSUME Shape, Recorded, OwnGrace, [SubscriptionsNext]_vars
  PROVE  OwnGrace'
<1> USE DEF billingVars, ghosts
<1> SUFFICES ASSUME ~blurred', company'.sub = "active", ~Clearing', company'.grace # None
             PROVE  company'.expires # None /\ company'.grace = company'.expires + Grace
  BY DEF OwnGrace
<1>1. company \in Companies /\ blurred \in BOOLEAN  BY DEF Shape, Recorded
<1>2. ASSUME UNCHANGED company, ~blurred, ~Clearing
      PROVE  company'.expires # None /\ company'.grace = company'.expires + Grace
  BY <1>2 DEF OwnGrace
<1>3. ASSUME NEW r \in Requests, request' = [request EXCEPT ![r] = Free], request[r].step # "clear"
      PROVE  ~Clearing
  <2>1. \A q \in Requests : q # r => request'[q] = request[q]  BY <1>3 DEF Shape
  <2> QED  BY <1>3, <2>1 DEF Clearing
<1>4. ASSUME NEW r \in Requests, NEW s, Proceeds(r, s), request[r].step # "clear"
      PROVE  ~Clearing
  <2>1. \A q \in Requests : q # r => request'[q] = request[q]  BY <1>4 DEF Shape, Proceeds
  <2> QED  BY <1>4, <2>1 DEF Clearing
\* Whoever writes from the present row keeps to it.
<1>5. ASSUME NEW row, ~blurred, Current(row) PROVE row = company /\ ~Clearing
  BY <1>5 DEF Current, Clearing
<1>6. ASSUME NEW r \in Requests, MarkPaid(r) \/ LoadCompany(r) \/ RequestFails(r)
      PROVE  company'.expires # None /\ company'.grace = company'.expires + Grace
  <2>1. UNCHANGED company  BY <1>6 DEF MarkPaid, LoadCompany, RequestFails
  <2>2. ~blurred /\ request[r].step # "clear"
    <3>1. CASE MarkPaid(r)  BY <1>1, <3>1 DEF MarkPaid
    <3>2. CASE LoadCompany(r)  BY <1>1, <3>2 DEF LoadCompany
    <3>3. CASE RequestFails(r)
      <4>1. blurred' = (blurred \/ request[r].step = "clear")  BY <3>3 DEF RequestFails
      <4> QED  BY ZenonT(20), <1>1, <4>1
    <3> QED  BY <1>6, <3>1, <3>2, <3>3
  <2>3. ~Clearing
    <3>1. CASE LoadCompany(r)
      <4>1. \A q \in Requests : q # r => request'[q] = request[q]
        BY <3>1 DEF Shape, LoadCompany
      <4> QED  BY <2>2, <4>1 DEF Clearing
    <3>2. CASE MarkPaid(r) \/ RequestFails(r)
      BY <1>3, <1>4, <2>2, <3>2 DEF MarkPaid, RequestFails, Ends
    <3> QED  BY <1>6, <3>1, <3>2
  <2> QED  BY <1>2, <2>1, <2>2, <2>3
<1>7. ASSUME NEW r \in Requests, Activate(r) \/ SaveEdit(r) PROVE FALSE
  <2>1. ~blurred /\ Current(request[r].row)  BY <1>7 DEF Activate, SaveEdit
  <2>2. request[r].row = company /\ ~Clearing  BY <1>5, <2>1
  <2>3. company'.grace = company.grace  BY <1>1, <1>7 DEF Activate, SaveEdit, Companies
  <2>4. Proceeds(r, "clear")
    <3>1. CASE Activate(r)  BY <2>2, <2>3, <3>1 DEF Activate
    <3>2. CASE SaveEdit(r)
      <4>1. request[r].pay.sub = "active"  BY <1>1, <3>2 DEF SaveEdit, Companies
      <4> QED  BY <2>2, <2>3, <3>2, <4>1 DEF SaveEdit
    <3> QED  BY <1>7, <3>1, <3>2
  <2>5. request'[r].step = "clear"  BY <2>4 DEF Proceeds, Shape
  <2> QED  BY <2>5 DEF Clearing
<1>8. ASSUME NEW r \in Requests, ClearGrace(r) PROVE FALSE
  BY <1>1, <1>8 DEF ClearGrace, Companies
<1>9. CASE Arrive \/ OwnerStep
  <2>1. company' = company \/ company' = [company EXCEPT !.status = IF company.status = "active"
                                            THEN "suspended" ELSE "active"]
    BY <1>9 DEF Arrive, ConfirmArrives, OwnerStep, EditArrives, ToggleSuspended, SetPaymentStatus
  <2>2. /\ company'.sub = company.sub /\ company'.expires = company.expires
        /\ company'.grace = company.grace
    BY <1>1, <2>1 DEF Companies
  <2>3. UNCHANGED blurred
    BY <1>9 DEF Arrive, ConfirmArrives, OwnerStep, EditArrives, ToggleSuspended, SetPaymentStatus
  <2>4. \/ UNCHANGED request
        \/ \E r \in Requests : \E x : request[r] = Free /\ request' = [request EXCEPT ![r] = x]
    BY <1>9 DEF Arrive, ConfirmArrives, OwnerStep, EditArrives, ToggleSuspended,
                SetPaymentStatus, Starts
  <2>5. ~Clearing
    <3>1. ASSUME NEW r \in Requests, NEW x, request[r] = Free, request' = [request EXCEPT ![r] = x]
          PROVE  ~Clearing
      <4>1. \A q \in Requests : q # r => request'[q] = request[q]  BY <3>1 DEF Shape
      <4> QED  BY <3>1, <4>1 DEF Clearing, Free
    <3> QED  BY <2>4, <3>1 DEF Clearing
  <2> QED  BY <2>2, <2>3, <2>5 DEF OwnGrace
<1>10. CASE Crash
  <2>1. ~Clearing /\ ~blurred /\ UNCHANGED company  BY <1>10 DEF Crash, Clearing
  <2> QED  BY <1>2, <2>1
<1>11. CASE StartGrace
  <2>1. ~blurred /\ sweep.row = company  BY <1>5, <1>11 DEF StartGrace
  <2> QED  BY <1>1, <1>11, <2>1 DEF StartGrace, Evaluates, Due, Companies
<1>12. CASE ExpireTrial \/ EndGrace \/ SweepClears
  BY <1>1, <1>12 DEF ExpireTrial, EndGrace, WriteExpired, SweepClears, Companies
<1>13. CASE \/ Tick \/ SweepReads \/ NothingDue \/ (\E m \in sweep.reminders : Remind(m)) \/ Tell
            \/ SweepMovesOn \/ SweepFails \/ UNCHANGED vars
  <2>1. UNCHANGED <<company, request>>
    BY <1>13 DEF Tick, SweepReads, NothingDue, Remind, Tell, SweepMovesOn, SweepFails, vars
  <2>2. UNCHANGED blurred \/ blurred' = (blurred \/ sweep.step = "ungrace")
    <3>1. CASE SweepFails  BY ZenonT(20), <3>1 DEF SweepFails
    <3>2. CASE \/ Tick \/ SweepReads \/ NothingDue \/ (\E m \in sweep.reminders : Remind(m))
               \/ Tell \/ SweepMovesOn \/ UNCHANGED vars
      BY <3>2 DEF Tick, SweepReads, NothingDue, Remind, Tell, SweepMovesOn, vars
    <3> QED  BY <1>13, <3>1, <3>2
  <2>3. ~blurred  BY ZenonT(20), <2>2
  <2>4. ~Clearing  BY <2>1 DEF Clearing
  <2> QED  BY <1>2, <2>1, <2>3, <2>4
<1> QED
  BY <1>6, <1>7, <1>8, <1>9, <1>10, <1>11, <1>12, <1>13
     DEF SubscriptionsNext, SweepStep, RequestStep, Failure

\* Only a subscription whose own grace period is over is expired by the sweep
\* (processGracePeriodEnd), as long as nobody has written from a row that somebody
\* else had changed, and no clean-up was lost.
THEOREM GraceIsGiven == SubscriptionsSpec => EndedOnlyAfterGrace
<1>1. ASSUME Shape, Recorded, OwnGrace, [SubscriptionsNext]_vars,
             sweep' # sweep, company.sub = "active", company'.sub = "expired", ~blurred'
      PROVE  company.grace = company.expires + Grace /\ company.grace <= today
  <2> USE DEF billingVars, ghosts
  <2>1. company \in Companies  BY <1>1 DEF Shape
  <2>2. ExpireTrial \/ EndGrace
    <3>1. CASE StartGrace \/ SweepClears
      BY <1>1, <2>1, <3>1 DEF StartGrace, SweepClears, Companies
    <3>2. CASE \/ Tick \/ SweepReads \/ NothingDue \/ (\E m \in sweep.reminders : Remind(m))
               \/ Tell \/ SweepMovesOn \/ UNCHANGED vars \/ Failure
      <4>1. UNCHANGED company
        BY <3>2 DEF Tick, SweepReads, NothingDue, Remind, Tell, SweepMovesOn, vars, Failure,
                    Crash, SweepFails, RequestFails
      <4> QED  BY <1>1, <4>1
    <3>3. CASE Arrive \/ OwnerStep
      <4>1. UNCHANGED sweep
        BY <3>3 DEF Arrive, ConfirmArrives, OwnerStep, EditArrives, ToggleSuspended,
                    SetPaymentStatus
      <4> QED  BY <1>1, <4>1
    <3>4. CASE \E r \in Requests : RequestStep(r)
      <4>1. UNCHANGED sweep
        BY <3>4 DEF RequestStep, MarkPaid, LoadCompany, Activate, SaveEdit, ClearGrace
      <4> QED  BY <1>1, <4>1
    <3> QED  BY <1>1, <3>1, <3>2, <3>3, <3>4 DEF SubscriptionsNext, SweepStep
  <2>3. ~blurred /\ Current(sweep.row)
    BY <1>1, <2>2 DEF ExpireTrial, EndGrace, WriteExpired
  <2>4. sweep.row = company /\ ~Clearing  BY <2>3 DEF Current, Clearing
  <2>5. EndGrace  BY <1>1, <2>2, <2>4 DEF ExpireTrial, Evaluates
  <2>6. company.grace # None /\ company.grace <= today  BY <2>4, <2>5 DEF EndGrace, Due
  <2> QED  BY <1>1, <2>3, <2>4, <2>6 DEF OwnGrace
<1>2. SubscriptionsInv /\ Recorded /\ OwnGrace /\ [SubscriptionsNext]_vars => OwnGrace'
  BY OwnGraceStep DEF SubscriptionsInv
<1>3. SubscriptionsInv /\ Recorded /\ OwnGrace /\ [SubscriptionsNext]_vars =>
        [sweep' # sweep /\ company.sub = "active" /\ company'.sub = "expired" /\ ~blurred' =>
           company.grace = company.expires + Grace /\ company.grace <= today]_vars
  BY <1>1 DEF SubscriptionsInv
<1> QED
  BY OwnGraceInit, SubscriptionsInvariance, RecordedHolds, <1>2, <1>3, PTL
     DEF SubscriptionsSpec, EndedOnlyAfterGrace

----------------------------------------------------------------------------
(* A renewal stands, unless somebody writes from an old row.               *)

\* What has been paid for is the end that the row gives.
PaidIsTheEnd == paidUntil # None => company.expires = paidUntil

RenewalHolds == ~blurred => PaidIsTheEnd /\ RenewalStands

\* That a row was blurred is not forgotten.
LEMMA BlurStays ==
  ASSUME Recorded, [SubscriptionsNext]_vars, ~blurred'
  PROVE  ~blurred
<1> USE DEF billingVars, ghosts
<1>1. CASE \E r \in Requests : Activate(r) \/ SaveEdit(r)
  <2>1. \E x : blurred' = (blurred \/ x)  BY <1>1 DEF Activate, SaveEdit
  <2> QED  BY ZenonT(20), <2>1
<1>2. CASE \E r \in Requests : RequestFails(r)
  <2>1. \E x : blurred' = (blurred \/ x)  BY <1>2 DEF RequestFails
  <2> QED  BY ZenonT(20), <2>1
<1>3. CASE ExpireTrial \/ StartGrace \/ EndGrace
  <2>1. \E x : blurred' = (blurred \/ x)
    BY <1>3 DEF ExpireTrial, StartGrace, EndGrace, WriteExpired
  <2> QED  BY ZenonT(20), <2>1
<1>4. CASE Crash
  BY ZenonT(20), <1>4 DEF Crash
<1>5. CASE SweepFails
  BY ZenonT(20), <1>5 DEF SweepFails
<1>6. CASE \/ Tick \/ Arrive \/ OwnerStep \/ SweepReads \/ SweepClears \/ NothingDue \/ Tell
           \/ SweepMovesOn \/ UNCHANGED vars \/ (\E m \in sweep.reminders : Remind(m))
           \/ \E r \in Requests : MarkPaid(r) \/ LoadCompany(r) \/ ClearGrace(r)
  BY <1>6 DEF Tick, Arrive, ConfirmArrives, OwnerStep, EditArrives, ToggleSuspended,
     SetPaymentStatus, SweepReads, SweepClears, NothingDue, Tell, SweepMovesOn, vars, Remind,
     MarkPaid, LoadCompany, ClearGrace
<1> QED
  BY <1>1, <1>2, <1>3, <1>4, <1>5, <1>6
     DEF SubscriptionsNext, SweepStep, RequestStep, Failure

LEMMA RenewalHoldsStep ==
  ASSUME Shape, Recorded, RenewalHolds, [SubscriptionsNext]_vars
  PROVE  RenewalHolds'
<1> USE DEF billingVars, ghosts
<1> SUFFICES ASSUME ~blurred' PROVE PaidIsTheEnd' /\ RenewalStands'  BY DEF RenewalHolds
<1>1. PaidIsTheEnd /\ RenewalStands  BY BlurStays DEF RenewalHolds
<1>2. /\ company \in Companies /\ paidUntil \in Dates /\ today \in Nat
      /\ sweep \in [step : {"resting", "evaluate", "remind", "telling", "ungrace"},
                    row : Companies, reminders : SUBSET Reminders,
                    reminder : Reminders \cup {None}]
  BY DaysAreNumbers DEF Shape, Recorded
<1>3. ASSUME company'.sub = company.sub, company'.expires = company.expires,
             UNCHANGED paidUntil, today' \in {today, today + 1},
             sweep'.step = "ungrace" => sweep.step = "ungrace"
      PROVE  PaidIsTheEnd' /\ RenewalStands'
  <2>1. PaidIsTheEnd'  BY <1>1, <1>3 DEF PaidIsTheEnd
  <2>2. paidUntil # None => paidUntil \in Nat  BY <1>2, NoneIsNoDay DEF Dates
  <2> QED  BY <1>1, <1>2, <1>3, <2>1, <2>2 DEF RenewalStands
\* A payment sets the end it is good for; an edit is another agreement.
<1>4. CASE \E r \in Requests : Activate(r)
  BY <1>2, <1>4 DEF Activate, Companies, PaidIsTheEnd, RenewalStands
<1>5. CASE \E r \in Requests : SaveEdit(r)
  BY <1>5 DEF SaveEdit, PaidIsTheEnd, RenewalStands
\* The sweep writes the end it has read, which is the present one, and is over.
<1>6. CASE ExpireTrial \/ EndGrace
  <2>1. blurred' = (blurred \/ ~Current(sweep.row))
    BY <1>6 DEF ExpireTrial, EndGrace, WriteExpired
  <2>2. Current(sweep.row)  BY ZenonT(20), <2>1
  <2>3. sweep.row = company  BY <2>2 DEF Current
  <2>4. /\ company'.expires = company.expires /\ UNCHANGED <<paidUntil, today>>
    BY <1>2, <1>6, <2>3 DEF ExpireTrial, EndGrace, WriteExpired, Companies
  <2>5. PaidIsTheEnd'  BY <1>1, <2>4 DEF PaidIsTheEnd
  <2>6. RenewalStands'
    <3>1. CASE ExpireTrial
      BY <1>2, <3>1 DEF ExpireTrial, Resting, RenewalStands
    <3>2. CASE EndGrace
      <4>1. company.expires <= today  BY <2>3, <3>2 DEF EndGrace, Due
      <4> QED  BY <2>4, <2>5, <4>1 DEF PaidIsTheEnd, RenewalStands
    <3> QED  BY <1>6, <3>1, <3>2
  <2> QED  BY <2>5, <2>6
<1>7. CASE StartGrace \/ SweepClears
  <2>1. \E g : company' = [company EXCEPT !.grace = g]  BY <1>7 DEF StartGrace, SweepClears
  <2>2. company'.sub = company.sub /\ company'.expires = company.expires
    BY <1>2, <2>1 DEF Companies
  <2>3. UNCHANGED <<paidUntil, today>> /\ sweep'.step = "resting"
    BY <1>7 DEF StartGrace, SweepClears, Resting
  <2> QED  BY <1>3, <2>2, <2>3
<1>8. CASE \E r \in Requests : ClearGrace(r)
  <2>1. company' = [company EXCEPT !.grace = None] /\ UNCHANGED <<paidUntil, today, sweep>>
    BY <1>8 DEF ClearGrace
  <2>2. company'.sub = company.sub /\ company'.expires = company.expires
    BY <1>2, <2>1 DEF Companies
  <2> QED  BY <1>3, <2>1, <2>2
<1>9. CASE \E r \in Requests : MarkPaid(r) \/ LoadCompany(r) \/ RequestFails(r)
  <2>1. UNCHANGED <<company, paidUntil, today, sweep>>
    BY <1>9 DEF MarkPaid, LoadCompany, RequestFails
  <2> QED  BY <1>3, <2>1
<1>10. CASE Arrive \/ OwnerStep
  <2>1. company' = company \/ company' = [company EXCEPT !.status = IF company.status = "active"
                                            THEN "suspended" ELSE "active"]
    BY <1>10 DEF Arrive, ConfirmArrives, OwnerStep, EditArrives, ToggleSuspended, SetPaymentStatus
  <2>2. company'.sub = company.sub /\ company'.expires = company.expires
    BY <1>2, <2>1 DEF Companies
  <2>3. UNCHANGED <<paidUntil, today, sweep>>
    BY <1>10 DEF Arrive, ConfirmArrives, OwnerStep, EditArrives, ToggleSuspended, SetPaymentStatus
  <2> QED  BY <1>3, <2>2, <2>3
<1>11. CASE \/ Tick \/ SweepReads \/ NothingDue \/ (\E m \in sweep.reminders : Remind(m)) \/ Tell
            \/ SweepMovesOn \/ SweepFails \/ Crash \/ UNCHANGED vars
  <2>1. UNCHANGED <<company, paidUntil>> /\ today' \in {today, today + 1}
    BY <1>11 DEF Tick, SweepReads, NothingDue, Remind, Tell, SweepMovesOn, SweepFails, Crash, vars
  <2>2. sweep'.step = "ungrace" => sweep.step = "ungrace"
    <3>1. CASE Tick \/ SweepReads \/ UNCHANGED vars
      BY <3>1 DEF Tick, SweepReads, Resting, vars
    <3>2. CASE SweepMovesOn \/ SweepFails \/ Crash
      BY <3>2 DEF SweepMovesOn, SweepFails, Crash, Resting
    <3>3. CASE NothingDue \/ (\E m \in sweep.reminders : Remind(m)) \/ Tell
      BY <1>2, <3>3 DEF NothingDue, Remind, Tell
    <3> QED  BY <1>11, <3>1, <3>2, <3>3
  <2> QED  BY <1>3, <2>1, <2>2
<1> QED
  BY <1>4, <1>5, <1>6, <1>7, <1>8, <1>9, <1>10, <1>11
     DEF SubscriptionsNext, SweepStep, RequestStep, Failure

\* The sweep that ends a grace period never expires what has been paid for beyond today
\* (processRenewalSuccess), as long as nobody has written from a row that somebody else
\* had changed: the stale row in the run subscriptions_renewal is all there is to it.
THEOREM RenewalsStandUnlessStale == SubscriptionsSpec => [](~blurred => RenewalStands)
<1>1. SubscriptionsInit => RenewalHolds
  BY DEF SubscriptionsInit, RenewalHolds, PaidIsTheEnd, RenewalStands
<1>2. SubscriptionsInv /\ Recorded /\ RenewalHolds /\ [SubscriptionsNext]_vars => RenewalHolds'
  BY RenewalHoldsStep DEF SubscriptionsInv
<1>3. RenewalHolds => (~blurred => RenewalStands)  BY DEF RenewalHolds
<1> QED
  BY <1>1, <1>2, <1>3, SubscriptionsInvariance, RecordedHolds, PTL DEF SubscriptionsSpec
=============================================================================
