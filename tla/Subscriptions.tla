---------------------------- MODULE Subscriptions ----------------------------
(***************************************************************************)
(* What a company may use and until when: its row of platform.companies    *)
(* (platformCompanyService.js), the payments that extend it                *)
(* (platformPaymentController.js, paymentService.js), the Platform Owner's *)
(* own edits (platformCompanyController.js) and the hourly sweep that      *)
(* expires it (subscriptionLifecycleService.js).                           *)
(*                                                                         *)
(* Everything runs on one process, so what interleaves are the awaits: a   *)
(* request or the sweep reads the company's row, waits, and writes columns *)
(* of the row it has read.  Days stand for timestamps.                     *)
(***************************************************************************)
EXTENDS Integers, FiniteSets, Sequences

CONSTANTS
  Payments,   \* checkouts of this company, one subscription period each
  Requests,   \* how many HTTP requests may be under way at a time, by name
  Term,       \* the days a payment's billing cycle gives
  Trial,      \* the days of a trial
  Grace,      \* SUBSCRIPTION_GRACE_PERIOD_DAYS
  Windows,    \* the warning days before an end
  Horizon,    \* the last day looked at (a bound)
  None        \* a NULL date

ASSUME TermIsPositive == Term \in [Payments -> Nat \ {0}]
ASSUME DaysAreNumbers == Trial \in Nat /\ Grace \in Nat /\ Horizon \in Nat
ASSUME WindowsAreDays == Windows \subseteq Nat \ {0}
ASSUME NoneIsNoDay == None \notin Nat
ASSUME RequestsAreFew == IsFiniteSet(Requests)

VARIABLES
  today,
  company,      \* the row
  payment,      \* payments.payment_status
  request,      \* what each request under way does next, and the row it has read
  sweep,        \* the same of the sweep
  history,      \* subscription_history: the reminders that were recorded
  told,         \* history: the reminders that were sent, in order
  activations,  \* history: how often a payment has extended the subscription
  opened,       \* history: how often a payment became pending
  granted,      \* history: the last day anybody has ever granted
  paidUntil,    \* history: the end of the last activation, unless the Owner changed it
  blurred,      \* history: something was written from a row that had changed
  lost          \* history: payments whose confirmation died half-way

billingVars == <<company, payment, history, told>>
ghosts == <<activations, opened, granted, paidUntil, blurred, lost>>
vars == <<today, company, payment, request, sweep, history, told, ghosts>>

Subs == {"trial", "active", "expired", "cancelled"}
Dates == Nat \cup {None}
Companies == [status : {"active", "suspended"}, sub : Subs,
              trialEnds : Dates, expires : Dates, grace : Dates]
Statuses == {"pending", "paid", "failed", "refunded", "cancelled"}
Kinds == {"trial_ending_soon", "subscription_expiring_soon", "grace_period_ending"}
Reminders == [kind : Kinds, window : Windows, at : Nat]
Edits == [sub : Subs, trialEnds : Dates, expires : Dates]

Blank == [status |-> "active", sub |-> "trial",
          trialEnds |-> None, expires |-> None, grace |-> None]
Free == [step |-> "free", pay |-> None, row |-> Blank]
Resting == [step |-> "resting", row |-> Blank, reminders |-> {}, reminder |-> None]

Past(d) == d # None /\ d < today
Due(d) == d # None /\ d <= today

\* isCompanyAccessAllowed
Allowed(c) ==
  /\ c.status = "active"
  /\ c.sub \notin {"cancelled", "expired"}
  /\ Past(c.expires) => c.grace # None /\ c.grace >= today
  /\ c.sub = "trial" => ~Past(c.trialEnds)

\* The last day a company's row gives, grace aside; no date at all is for ever.
LastDay(c) ==
  LET end == IF c.sub = "trial" /\ c.trialEnds # None THEN c.trialEnds ELSE c.expires IN
    CASE c.sub \in {"cancelled", "expired"} -> 0
      [] c.sub \in {"trial", "active"} -> IF end = None THEN Horizon ELSE end

Later(d, e) == IF d < e THEN e ELSE d

SubscriptionsInit ==
  /\ today = 0
  /\ company \in {[Blank EXCEPT !.trialEnds = Trial],
                  [Blank EXCEPT !.sub = "active", !.expires = Trial]}
  /\ payment = [p \in Payments |-> "pending"]
  /\ request = [r \in Requests |-> Free]
  /\ sweep = Resting
  /\ history = {} /\ told = << >>
  /\ activations = [p \in Payments |-> 0] /\ opened = [p \in Payments |-> 1]
  /\ granted = Trial /\ paidUntil = None /\ blurred = FALSE
  /\ lost = {}

\* A row that is written from is current if nobody has changed it since, and
\* nobody still has to clear the grace period of the subscription before.
Current(row) == row = company /\ \A r \in Requests : request[r].step # "clear"

Starts(r, next) == request[r] = Free /\ request' = [request EXCEPT ![r] = next]
Proceeds(r, step) == request' = [request EXCEPT ![r].step = step]
Ends(r) == request' = [request EXCEPT ![r] = Free]

----------------------------------------------------------------------------
(* Confirming a payment: the browser's verify call and the provider's      *)
(* webhook, delivered any number of times, both come to                    *)
(* finalizePaymentSuccess.                                                 *)

ConfirmArrives(r, p) ==
  /\ payment[p] = "pending"
  /\ Starts(r, [Free EXCEPT !.step = "mark", !.pay = p])
  /\ UNCHANGED <<today, billingVars, sweep, ghosts>>

MarkPaidSwapped(r) ==
  LET p == request[r].pay IN
    /\ request[r].step = "mark"
    /\ payment' = [payment EXCEPT ![p] = IF @ = "pending" THEN "paid" ELSE @]
    /\ IF payment[p] = "pending" THEN Ends(r) ELSE Proceeds(r, "load")
    /\ UNCHANGED <<today, company, sweep, history, told, ghosts>>

MarkPaidTwice(r) ==
  LET p == request[r].pay IN
    /\ request[r].step = "mark"
    /\ payment' = [payment EXCEPT ![p] = "paid"]
    /\ Proceeds(r, "load")
    /\ UNCHANGED <<today, company, sweep, history, told, ghosts>>

\* markPaymentPaid: the one that makes it 'paid' goes on to activate.
MarkPaid(r) ==
  LET p == request[r].pay IN
    /\ request[r].step = "mark"
    /\ IF payment[p] = "pending"
       THEN payment' = [payment EXCEPT ![p] = "paid"] /\ Proceeds(r, "load")
       ELSE Ends(r) /\ UNCHANGED payment
    /\ UNCHANGED <<today, company, sweep, history, told, ghosts>>

LoadCompany(r) ==
  /\ request[r].step = "load"
  /\ request' = [request EXCEPT ![r].step = "activate", ![r].row = company]
  /\ UNCHANGED <<today, billingVars, sweep, ghosts>>

\* updateCompanySubscription; then the grace period, if the row that was read
\* before it had one, is still to be cleared (processRenewalSuccess).
Activate(r) ==
  LET p == request[r].pay
      row == request[r].row
      end == today + Term[p] IN
    /\ request[r].step = "activate"
    /\ company' = [company EXCEPT !.sub = "active", !.trialEnds = row.trialEnds,
                                  !.expires = end]
    /\ activations' = [activations EXCEPT ![p] = @ + 1]
    /\ granted' = Later(granted, end)
    /\ paidUntil' = end
    /\ blurred' = (blurred \/ ~Current(row))
    /\ IF row.grace # None THEN Proceeds(r, "clear") ELSE Ends(r)
    /\ UNCHANGED <<today, payment, sweep, history, told, opened, lost>>

ClearGrace(r) ==
  /\ request[r].step = "clear"
  /\ company' = [company EXCEPT !.grace = None]
  /\ Ends(r)
  /\ UNCHANGED <<today, payment, sweep, history, told, ghosts>>

\* A confirmation that has made the payment 'paid' is still to activate.
Activating(p) ==
  \E r \in Requests : request[r].step \in {"load", "activate"} /\ request[r].pay = p

\* A query fails: the error is logged, what is left of the request is not done,
\* and a repeat of the confirmation finds the payment 'paid' already.
RequestFails(r) ==
  /\ request[r].step # "free"
  /\ Ends(r)
  /\ blurred' = (blurred \/ request[r].step = "clear")
  /\ lost' = lost \cup {p \in Payments :
                        request[r].step \in {"load", "activate"} /\ request[r].pay = p}
  /\ UNCHANGED <<today, billingVars, sweep, activations, opened, granted, paidUntil>>

----------------------------------------------------------------------------
(* The Platform Owner.                                                     *)

\* updateSubscription reads the row for its history ...
EditArrives(r, e) ==
  /\ Starts(r, [Free EXCEPT !.step = "save", !.pay = e, !.row = company])
  /\ UNCHANGED <<today, billingVars, sweep, ghosts>>

\* ... and writes what the form says.
SaveEdit(r) ==
  LET e == request[r].pay
      row == request[r].row IN
    /\ request[r].step = "save"
    /\ company' = [company EXCEPT !.sub = e.sub, !.trialEnds = e.trialEnds,
                                  !.expires = e.expires]
    /\ granted' = Later(granted, LastDay(company'))
    /\ paidUntil' = None
    /\ blurred' = (blurred \/ ~Current(row))
    /\ IF e.sub = "active" /\ row.grace # None THEN Proceeds(r, "clear") ELSE Ends(r)
    /\ UNCHANGED <<today, payment, sweep, history, told, activations, opened, lost>>

\* suspendCompany and its mirror
ToggleSuspended ==
  /\ company' = [company EXCEPT !.status = IF @ = "active" THEN "suspended" ELSE "active"]
  /\ UNCHANGED <<today, payment, request, sweep, history, told, ghosts>>

\* updatePaymentStatus: any status but 'paid', whatever the present one is.
SetPaymentStatus(p, s) ==
  /\ s # "paid" /\ s # payment[p]
  /\ payment' = [payment EXCEPT ![p] = s]
  /\ opened' = [opened EXCEPT ![p] = IF s = "pending" THEN @ + 1 ELSE @]
  /\ UNCHANGED <<today, company, request, sweep, history, told,
                 activations, granted, paidUntil, blurred, lost>>

----------------------------------------------------------------------------
(* The sweep: all rows are read at once, then evaluated one by one.        *)

SweepReads ==
  /\ sweep = Resting /\ company.status = "active"
  /\ sweep' = [Resting EXCEPT !.step = "evaluate", !.row = company]
  /\ UNCHANGED <<today, billingVars, request, ghosts>>

Evaluates(sub) == sweep.step = "evaluate" /\ sweep.row.sub = sub

\* updateCompanySubscription with the dates of the row that was read.
WriteExpired ==
  /\ company' = [company EXCEPT !.sub = "expired", !.trialEnds = sweep.row.trialEnds,
                                !.expires = sweep.row.expires]
  /\ blurred' = (blurred \/ ~Current(sweep.row))
  /\ UNCHANGED <<today, payment, request, history, told,
                 activations, opened, granted, paidUntil, lost>>

\* processTrialExpiry
ExpireTrial ==
  /\ Evaluates("trial") /\ Due(sweep.row.trialEnds)
  /\ WriteExpired
  /\ sweep' = Resting

StartGraceToday ==
  /\ Evaluates("active") /\ Due(sweep.row.expires) /\ sweep.row.grace = None
  /\ company' = [company EXCEPT !.grace = today + Grace]
  /\ blurred' = (blurred \/ ~Current(sweep.row))
  /\ sweep' = Resting
  /\ UNCHANGED <<today, payment, request, history, told,
                 activations, opened, granted, paidUntil, lost>>

\* processGracePeriodStart
StartGrace ==
  /\ Evaluates("active") /\ Due(sweep.row.expires) /\ sweep.row.grace = None
  /\ company' = [company EXCEPT !.grace = sweep.row.expires + Grace]
  /\ blurred' = (blurred \/ ~Current(sweep.row))
  /\ sweep' = Resting
  /\ UNCHANGED <<today, payment, request, history, told,
                 activations, opened, granted, paidUntil, lost>>

EndGraceEarly ==
  /\ Evaluates("active") /\ Due(sweep.row.expires)
  /\ sweep.row.grace # None
  /\ WriteExpired
  /\ sweep' = [sweep EXCEPT !.step = "ungrace"]

\* processGracePeriodEnd: the status first ...
EndGrace ==
  /\ Evaluates("active") /\ Due(sweep.row.expires) /\ Due(sweep.row.grace)
  /\ WriteExpired
  /\ sweep' = [sweep EXCEPT !.step = "ungrace"]

\* ... and then the date.
SweepClears ==
  /\ sweep.step = "ungrace"
  /\ company' = [company EXCEPT !.grace = None]
  /\ sweep' = Resting
  /\ UNCHANGED <<today, payment, request, history, told, ghosts>>

\* Which reminders a row asks for today.
Upcoming(row) ==
  LET of(kind, d) == IF d = None \/ d <= today THEN {}
        ELSE {[kind |-> kind, window |-> w, at |-> d] : w \in {w \in Windows : d - today <= w}} IN
    CASE row.sub = "trial" -> of("trial_ending_soon", row.trialEnds)
      [] row.sub = "active" /\ Due(row.expires) -> of("grace_period_ending", row.grace)
      [] row.sub = "active" /\ ~Due(row.expires) -> of("subscription_expiring_soon", row.expires)
      [] OTHER -> {}

\* Nothing is due: what is left of the evaluation is the reminders.
NothingDue ==
  /\ sweep.step = "evaluate"
  /\ ~(sweep.row.sub = "trial" /\ Due(sweep.row.trialEnds))
  /\ sweep.row.sub = "active" /\ Due(sweep.row.expires) =>
       sweep.row.grace # None /\ ~Due(sweep.row.grace)
  /\ sweep' = [sweep EXCEPT !.step = "remind", !.reminders = Upcoming(sweep.row)]
  /\ UNCHANGED <<today, billingVars, request, ghosts>>

RemindAgain(m) ==
  /\ sweep.step = "remind" /\ m \in sweep.reminders
  /\ history' = history \cup {m}
  /\ sweep' = [sweep EXCEPT !.step = "telling", !.reminder = m]
  /\ UNCHANGED <<today, company, payment, request, told, ghosts>>

\* process...Reminders: recorded first, if it has not been (hasEvent) ...
Remind(m) ==
  /\ sweep.step = "remind" /\ m \in sweep.reminders \ history
  /\ history' = history \cup {m}
  /\ sweep' = [sweep EXCEPT !.step = "telling", !.reminder = m]
  /\ UNCHANGED <<today, company, payment, request, told, ghosts>>

\* ... and sent after it.
Tell ==
  /\ sweep.step = "telling"
  /\ told' = Append(told, sweep.reminder)
  /\ sweep' = [sweep EXCEPT !.step = "remind", !.reminder = None]
  /\ UNCHANGED <<today, company, payment, request, history, ghosts>>

SweepMovesOn ==
  /\ sweep.step = "remind" /\ sweep.reminders \subseteq history
  /\ sweep' = Resting
  /\ UNCHANGED <<today, billingVars, request, ghosts>>

\* A query fails: runSweepOnce counts the error and goes on with the next company.
SweepFails ==
  /\ sweep.step # "resting"
  /\ sweep' = Resting
  /\ blurred' = (blurred \/ sweep.step = "ungrace")
  /\ UNCHANGED <<today, billingVars, request, activations, opened, granted, paidUntil, lost>>

----------------------------------------------------------------------------
Tick ==
  /\ today < Horizon
  /\ today' = today + 1
  /\ UNCHANGED <<billingVars, request, sweep, ghosts>>

\* The process restarts: whatever was under way is gone.
Crash ==
  /\ request' = [r \in Requests |-> Free]
  /\ sweep' = Resting
  /\ blurred' = (blurred \/ sweep.step = "ungrace"
                         \/ \E r \in Requests : request[r].step = "clear")
  /\ lost' = lost \cup {p \in Payments : Activating(p)}
  /\ UNCHANGED <<today, billingVars, activations, opened, granted, paidUntil>>

RequestStep(r) ==
  \/ MarkPaid(r) \/ LoadCompany(r) \/ Activate(r) \/ SaveEdit(r) \/ ClearGrace(r)

SweepStep ==
  \/ SweepReads \/ ExpireTrial \/ StartGrace \/ EndGrace \/ SweepClears
  \/ NothingDue \/ (\E m \in sweep.reminders : Remind(m)) \/ Tell \/ SweepMovesOn

Arrive == \E r \in Requests, p \in Payments : ConfirmArrives(r, p)

OwnerStep ==
  \/ \E r \in Requests, s \in Subs,
        t \in {None, today + Trial}, x \in {None, today + Trial} :
          EditArrives(r, [sub |-> s, trialEnds |-> t, expires |-> x])
  \/ ToggleSuspended
  \/ \E p \in Payments, s \in Statuses : SetPaymentStatus(p, s)

Failure == Crash \/ SweepFails \/ \E r \in Requests : RequestFails(r)

SubscriptionsNext ==
  \/ Tick \/ SweepStep \/ Arrive \/ OwnerStep \/ Failure
  \/ \E r \in Requests : RequestStep(r)

SubscriptionsSpec == SubscriptionsInit /\ [][SubscriptionsNext]_vars

----------------------------------------------------------------------------
(* Properties.                                                             *)

SubscriptionsTypeOK ==
  /\ today \in 0..Horizon
  /\ company \in Companies
  /\ payment \in [Payments -> Statuses]
  /\ request \in [Requests ->
       [step : {"free", "mark", "load", "activate", "save", "clear"},
        pay : Payments \cup Edits \cup {None}, row : Companies]]
  /\ sweep \in [step : {"resting", "evaluate", "remind", "telling", "ungrace"},
                row : Companies, reminders : SUBSET Reminders, reminder : Reminders \cup {None}]
  /\ sweep.step = "telling" => sweep.reminder \in Reminders
  /\ history \subseteq Reminders
  /\ told \in Seq(Reminders)
  /\ activations \in [Payments -> Nat] /\ opened \in [Payments -> Nat]
  /\ granted \in Nat /\ paidUntil \in Dates /\ blurred \in BOOLEAN
  /\ lost \subseteq Payments

\* finalizePaymentSuccess: "subscription activation only ever runs on that first,
\* real transition", however often, and from how many sides, a payment is
\* confirmed.  (Setting it back to 'pending' by hand makes it payable again.)
ActivatedOnce == \A p \in Payments : activations[p] <= opened[p]

\* A payment that is 'paid' has extended the subscription or is about to; the
\* exception is a request that died between the two, which nothing repairs.
PaidIsActivated ==
  \A p \in Payments : payment[p] = "paid" =>
    activations[p] > 0 \/ Activating(p) \/ p \in lost

\* Access never outlives the last end anybody has granted by more than the grace
\* period, whatever the sweep writes and however late it does.
NoAccessBeyondGrace == Allowed(company) => today <= granted + Grace

\* subscriptionLifecycleService: only a subscription whose own grace period is over
\* is expired by the sweep - as long as nobody has written from a row that
\* somebody else had changed, and no clean-up was lost.
EndedOnlyAfterGrace ==
  [][sweep' # sweep /\ company.sub = "active" /\ company'.sub = "expired" /\ ~blurred' =>
       /\ company.grace = company.expires + Grace
       /\ company.grace <= today]_vars

\* A reminder is sent at most once for one end date, across restarts.
RemindedOnce == \A k, l \in DOMAIN told : told[k] = told[l] => k = l

\* processRenewalSuccess: a renewal supersedes the grace period, "regardless of
\* which state it was in": the sweep that ends a grace period does not expire what
\* has been paid for beyond today.
RenewalStands ==
  sweep.step = "ungrace" /\ company.sub = "expired" => paidUntil = None \/ paidUntil <= today
=============================================================================
