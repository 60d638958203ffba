------------------------- MODULE NotificationSweep -------------------------
(***************************************************************************)
(* The hourly sweep that reminds people of tasks that are due soon or       *)
(* overdue (notificationSweep.js).  A pass walks through the companies, in  *)
(* the order of their ids from the one the previous pass had to stop at,    *)
(* and through the tasks of each; it awaits a query before each decision    *)
(* and makes a bounded number of notifications.                             *)
(*                                                                         *)
(* The e-mail of a notification is left out: dispatchEmail throws nothing   *)
(* and decides nothing.  A task has one assignee.                           *)
(***************************************************************************)
EXTENDS Naturals, FiniteSets

CONSTANTS
  Tenants,      \* company ids
  Todos,        \* task ids, of all companies
  TenantOf,     \* the company of each task
  Passes,       \* ticks of the timer that may be under way
  MaxPerTenant, \* NOTIFICATION_SWEEP_MAX_PER_TENANT
  MaxPerRun,    \* NOTIFICATION_SWEEP_MAX_PER_RUN
  Window,       \* NOTIFICATION_DUE_SOON_DAYS
  Horizon       \* bound: days

ASSUME TenantsAreIds == Tenants \subseteq Nat \ {0} /\ IsFiniteSet(Tenants)
ASSUME TodosAreIds == Todos \subseteq Nat /\ TenantOf \in [Todos -> Tenants]
ASSUME CapsType == MaxPerTenant \in Nat \ {0} /\ MaxPerRun \in Nat \ {0}
\* The defaults are 50 and 200.
ASSUME CapsLeaveRoom == MaxPerTenant <= MaxPerRun
ASSUME DaysType == Window \in Nat /\ Horizon \in Nat

VARIABLES
  today,
  todo,       \* each task: its due date, and whether its assignee is to be reminded
  served,     \* companies that isCompanyAccessAllowed lets in
  notified,   \* rows of the table notifications of each task, by type
  erased,     \* history: those its assignee has deleted
  sweeping,   \* sweepInProgress
  startAt,    \* nextStartCompanyId; 0 is null
  pass,       \* what each pass under way has read and made
  made,       \* history: notifications each pass has written
  waited      \* history: passes in a row that did not give a company its full turn

sweepVars ==
  <<today, todo, served, notified, erased, sweeping, startAt, pass, made, waited>>

Days == 0..Horizon
Types == {"task_due_soon", "task_overdue"}
Eligible == [todo : Todos, type : Types, due : Days]

\* Asleep, awaiting the list of companies, between two of them, or in one: about
\* to ask for an existing notification, or about to write one.
Stages == {"asleep", "listing", "between", "asking", "writing"}

\* left: companies whose turn is still to come; tenant, due, mine, limit: of the company
\* it is in; made: of the companies before; resume: where the next pass is to start;
\* short: companies that did not get their full turn.
PassType ==
  [at : Stages, left : SUBSET Tenants, tenant : Tenants \cup {0}, due : SUBSET Eligible,
   mine : Nat, limit : Nat, made : Nat, resume : Tenants \cup {0}, short : SUBSET Tenants]
Asleep ==
  [at |-> "asleep", left |-> {}, tenant |-> 0, due |-> {}, mine |-> 0, limit |-> 0,
   made |-> 0, resume |-> 0, short |-> {}]

\* orderCompanies: from startAt upwards, then from the lowest id on.
Before(c, d) ==
  \/ c >= startAt /\ d < startAt
  \/ (c >= startAt <=> d >= startAt) /\ c < d
ComesFirst(c, C) == c \in C /\ \A d \in C \ {c} : Before(c, d)

\* compareCandidates: due-soon before overdue, then by date, then by id.
Precedes(x, y) ==
  \/ x.type = "task_due_soon" /\ y.type = "task_overdue"
  \/ x.type = y.type /\ x.due < y.due
  \/ x.type = y.type /\ x.due = y.due /\ x.todo < y.todo
IsNext(x, p) == x \in pass[p].due /\ \A y \in pass[p].due \ {x} : Precedes(x, y)

\* The tasks of a company that are overdue or due within the window.
EligibleIn(c) ==
  {[todo |-> t, due |-> todo[t].due,
    type |-> IF todo[t].due < today THEN "task_overdue" ELSE "task_due_soon"] :
     t \in {u \in Todos : TenantOf[u] = c /\ todo[u].open /\ todo[u].due <= today + Window}}

SweepInit ==
  /\ today = 0
  /\ todo \in [Todos -> [due : Days, open : {TRUE}]]
  /\ served = Tenants
  /\ notified = [t \in Todos |-> [type \in Types |-> 0]] /\ erased = notified
  /\ sweeping = FALSE /\ startAt = 0
  /\ pass = [p \in Passes |-> Asleep]
  /\ made = [p \in Passes |-> 0]
  /\ waited = [c \in Tenants |-> 0]

-----------------------------------------------------------------------------
(* One pass.                                                               *)

At(p, stage) == pass[p].at = stage
Becomes(p, new) == pass' = [pass EXCEPT ![p] = new]
OnlyPass == UNCHANGED <<today, todo, served, notified, erased, sweeping, startAt, made, waited>>

\* A bug: a tick starts a pass whether or not one is under way.
TicksOverlap(p) ==
  /\ At(p, "asleep") /\ sweeping' = TRUE
  /\ Becomes(p, [Asleep EXCEPT !.at = "listing"])
  /\ made' = [made EXCEPT ![p] = 0]
  /\ UNCHANGED <<today, todo, served, notified, erased, startAt, waited>>

Ticks(p) ==
  /\ At(p, "asleep") /\ ~sweeping /\ sweeping' = TRUE
  /\ Becomes(p, [Asleep EXCEPT !.at = "listing"])
  /\ made' = [made EXCEPT ![p] = 0]
  /\ UNCHANGED <<today, todo, served, notified, erased, startAt, waited>>

ListsCompanies(p) ==
  /\ At(p, "listing")
  /\ Becomes(p, [Asleep EXCEPT !.at = "between", !.left = served])
  /\ OnlyPass

\* The list cannot be read: the pass is over and nothing else happens.
ListFails(p) ==
  /\ At(p, "listing") /\ Becomes(p, Asleep)
  /\ sweeping' = FALSE
  /\ UNCHANGED <<today, todo, served, notified, erased, startAt, made, waited>>

\* sweepTenant: the candidates of the next company, while there is budget left.
EntersCompany(p, c) ==
  /\ At(p, "between") /\ ComesFirst(c, pass[p].left)
  /\ pass[p].made < MaxPerRun
  /\ LET budget == MaxPerRun - pass[p].made IN
       Becomes(p, [pass[p] EXCEPT
         !.at = "asking", !.left = @ \ {c}, !.tenant = c, !.due = EligibleIn(c), !.mine = 0,
         !.limit = IF MaxPerTenant < budget THEN MaxPerTenant ELSE budget])
  /\ OnlyPass

\* A company's turn is over.
Leave(p) ==
  [pass[p] EXCEPT !.at = "between", !.made = @ + pass[p].mine, !.due = {}, !.mine = 0]

\* hasExistingNotification.  The caps come after the duplicate check.
AsksForExisting(p, x) ==
  /\ At(p, "asking") /\ IsNext(x, p)
  /\ IF notified[x.todo][x.type] > 0
     THEN Becomes(p, [pass[p] EXCEPT !.due = @ \ {x}])
     ELSE IF pass[p].mine < pass[p].limit
     THEN Becomes(p, [pass[p] EXCEPT !.at = "writing"])
     ELSE LET c == pass[p].tenant  cut == pass[p].limit < MaxPerTenant IN
            Becomes(p, [Leave(p) EXCEPT
              !.resume = IF cut /\ @ = 0 THEN c ELSE @,
              !.short = IF cut THEN @ \cup {c} ELSE @])
  /\ OnlyPass

\* createNotification.
Notifies(p, x) ==
  /\ At(p, "writing") /\ IsNext(x, p)
  /\ notified' = [notified EXCEPT ![x.todo][x.type] = @ + 1]
  /\ made' = [made EXCEPT ![p] = @ + 1]
  /\ Becomes(p, [pass[p] EXCEPT !.at = "asking", !.due = @ \ {x}, !.mine = @ + 1])
  /\ UNCHANGED <<today, todo, served, erased, sweeping, startAt, waited>>

LeavesCompany(p) ==
  /\ At(p, "asking") /\ pass[p].due = {}
  /\ Becomes(p, Leave(p))
  /\ OnlyPass

\* A query of the company's database fails; what was made stays and counts.
CompanyFails(p) ==
  /\ At(p, "asking") \/ At(p, "writing")
  /\ Becomes(p, Leave(p))
  /\ OnlyPass

\* A bug: where to resume is not remembered; every pass starts from the top.
FinishesForgetting(p) ==
  /\ At(p, "between")
  /\ pass[p].left = {} \/ pass[p].made >= MaxPerRun
  /\ startAt' = 0
  /\ waited' = [c \in Tenants |-> IF c \in pass[p].short \cup pass[p].left THEN waited[c] + 1 ELSE 0]
  /\ sweeping' = FALSE
  /\ Becomes(p, Asleep)
  /\ UNCHANGED <<today, todo, served, notified, erased, made>>

\* No company left, or no budget: the rest is deferred, the first of them to the
\* next pass's start.
Finishes(p) ==
  /\ At(p, "between")
  /\ pass[p].left = {} \/ pass[p].made >= MaxPerRun
  /\ LET left == pass[p].left  short == pass[p].short \cup left IN
       /\ startAt' = IF pass[p].resume # 0 \/ left = {} THEN pass[p].resume
                     ELSE CHOOSE c \in left : ComesFirst(c, left)
       /\ waited' = [c \in Tenants |-> IF c \in short THEN waited[c] + 1 ELSE 0]
  /\ sweeping' = FALSE
  /\ Becomes(p, Asleep)
  /\ UNCHANGED <<today, todo, served, notified, erased, made>>

-----------------------------------------------------------------------------
(* Around the passes.                                                      *)

\* The process restarts: the notifications stay, everything in memory is gone, and the next
\* pass starts from the top.
SweeperRestarts ==
  /\ pass' = [p \in Passes |-> Asleep]
  /\ sweeping' = FALSE /\ startAt' = 0
  /\ made' = [p \in Passes |-> 0]
  /\ waited' = [c \in Tenants |-> 0]
  /\ UNCHANGED <<today, todo, served, notified, erased>>

DayPasses ==
  /\ today < Horizon /\ today' = today + 1
  /\ UNCHANGED <<todo, served, notified, erased, sweeping, startAt, pass, made, waited>>

\* Somebody closes, reopens or postpones a task.
EditTodo(t, new) ==
  /\ todo[t] # new /\ todo' = [todo EXCEPT ![t] = new]
  /\ UNCHANGED <<today, served, notified, erased, sweeping, startAt, pass, made, waited>>

\* A company is suspended, expires or comes back.
ToggleServed(c) ==
  /\ served' = IF c \in served THEN served \ {c} ELSE served \cup {c}
  /\ UNCHANGED <<today, todo, notified, erased, sweeping, startAt, pass, made, waited>>

\* The assignee bins a reminder in the bell: the row is gone.
DeletesReminder(t, type) ==
  /\ notified[t][type] > 0
  /\ notified' = [notified EXCEPT ![t][type] = @ - 1]
  /\ erased' = [erased EXCEPT ![t][type] = @ + 1]
  /\ UNCHANGED <<today, todo, served, sweeping, startAt, pass, made, waited>>

PassStep(p) ==
  \/ Ticks(p) \/ ListsCompanies(p) \/ ListFails(p) \/ LeavesCompany(p) \/ Finishes(p)
  \/ \E c \in Tenants : EntersCompany(p, c)
  \/ \E x \in pass[p].due : AsksForExisting(p, x) \/ Notifies(p, x)

SweepNext ==
  \/ \E p \in Passes : PassStep(p) \/ CompanyFails(p)
  \/ SweeperRestarts \/ DayPasses
  \/ \E t \in Todos, new \in [due : Days, open : BOOLEAN] : EditTodo(t, new)
  \/ \E c \in Tenants : ToggleServed(c)
  \/ \E t \in Todos, type \in Types : DeletesReminder(t, type)

SweepSpec == SweepInit /\ [][SweepNext]_sweepVars

-----------------------------------------------------------------------------
SweepTypeOK ==
  /\ today \in Days
  /\ todo \in [Todos -> [due : Days, open : BOOLEAN]]
  /\ served \subseteq Tenants
  /\ notified \in [Todos -> [Types -> Nat]] /\ erased \in [Todos -> [Types -> Nat]]
  /\ sweeping \in BOOLEAN /\ startAt \in Tenants \cup {0}
  /\ pass \in [Passes -> PassType]
  /\ made \in [Passes -> Nat] /\ waited \in [Tenants -> Nat]

\* Nobody has the same reminder twice in the bell, and no pass writes more than
\* MaxPerRun of them, whatever fails half-way (a tenant that throws partway "still has
\* what it already created counted against the run-wide budget").
RemindersAreBounded ==
  /\ \A t \in Todos, type \in Types : notified[t][type] <= 1
  /\ \A p \in Passes : made[p] <= MaxPerRun

\* What the sweep says of itself (notificationSweep.js:36-39): running every hour against
\* the same task "creates exactly one notification, not one per sweep tick".
OneReminderPerTask ==
  \A t \in Todos, type \in Types : notified[t][type] + erased[t][type] <= 1

\* "A few large backlogs can't keep later tenants waiting pass after pass": between
\* two restarts no company misses its full turn as often as there are companies,
\* however companies come and go meanwhile.
NobodyWaitsPassAfterPass == \A c \in Tenants : waited[c] < Cardinality(Tenants)
=============================================================================
