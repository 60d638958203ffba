---------------------- MODULE NotificationSweepProofs ----------------------
(***************************************************************************)
(* Proofs about NotificationSweep, for any companies, tasks and limits.     *)
(***************************************************************************)
EXTENDS NotificationSweep, FiniteSetTheorems, WellFoundedInduction, TLAPS

\* sweepInProgress lets one pass run at a time.
OneAtATime ==
  \A p \in Passes : ~At(p, "asleep") =>
    sweeping /\ \A q \in Passes : ~At(q, "asleep") => q = p

Inside(p) == At(p, "asking") \/ At(p, "writing")
Running(p) == Inside(p) \/ At(p, "between")

\* What a pass has made is what it has counted, and within the limits.
Budgeted(p) ==
  /\ made[p] <= MaxPerRun
  /\ At(p, "listing") => made[p] = 0
  /\ At(p, "between") => pass[p].mine = 0
  /\ Running(p) => made[p] = pass[p].made + pass[p].mine
  /\ Inside(p) => pass[p].mine <= pass[p].limit /\ pass[p].made + pass[p].limit <= MaxPerRun
  /\ At(p, "writing") => pass[p].mine < pass[p].limit

\* What is about to be written has not been written yet.
Fresh(p) ==
  /\ At(p, "writing") => \A x \in Eligible : IsNext(x, p) => notified[x.todo][x.type] = 0

\* A pass goes forward: who is still to come, comes later, and the place to resume
\* at is not the first one and not behind anybody who missed a turn.
Forward(p) ==
  LET r == pass[p] IN
    Running(p) =>
      /\ r.tenant # 0 => \A d \in r.left : Before(r.tenant, d)
      /\ r.made > 0 \/ Inside(p) => r.tenant # 0
      /\ Inside(p) /\ r.limit < MaxPerTenant => \E f \in Tenants : Before(f, r.tenant)
      /\ r.resume = 0 => r.short = {}
      /\ r.resume # 0 =>
           /\ r.tenant # 0 /\ (r.tenant = r.resume \/ Before(r.resume, r.tenant))
           /\ \E f \in Tenants : Before(f, r.resume)
           /\ \A d \in r.left : Before(r.resume, d)
           /\ \A c \in r.short : c = r.resume \/ Before(r.resume, c)

\* Every turn a company has missed has brought it nearer to the start.
Ahead(c) == {d \in Tenants : Before(d, c)}
Nearer == \A c \in Tenants : waited[c] + Cardinality(Ahead(c)) < Cardinality(Tenants)

SweepInv ==
  /\ SweepTypeOK /\ OneAtATime /\ Nearer
  /\ \A t \in Todos, type \in Types : notified[t][type] <= 1
  /\ \A p \in Passes : Budgeted(p) /\ Fresh(p) /\ Forward(p)

----------------------------------------------------------------------------
(* The order of the companies.                                             *)

LEMMA TenantsAreNumbers ==
  ASSUME SweepTypeOK
  PROVE  (\A c \in Tenants : c \in Nat /\ c # 0) /\ startAt \in Nat
BY TenantsAreIds DEF SweepTypeOK

LEMMA BeforeIsAnOrder ==
  ASSUME SweepTypeOK
  PROVE  /\ \A c \in Tenants : ~Before(c, c)
         /\ \A c, d, e \in Tenants : Before(c, d) /\ Before(d, e) => Before(c, e)
BY TenantsAreNumbers DEF Before

LEMMA AheadIsFinite ==
  ASSUME SweepTypeOK, NEW c \in Tenants
  PROVE  /\ IsFiniteSet(Ahead(c)) /\ Cardinality(Ahead(c)) \in Nat
         /\ Cardinality(Tenants) \in Nat
         /\ Cardinality(Ahead(c)) < Cardinality(Tenants)
<1>1. Ahead(c) \subseteq Tenants \ {c}  BY BeforeIsAnOrder DEF Ahead
<1>2. IsFiniteSet(Tenants \ {c}) /\ Cardinality(Tenants \ {c}) = Cardinality(Tenants) - 1
  BY TenantsAreIds, FS_RemoveElement
<1>3. Cardinality(Tenants) \in Nat  BY TenantsAreIds, FS_CardinalityType
<1>4. IsFiniteSet(Ahead(c)) /\ Cardinality(Ahead(c)) <= Cardinality(Tenants \ {c})
  BY <1>1, <1>2, FS_Subset
<1>5. Cardinality(Ahead(c)) \in Nat  BY <1>4, FS_CardinalityType
<1> QED  BY <1>2, <1>3, <1>4, <1>5

\* If the start moves on, past somebody but not past c, then c is nearer to it.
LEMMA StartMovesOn ==
  ASSUME SweepTypeOK, NEW c \in Tenants, NEW f \in Tenants,
         startAt' \in Tenants, Before(f, startAt'), c = startAt' \/ Before(startAt', c)
  PROVE  Ahead(c)' \subseteq Ahead(c) \ {f} /\ f \in Ahead(c)
<1>1. f \in Ahead(c)  BY BeforeIsAnOrder DEF Ahead
<1>2. ASSUME NEW d \in Tenants, Before(d, c)' PROVE Before(d, c) /\ d # f
  <2> startAt \in Nat /\ startAt' \in Nat /\ c \in Nat /\ d \in Nat /\ f \in Nat
    BY TenantsAreNumbers
  <2>1. \/ d >= startAt' /\ c < startAt'
        \/ (d >= startAt' <=> c >= startAt') /\ d < c
    BY <1>2 DEF Before
  <2> QED  BY <2>1 DEF Before
<1> QED  BY <1>1, <1>2 DEF Ahead

LEMMA MissedTurnsAreMadeUp ==
  ASSUME SweepTypeOK, NEW c \in Tenants, NEW f \in Tenants,
         startAt' \in Tenants, Before(f, startAt'), c = startAt' \/ Before(startAt', c),
         waited[c] + Cardinality(Ahead(c)) < Cardinality(Tenants),
         waited'[c] = waited[c] + 1
  PROVE  waited'[c] + Cardinality(Ahead(c)') < Cardinality(Tenants)
<1>1. Ahead(c)' \subseteq Ahead(c) \ {f} /\ f \in Ahead(c)  BY StartMovesOn
<1>2. /\ IsFiniteSet(Ahead(c) \ {f})
      /\ Cardinality(Ahead(c) \ {f}) = Cardinality(Ahead(c)) - 1
  BY <1>1, AheadIsFinite, FS_RemoveElement
<1>3. /\ Cardinality(Ahead(c)') <= Cardinality(Ahead(c)) - 1
      /\ IsFiniteSet(Ahead(c)')
  BY <1>1, <1>2, FS_Subset
<1>4. /\ Cardinality(Ahead(c)') \in Nat /\ Cardinality(Ahead(c)) \in Nat
      /\ Cardinality(Tenants) \in Nat /\ waited[c] \in Nat
  BY <1>3, AheadIsFinite, FS_CardinalityType DEF SweepTypeOK
<1> QED  BY <1>3, <1>4

\* Every set of companies that is not empty has a first one.
LEMMA SmallestId ==
  ASSUME NEW C \in SUBSET Nat, C # {}
  PROVE  \E c \in C : \A d \in C : c <= d
<1>1. \E c \in C : \A d \in C : <<d, c>> \notin OpToRel(<, Nat)
  BY NatLessThanWellFounded, WFMin
<1>2. \A c, d \in C : <<d, c>> \notin OpToRel(<, Nat) => c <= d
  BY DEF OpToRel
<1> QED  BY <1>1, <1>2

LEMMA SomebodyComesFirst ==
  ASSUME SweepTypeOK, NEW C \in SUBSET Tenants, C # {}
  PROVE  \E c \in C : ComesFirst(c, C)
<1> DEFINE late == {c \in C : c >= startAt}
<1>1. C \subseteq Nat /\ startAt \in Nat  BY TenantsAreNumbers
<1>2. CASE late # {}
  <2>1. PICK c \in late : \A d \in late : c <= d  BY <1>1, <1>2, SmallestId
  <2> QED  BY <1>1, <2>1 DEF ComesFirst, Before
<1>3. CASE late = {}
  <2>1. PICK c \in C : \A d \in C : c <= d  BY <1>1, SmallestId
  <2> QED  BY <1>1, <1>3, <2>1 DEF ComesFirst, Before
<1> QED  BY <1>2, <1>3

LEMMA LaterAheadIsFinite ==
  ASSUME SweepTypeOK', NEW c \in Tenants
  PROVE  Cardinality(Ahead(c)') \in Nat /\ Cardinality(Ahead(c)') < Cardinality(Tenants)
<1>1. Ahead(c)' \subseteq Tenants \ {c}
  <2>1. startAt' \in Nat /\ c \in Nat  BY TenantsAreIds DEF SweepTypeOK
  <2> QED  BY <2>1 DEF Ahead, Before
<1>2. IsFiniteSet(Tenants \ {c}) /\ Cardinality(Tenants \ {c}) = Cardinality(Tenants) - 1
  BY TenantsAreIds, FS_RemoveElement
<1>3. Cardinality(Tenants) \in Nat  BY TenantsAreIds, FS_CardinalityType
<1>4. IsFiniteSet(Ahead(c)') /\ Cardinality(Ahead(c)') <= Cardinality(Tenants \ {c})
  BY <1>1, <1>2, FS_Subset
<1>5. Cardinality(Ahead(c)') \in Nat  BY <1>4, FS_CardinalityType
<1> QED  BY <1>2, <1>3, <1>4, <1>5

\* compareCandidates leaves no choice.
LEMMA NextIsUnique ==
  ASSUME SweepTypeOK, NEW p \in Passes, NEW x, NEW y, IsNext(x, p), IsNext(y, p)
  PROVE  x = y
<1>1. x \in Eligible /\ y \in Eligible  BY DEF SweepTypeOK, PassType, IsNext
<1>2. /\ x.todo \in Nat /\ y.todo \in Nat /\ x.due \in Nat /\ y.due \in Nat
      /\ x.type \in Types /\ y.type \in Types
  <2>1. \A z \in Eligible : z.todo \in Todos /\ z.due \in Days /\ z.type \in Types
    BY DEF Eligible
  <2>2. Days \subseteq Nat /\ Todos \subseteq Nat  BY TodosAreIds, DaysType DEF Days
  <2> QED  BY <1>1, <2>1, <2>2
<1>3. ~(Precedes(x, y) /\ Precedes(y, x))  BY <1>2 DEF Precedes, Types
<1>4. x # y => Precedes(x, y) /\ Precedes(y, x)  BY Zenon DEF IsNext
<1> QED  BY <1>3, <1>4

----------------------------------------------------------------------------
(* What one step does to a pass.                                           *)

LEMMA OnePassChanges ==
  ASSUME SweepTypeOK, NEW p \in Passes, NEW w \in PassType, Becomes(p, w)
  PROVE  /\ pass' \in [Passes -> PassType]
         /\ pass'[p] = w
         /\ \A q \in Passes \ {p} : pass'[q] = pass[q]
BY DEF SweepTypeOK, Becomes

LEMMA AsleepIsAPass ==
  /\ Asleep \in PassType
  /\ \A stage \in Stages : [Asleep EXCEPT !.at = stage] \in PassType
BY DEF Asleep, PassType, Stages

LEMMA ListedPass ==
  ASSUME SweepTypeOK
  PROVE  LET w == [Asleep EXCEPT !.at = "between", !.left = served] IN
           /\ w \in PassType
           /\ w.at = "between" /\ w.left = served /\ w.tenant = 0 /\ w.mine = 0 /\ w.made = 0
           /\ w.resume = 0 /\ w.short = {}
BY DEF SweepTypeOK, Asleep, PassType, Stages

LEMMA EligibleIsTyped ==
  ASSUME SweepTypeOK, NEW c \in Tenants
  PROVE  EligibleIn(c) \in SUBSET Eligible
BY DEF SweepTypeOK, EligibleIn, Eligible, Types

LimitNow(p) ==
  LET budget == MaxPerRun - pass[p].made IN
    IF MaxPerTenant < budget THEN MaxPerTenant ELSE budget

LEMMA LimitIsTyped ==
  ASSUME SweepTypeOK, NEW p \in Passes, pass[p].made < MaxPerRun
  PROVE  /\ LimitNow(p) \in Nat /\ LimitNow(p) <= MaxPerTenant
         /\ pass[p].made + LimitNow(p) <= MaxPerRun
         /\ LimitNow(p) < MaxPerTenant => pass[p].made > 0
<1>1. pass[p].made \in Nat  BY DEF SweepTypeOK, PassType
<1> QED  BY <1>1, CapsType, CapsLeaveRoom DEF LimitNow

LEMMA EnteredPass ==
  ASSUME SweepTypeOK, NEW p \in Passes, NEW c \in Tenants, pass[p].made < MaxPerRun
  PROVE  LET w == [pass[p] EXCEPT !.at = "asking", !.left = @ \ {c}, !.tenant = c,
                                  !.due = EligibleIn(c), !.mine = 0, !.limit = LimitNow(p)] IN
           /\ w \in PassType
           /\ w.at = "asking" /\ w.left = pass[p].left \ {c} /\ w.tenant = c /\ w.mine = 0
           /\ w.limit = LimitNow(p) /\ w.made = pass[p].made /\ w.resume = pass[p].resume
           /\ w.short = pass[p].short
<1>1. pass[p] \in PassType  BY DEF SweepTypeOK
<1>2. EligibleIn(c) \in SUBSET Eligible /\ LimitNow(p) \in Nat  BY EligibleIsTyped, LimitIsTyped
<1> QED  BY <1>1, <1>2 DEF PassType, Stages

LEMMA LeftPass ==
  ASSUME SweepTypeOK, NEW p \in Passes
  PROVE  /\ Leave(p) \in PassType
         /\ Leave(p).at = "between" /\ Leave(p).left = pass[p].left
         /\ Leave(p).tenant = pass[p].tenant /\ Leave(p).mine = 0
         /\ Leave(p).made = pass[p].made + pass[p].mine
         /\ Leave(p).resume = pass[p].resume /\ Leave(p).short = pass[p].short
<1>1. pass[p] \in PassType  BY DEF SweepTypeOK
<1>2. pass[p].made + pass[p].mine \in Nat  BY <1>1 DEF PassType
<1> QED  BY <1>1, <1>2 DEF PassType, Stages, Leave

Cut(p) == pass[p].limit < MaxPerTenant

LEMMA CutPass ==
  ASSUME SweepTypeOK, NEW p \in Passes, pass[p].tenant \in Tenants
  PROVE  LET c == pass[p].tenant
             w == [Leave(p) EXCEPT !.resume = IF Cut(p) /\ @ = 0 THEN c ELSE @,
                                   !.short = IF Cut(p) THEN @ \cup {c} ELSE @] IN
           /\ w \in PassType
           /\ w.at = "between" /\ w.left = pass[p].left /\ w.tenant = c /\ w.mine = 0
           /\ w.made = pass[p].made + pass[p].mine
           /\ w.resume = IF Cut(p) /\ pass[p].resume = 0 THEN c ELSE pass[p].resume
           /\ w.short = IF Cut(p) THEN pass[p].short \cup {c} ELSE pass[p].short
BY LeftPass DEF PassType

LEMMA SkippedPass ==
  ASSUME SweepTypeOK, NEW p \in Passes, NEW x
  PROVE  LET w == [pass[p] EXCEPT !.due = @ \ {x}] IN
           /\ w \in PassType
           /\ w.at = pass[p].at /\ w.left = pass[p].left /\ w.tenant = pass[p].tenant
           /\ w.mine = pass[p].mine /\ w.limit = pass[p].limit /\ w.made = pass[p].made
           /\ w.resume = pass[p].resume /\ w.short = pass[p].short
<1>1. pass[p] \in PassType  BY DEF SweepTypeOK
<1> QED  BY <1>1 DEF PassType

LEMMA WritingPass ==
  ASSUME SweepTypeOK, NEW p \in Passes
  PROVE  LET w == [pass[p] EXCEPT !.at = "writing"] IN
           /\ w \in PassType
           /\ w.at = "writing" /\ w.left = pass[p].left /\ w.tenant = pass[p].tenant
           /\ w.mine = pass[p].mine /\ w.limit = pass[p].limit /\ w.made = pass[p].made
           /\ w.resume = pass[p].resume /\ w.short = pass[p].short /\ w.due = pass[p].due
<1>1. pass[p] \in PassType  BY DEF SweepTypeOK
<1> QED  BY <1>1 DEF PassType, Stages

LEMMA WrittenPass ==
  ASSUME SweepTypeOK, NEW p \in Passes, NEW x
  PROVE  LET w == [pass[p] EXCEPT !.at = "asking", !.due = @ \ {x}, !.mine = @ + 1] IN
           /\ w \in PassType
           /\ w.at = "asking" /\ w.left = pass[p].left /\ w.tenant = pass[p].tenant
           /\ w.mine = pass[p].mine + 1 /\ w.limit = pass[p].limit /\ w.made = pass[p].made
           /\ w.resume = pass[p].resume /\ w.short = pass[p].short
<1>1. pass[p] \in PassType  BY DEF SweepTypeOK
<1>2. pass[p].mine + 1 \in Nat  BY <1>1 DEF PassType
<1> QED  BY <1>1, <1>2 DEF PassType, Stages

----------------------------------------------------------------------------
(* One lemma for each action.                                              *)

LEMMA TicksKeeps ==
  ASSUME SweepInv, NEW p \in Passes, Ticks(p)
  PROVE  SweepTypeOK' /\ OneAtATime' /\ Budgeted(p)' /\ Fresh(p)' /\ Forward(p)'
<1> USE DEF SweepInv
<1> DEFINE w == [Asleep EXCEPT !.at = "listing"]
<1>1. w \in PassType /\ w.at = "listing"
  BY AsleepIsAPass DEF Asleep, Stages
<1>2. pass' \in [Passes -> PassType] /\ pass'[p] = w
      /\ \A q \in Passes \ {p} : pass'[q] = pass[q]
  BY <1>1, OnePassChanges DEF Ticks
<1>3. made' \in [Passes -> Nat] /\ made'[p] = 0
  BY DEF Ticks, SweepTypeOK
<1>4. SweepTypeOK'  BY <1>2, <1>3 DEF SweepTypeOK, Ticks
<1>5. OneAtATime'
  <2>1. sweeping' = TRUE /\ \A q \in Passes : At(q, "asleep")
    BY DEF Ticks, OneAtATime
  <2> QED  BY <1>2, <2>1 DEF OneAtATime, At
<1>6. Budgeted(p)' /\ Fresh(p)' /\ Forward(p)'
  BY <1>1, <1>2, <1>3, CapsType DEF Budgeted, Fresh, Forward, Running, Inside, At
<1> QED  BY <1>4, <1>5, <1>6

LEMMA ListsKeeps ==
  ASSUME SweepInv, NEW p \in Passes, ListsCompanies(p)
  PROVE  SweepTypeOK' /\ OneAtATime' /\ Budgeted(p)' /\ Fresh(p)' /\ Forward(p)'
<1> USE DEF SweepInv
<1> DEFINE w == [Asleep EXCEPT !.at = "between", !.left = served]
<1>1. /\ w \in PassType
      /\ w.at = "between" /\ w.left = served /\ w.tenant = 0 /\ w.mine = 0 /\ w.made = 0
      /\ w.resume = 0 /\ w.short = {}
  BY ListedPass
<1> HIDE DEF w
<1>2. pass' \in [Passes -> PassType] /\ pass'[p] = w
      /\ \A q \in Passes \ {p} : pass'[q] = pass[q]
  BY <1>1, OnePassChanges DEF ListsCompanies, w
<1>3. UNCHANGED <<today, todo, served, notified, erased, sweeping, startAt, made, waited>>
      /\ At(p, "listing")
  BY DEF ListsCompanies, OnlyPass
<1>4. SweepTypeOK'  BY <1>2, <1>3 DEF SweepTypeOK
<1>5. OneAtATime'  BY <1>2, <1>3 DEF OneAtATime, At
<1>6. Budgeted(p)' /\ Fresh(p)' /\ Forward(p)'
  <2>1. made[p] = 0  BY <1>3 DEF Budgeted
  <2> QED
    BY <1>1, <1>2, <1>3, <2>1, CapsType DEF Budgeted, Fresh, Forward, Running, Inside, At
<1> QED  BY <1>4, <1>5, <1>6

LEMMA ListFailsKeeps ==
  ASSUME SweepInv, NEW p \in Passes, ListFails(p)
  PROVE  SweepTypeOK' /\ OneAtATime' /\ Budgeted(p)' /\ Fresh(p)' /\ Forward(p)'
<1> USE DEF SweepInv
<1>1. Asleep \in PassType /\ Asleep.at = "asleep"  BY AsleepIsAPass DEF Asleep
<1>2. pass' \in [Passes -> PassType] /\ pass'[p] = Asleep
      /\ \A q \in Passes \ {p} : pass'[q] = pass[q]
  BY <1>1, OnePassChanges DEF ListFails
<1>3. UNCHANGED <<today, todo, served, notified, erased, startAt, made, waited>>
      /\ sweeping' = FALSE /\ At(p, "listing")
  BY DEF ListFails
<1>4. SweepTypeOK'  BY <1>2, <1>3 DEF SweepTypeOK
<1>5. OneAtATime'  BY <1>1, <1>2, <1>3 DEF OneAtATime, At
<1>6. Budgeted(p)' /\ Fresh(p)' /\ Forward(p)'
  BY <1>1, <1>2, <1>3 DEF Budgeted, Fresh, Forward, Running, Inside, At
<1> QED  BY <1>4, <1>5, <1>6

LEMMA EntersKeeps ==
  ASSUME SweepInv, NEW p \in Passes, NEW c \in Tenants, EntersCompany(p, c)
  PROVE  SweepTypeOK' /\ OneAtATime' /\ Budgeted(p)' /\ Fresh(p)' /\ Forward(p)'
<1> USE DEF SweepInv
<1> DEFINE w == [pass[p] EXCEPT !.at = "asking", !.left = @ \ {c}, !.tenant = c,
                                !.due = EligibleIn(c), !.mine = 0, !.limit = LimitNow(p)]
<1>1. /\ pass[p].made < MaxPerRun /\ At(p, "between") /\ ComesFirst(c, pass[p].left)
      /\ UNCHANGED <<today, todo, served, notified, erased, sweeping, startAt, made, waited>>
  BY DEF EntersCompany, OnlyPass
<1>2. /\ w \in PassType
      /\ w.at = "asking" /\ w.left = pass[p].left \ {c} /\ w.tenant = c /\ w.mine = 0
      /\ w.limit = LimitNow(p) /\ w.made = pass[p].made /\ w.resume = pass[p].resume
      /\ w.short = pass[p].short
  BY <1>1, EnteredPass
<1>3. Becomes(p, w)  BY DEF EntersCompany, LimitNow
<1> HIDE DEF w
<1>4. pass' \in [Passes -> PassType] /\ pass'[p] = w
      /\ \A q \in Passes \ {p} : pass'[q] = pass[q]
  BY <1>2, <1>3, OnePassChanges
<1>5. SweepTypeOK'  BY <1>1, <1>4 DEF SweepTypeOK
<1>6. OneAtATime'  BY <1>1, <1>2, <1>4 DEF OneAtATime, At
<1>7. Budgeted(p)'
  <2>1. made[p] = pass[p].made /\ made[p] <= MaxPerRun
    <3>1. made[p] = pass[p].made + pass[p].mine /\ pass[p].mine = 0 /\ made[p] <= MaxPerRun
      BY <1>1 DEF Budgeted, Running, At
    <3>2. pass[p].made \in Nat  BY DEF SweepTypeOK, PassType
    <3> QED  BY <3>1, <3>2
  <2>2. pass[p].made \in Nat  BY DEF SweepTypeOK, PassType
  <2>3. 0 <= LimitNow(p) /\ pass[p].made + LimitNow(p) <= MaxPerRun  BY <1>1, LimitIsTyped
  <2> QED  BY <1>1, <1>2, <1>4, <2>1, <2>2, <2>3 DEF Budgeted, Running, Inside, At
<1>8. Fresh(p)'  BY <1>2, <1>4 DEF Fresh, At
<1>9. Forward(p)'
  <2>1. Running(p) /\ Running(p)'  BY <1>1, <1>2, <1>4 DEF Running, Inside, At
  <2>2. /\ pass[p].left \subseteq Tenants /\ c \in pass[p].left
        /\ \A d \in pass[p].left \ {c} : Before(c, d)
    BY <1>1 DEF ComesFirst, SweepTypeOK, PassType
  <2>3. /\ c # 0 /\ pass[p].tenant \in Tenants \cup {0} /\ pass[p].resume \in Tenants \cup {0}
        /\ pass[p].short \subseteq Tenants
    BY TenantsAreNumbers DEF SweepTypeOK, PassType
  <2>4. pass[p].made > 0 => \E f \in Tenants : Before(f, c)
    BY <2>1, <2>2, <2>3 DEF Forward
  <2>5. LimitNow(p) < MaxPerTenant => pass[p].made > 0  BY <1>1, LimitIsTyped
  <2>6. \A d, e : Before(d, e)' <=> Before(d, e)  BY <1>1 DEF Before
  <2>7. pass[p].resume # 0 => Before(pass[p].resume, c)  BY <2>1, <2>2 DEF Forward
  <2> QED
    BY <1>2, <1>4, <2>1, <2>2, <2>3, <2>4, <2>5, <2>6, <2>7 DEF Forward
<1> QED  BY <1>5, <1>6, <1>7, <1>8, <1>9

LEMMA AsksKeeps ==
  ASSUME SweepInv, NEW p \in Passes, NEW x, AsksForExisting(p, x)
  PROVE  SweepTypeOK' /\ OneAtATime' /\ Budgeted(p)' /\ Fresh(p)' /\ Forward(p)'
<1> USE DEF SweepInv
<1>1. /\ At(p, "asking") /\ IsNext(x, p)
      /\ UNCHANGED <<today, todo, served, notified, erased, sweeping, startAt, made, waited>>
  BY DEF AsksForExisting, OnlyPass
<1>a. /\ pass[p].made \in Nat /\ pass[p].mine \in Nat /\ pass[p].limit \in Nat
      /\ pass[p].tenant \in Tenants \cup {0} /\ pass[p].resume \in Tenants \cup {0}
      /\ pass[p].left \subseteq Tenants /\ pass[p].short \subseteq Tenants
      /\ x \in Eligible
  BY <1>1 DEF SweepTypeOK, PassType, IsNext
<1>b. Running(p) /\ Inside(p)  BY <1>1 DEF Running, Inside
<1>c. \A d, e : Before(d, e)' <=> Before(d, e)  BY <1>1 DEF Before
<1>2. ASSUME NEW w \in PassType, Becomes(p, w), w.at # "asleep"
      PROVE  /\ SweepTypeOK' /\ OneAtATime'
             /\ pass'[p] = w /\ \A q \in Passes \ {p} : pass'[q] = pass[q]
  <2>1. pass' \in [Passes -> PassType] /\ pass'[p] = w
        /\ \A q \in Passes \ {p} : pass'[q] = pass[q]
    BY <1>2, OnePassChanges
  <2>2. SweepTypeOK'  BY <1>1, <2>1 DEF SweepTypeOK
  <2>3. OneAtATime'  BY <1>1, <1>2, <2>1 DEF OneAtATime, At
  <2> QED  BY <2>1, <2>2, <2>3
<1>3. CASE notified[x.todo][x.type] > 0
  <2> DEFINE w == [pass[p] EXCEPT !.due = @ \ {x}]
  <2>1. /\ w \in PassType
        /\ w.at = pass[p].at /\ w.left = pass[p].left /\ w.tenant = pass[p].tenant
        /\ w.mine = pass[p].mine /\ w.limit = pass[p].limit /\ w.made = pass[p].made
        /\ w.resume = pass[p].resume /\ w.short = pass[p].short
    BY SkippedPass
  <2>2. Becomes(p, w)  BY <1>3 DEF AsksForExisting
  <2> HIDE DEF w
  <2>3. SweepTypeOK' /\ OneAtATime' /\ pass'[p] = w  BY <1>1, <1>2, <2>1, <2>2 DEF At
  <2>4. Budgeted(p)'  BY <1>1, <2>1, <2>3 DEF Budgeted, Running, Inside, At
  <2>5. Fresh(p)'  BY <1>1, <2>1, <2>3 DEF Fresh, At
  <2>6. Forward(p)'  BY <1>b, <1>c, <2>1, <2>3 DEF Forward, Running, Inside, At
  <2> QED  BY <2>3, <2>4, <2>5, <2>6
<1>4. CASE ~(notified[x.todo][x.type] > 0) /\ pass[p].mine < pass[p].limit
  <2> DEFINE w == [pass[p] EXCEPT !.at = "writing"]
  <2>1. /\ w \in PassType
        /\ w.at = "writing" /\ w.left = pass[p].left /\ w.tenant = pass[p].tenant
        /\ w.mine = pass[p].mine /\ w.limit = pass[p].limit /\ w.made = pass[p].made
        /\ w.resume = pass[p].resume /\ w.short = pass[p].short /\ w.due = pass[p].due
    BY WritingPass
  <2>2. Becomes(p, w)  BY <1>4 DEF AsksForExisting
  <2> HIDE DEF w
  <2>3. SweepTypeOK' /\ OneAtATime' /\ pass'[p] = w  BY <1>2, <2>1, <2>2
  <2>4. Budgeted(p)'  BY <1>1, <1>4, <1>b, <2>1, <2>3 DEF Budgeted, Running, Inside, At
  <2>5. Fresh(p)'
    <3>1. notified[x.todo][x.type] = 0
      BY <1>4, <1>a DEF SweepTypeOK, Eligible
    <3>2. \A y : IsNext(y, p)' => IsNext(y, p)  BY <2>1, <2>3 DEF IsNext
    <3>3. \A y : IsNext(y, p)' => y = x  BY <1>1, <3>2, NextIsUnique
    <3> QED  BY <1>1, <3>1, <3>3 DEF Fresh
  <2>6. Forward(p)'  BY <1>b, <1>c, <2>1, <2>3 DEF Forward, Running, Inside, At
  <2> QED  BY <2>3, <2>4, <2>5, <2>6
<1>5. CASE ~(notified[x.todo][x.type] > 0) /\ ~(pass[p].mine < pass[p].limit)
  <2> DEFINE c == pass[p].tenant
             w == [Leave(p) EXCEPT !.resume = IF Cut(p) /\ @ = 0 THEN c ELSE @,
                                   !.short = IF Cut(p) THEN @ \cup {c} ELSE @]
  <2>0. c \in Tenants /\ c # 0  BY <1>a, <1>b, TenantsAreNumbers DEF Forward
  <2>1. /\ w \in PassType
        /\ w.at = "between" /\ w.left = pass[p].left /\ w.tenant = c /\ w.mine = 0
        /\ w.made = pass[p].made + pass[p].mine
        /\ w.resume = IF Cut(p) /\ pass[p].resume = 0 THEN c ELSE pass[p].resume
        /\ w.short = IF Cut(p) THEN pass[p].short \cup {c} ELSE pass[p].short
    BY <2>0, CutPass
  <2>2. Becomes(p, w)  BY <1>5 DEF AsksForExisting, Cut
  <2> HIDE DEF w
  <2>3. SweepTypeOK' /\ OneAtATime' /\ pass'[p] = w  BY <1>2, <2>1, <2>2
  <2>4. Budgeted(p)'
    <3>1. made[p] = pass[p].made + pass[p].mine /\ made[p] <= MaxPerRun
      BY <1>b DEF Budgeted
    <3>2. pass[p].made + pass[p].mine + 0 = pass[p].made + pass[p].mine  BY <1>a
    <3> QED  BY <1>1, <2>1, <2>3, <3>1, <3>2 DEF Budgeted, Running, Inside, At
  <2>5. Fresh(p)'  BY <2>1, <2>3 DEF Fresh, At
  <2>6. Forward(p)'
    <3>1. Cut(p) => \E f \in Tenants : Before(f, c)  BY <1>b DEF Forward, Cut
    <3>2. \A d \in pass[p].left : Before(c, d)  BY <1>b, <2>0 DEF Forward
    <3>3. ~Inside(p)'  BY <2>1, <2>3 DEF Inside, At
    <3>4. CASE Cut(p) /\ pass[p].resume = 0
      <4>1. w.resume = c /\ w.short = {c}  BY <1>b, <2>1, <3>4 DEF Forward
      <4> QED  BY <1>c, <2>0, <2>1, <2>3, <3>1, <3>2, <3>3, <3>4, <4>1 DEF Forward
    <3>5. CASE ~(Cut(p) /\ pass[p].resume = 0)
      <4>1. w.resume = pass[p].resume  BY <2>1, <3>5
      <4>2. w.resume # 0 => /\ c = w.resume \/ Before(w.resume, c)
                            /\ \E f \in Tenants : Before(f, w.resume)
                            /\ \A d \in w.left : Before(w.resume, d)
                            /\ \A d \in pass[p].short : d = w.resume \/ Before(w.resume, d)
        BY <1>b, <2>1, <4>1 DEF Forward
      <4>3. w.resume # 0 => \A d \in w.short : d = w.resume \/ Before(w.resume, d)
        BY <2>1, <4>2
      <4>4. w.resume = 0 => w.short = {}  BY <1>b, <2>1, <3>5, <4>1 DEF Forward
      <4> QED  BY <1>c, <2>0, <2>1, <2>3, <3>2, <3>3, <4>2, <4>3, <4>4 DEF Forward
    <3> QED  BY <3>4, <3>5
  <2> QED  BY <2>3, <2>4, <2>5, <2>6
<1> QED  BY <1>3, <1>4, <1>5

LEMMA NotifiesKeeps ==
  ASSUME SweepInv, NEW p \in Passes, NEW x, Notifies(p, x)
  PROVE  /\ SweepTypeOK' /\ OneAtATime' /\ Budgeted(p)' /\ Fresh(p)' /\ Forward(p)'
         /\ \A t \in Todos, type \in Types : notified'[t][type] <= 1
<1> USE DEF SweepInv
<1>1. /\ At(p, "writing") /\ IsNext(x, p)
      /\ UNCHANGED <<today, todo, served, erased, sweeping, startAt, waited>>
      /\ notified' = [notified EXCEPT ![x.todo][x.type] = @ + 1]
      /\ made' = [made EXCEPT ![p] = @ + 1]
  BY DEF Notifies
<1>2. /\ pass[p].made \in Nat /\ pass[p].mine \in Nat /\ pass[p].limit \in Nat
      /\ made[p] \in Nat
      /\ x \in Eligible /\ x.todo \in Todos /\ x.type \in Types
  BY <1>1 DEF SweepTypeOK, PassType, IsNext, Eligible
<1>3. Running(p) /\ Inside(p)  BY <1>1 DEF Running, Inside
<1>4. \A d, e : Before(d, e)' <=> Before(d, e)  BY <1>1 DEF Before
<1>5. notified[x.todo][x.type] = 0  BY <1>1, <1>2 DEF Fresh
<1>6. /\ notified' \in [Todos -> [Types -> Nat]]
      /\ \A t \in Todos, type \in Types : notified'[t][type] <= 1
  <2>1. notified \in [Todos -> [Types -> Nat]]  BY DEF SweepTypeOK
  <2>2. notified' = [notified EXCEPT ![x.todo] = [@ EXCEPT ![x.type] = 1]]
    BY <1>1, <1>2, <1>5, <2>1
  <2> QED  BY <1>2, <2>1, <2>2
<1> DEFINE w == [pass[p] EXCEPT !.at = "asking", !.due = @ \ {x}, !.mine = @ + 1]
<1>7. /\ w \in PassType
      /\ w.at = "asking" /\ w.left = pass[p].left /\ w.tenant = pass[p].tenant
      /\ w.mine = pass[p].mine + 1 /\ w.limit = pass[p].limit /\ w.made = pass[p].made
      /\ w.resume = pass[p].resume /\ w.short = pass[p].short
  BY WrittenPass
<1>8. Becomes(p, w)  BY DEF Notifies
<1> HIDE DEF w
<1>9. pass' \in [Passes -> PassType] /\ pass'[p] = w
      /\ \A q \in Passes \ {p} : pass'[q] = pass[q]
  BY <1>7, <1>8, OnePassChanges
<1>10. made' \in [Passes -> Nat] /\ made'[p] = made[p] + 1
  BY <1>1, <1>2 DEF SweepTypeOK
<1>11. SweepTypeOK'  BY <1>1, <1>6, <1>9, <1>10 DEF SweepTypeOK
<1>12. OneAtATime'  BY <1>1, <1>7, <1>9 DEF OneAtATime, At
<1>13. Budgeted(p)'
  <2>1. /\ made[p] = pass[p].made + pass[p].mine /\ pass[p].mine < pass[p].limit
        /\ pass[p].made + pass[p].limit <= MaxPerRun
    BY <1>1, <1>3 DEF Budgeted
  <2>2. made'[p] = w.made + w.mine /\ w.mine <= w.limit /\ made'[p] <= MaxPerRun
    BY <1>2, <1>7, <1>10, <2>1, CapsType
  <2> QED  BY <1>7, <1>9, <2>1, <2>2 DEF Budgeted, Running, Inside, At
<1>14. Fresh(p)'  BY <1>7, <1>9 DEF Fresh, At
<1>15. Forward(p)'  BY <1>3, <1>4, <1>7, <1>9 DEF Forward, Running, Inside, At
<1> QED  BY <1>6, <1>11, <1>12, <1>13, <1>14, <1>15

LEMMA LeavesKeeps ==
  ASSUME SweepInv, NEW p \in Passes, LeavesCompany(p) \/ CompanyFails(p)
  PROVE  SweepTypeOK' /\ OneAtATime' /\ Budgeted(p)' /\ Fresh(p)' /\ Forward(p)'
<1> USE DEF SweepInv
<1>1. /\ Inside(p) /\ Becomes(p, Leave(p))
      /\ UNCHANGED <<today, todo, served, notified, erased, sweeping, startAt, made, waited>>
  BY DEF LeavesCompany, CompanyFails, OnlyPass, Inside
<1>2. Running(p) /\ pass[p].made \in Nat /\ pass[p].mine \in Nat
  BY <1>1 DEF Running, SweepTypeOK, PassType
<1>3. /\ Leave(p) \in PassType
      /\ Leave(p).at = "between" /\ Leave(p).left = pass[p].left
      /\ Leave(p).tenant = pass[p].tenant /\ Leave(p).mine = 0
      /\ Leave(p).made = pass[p].made + pass[p].mine
      /\ Leave(p).resume = pass[p].resume /\ Leave(p).short = pass[p].short
  BY LeftPass
<1>4. pass' \in [Passes -> PassType] /\ pass'[p] = Leave(p)
      /\ \A q \in Passes \ {p} : pass'[q] = pass[q]
  BY <1>1, <1>3, OnePassChanges
<1>5. SweepTypeOK'  BY <1>1, <1>4 DEF SweepTypeOK
<1>6. OneAtATime'  BY <1>1, <1>3, <1>4 DEF OneAtATime, Inside, At
<1>7. Budgeted(p)'
  <2>1. made[p] = pass[p].made + pass[p].mine /\ made[p] <= MaxPerRun
    BY <1>2 DEF Budgeted
  <2>2. pass[p].made + pass[p].mine + 0 = pass[p].made + pass[p].mine  BY <1>2
  <2> QED  BY <1>1, <1>3, <1>4, <2>1, <2>2 DEF Budgeted, Running, Inside, At
<1>8. Fresh(p)'  BY <1>3, <1>4 DEF Fresh, At
<1>9. Forward(p)'
  <2>1. \A d, e : Before(d, e)' <=> Before(d, e)  BY <1>1 DEF Before
  <2>2. pass[p].tenant # 0  BY <1>1, <1>2 DEF Forward
  <2> QED  BY <1>2, <1>3, <1>4, <2>1, <2>2 DEF Forward, Inside, At
<1> QED  BY <1>5, <1>6, <1>7, <1>8, <1>9

LEMMA FinishesKeeps ==
  ASSUME SweepInv, NEW p \in Passes, Finishes(p)
  PROVE  /\ SweepTypeOK' /\ OneAtATime' /\ Budgeted(p)' /\ Fresh(p)' /\ Forward(p)'
         /\ Nearer'
<1> USE DEF SweepInv
<1> DEFINE left == pass[p].left  short == pass[p].short \cup left  resume == pass[p].resume
<1>1. /\ At(p, "between") /\ (left = {} \/ pass[p].made >= MaxPerRun)
      /\ UNCHANGED <<today, todo, served, notified, erased, made>>
      /\ sweeping' = FALSE /\ Becomes(p, Asleep)
      /\ waited' = [c \in Tenants |-> IF c \in short THEN waited[c] + 1 ELSE 0]
      /\ startAt' = IF resume # 0 \/ left = {} THEN resume
                    ELSE CHOOSE c \in left : ComesFirst(c, left)
  BY DEF Finishes
<1>2. /\ left \subseteq Tenants /\ pass[p].short \subseteq Tenants
      /\ pass[p].tenant \in Tenants \cup {0} /\ resume \in Tenants \cup {0}
      /\ pass[p].made \in Nat
  BY DEF SweepTypeOK, PassType
<1>3. Asleep \in PassType /\ Asleep.at = "asleep"  BY AsleepIsAPass DEF Asleep
<1>4. pass' \in [Passes -> PassType] /\ pass'[p] = Asleep
      /\ \A q \in Passes \ {p} : pass'[q] = pass[q]
  BY <1>1, <1>3, OnePassChanges
<1>5. Running(p) /\ ~At(p, "asleep")
  <2>1. pass[p].at = "between"  BY DEF Finishes, At
  <2> QED  BY <2>1 DEF Running, At
<1>6. ASSUME short # {}
      PROVE  /\ startAt' \in Tenants
             /\ \E f \in Tenants : Before(f, startAt')
             /\ \A c \in short : c = startAt' \/ Before(startAt', c)
  <2>1. CASE resume # 0
    <3>1. startAt' = resume /\ resume \in Tenants  BY <1>1, <1>2, <2>1
    <3>2. /\ \E f \in Tenants : Before(f, resume)
          /\ \A d \in left : Before(resume, d)
          /\ \A c \in pass[p].short : c = resume \/ Before(resume, c)
      BY <1>5, <2>1 DEF Forward
    <3> QED  BY <3>1, <3>2
  <2>2. CASE resume = 0
    <3>1. pass[p].short = {}  BY <1>5, <2>2 DEF Forward
    <3>2. short = left /\ left # {}  BY <1>6, <3>1
    <3>3. PICK s \in left : s = startAt' /\ ComesFirst(s, left)
      BY <1>1, <1>2, <2>2, <3>2, SomebodyComesFirst
    <3>4. pass[p].tenant # 0 /\ \A d \in left : Before(pass[p].tenant, d)
      <4>1. pass[p].made > 0  BY <1>1, <1>2, <3>2, CapsType
      <4> QED  BY <1>5, <4>1 DEF Forward
    <3>5. \A c \in left : c = s \/ Before(s, c)  BY <3>3 DEF ComesFirst
    <3> QED  BY <1>2, <3>2, <3>3, <3>4, <3>5
  <2> QED  BY <2>1, <2>2
<1>7. startAt' \in Tenants \cup {0}
  <2>1. short = {} => startAt' = resume  BY <1>1
  <2> QED  BY <1>2, <1>6, <2>1
<1>8. waited' \in [Tenants -> Nat]  BY <1>1 DEF SweepTypeOK
<1>9. SweepTypeOK'  BY <1>1, <1>4, <1>7, <1>8 DEF SweepTypeOK
<1>10. OneAtATime'
  <2>1. \A q \in Passes \ {p} : At(q, "asleep")  BY <1>5 DEF OneAtATime
  <2>2. \A q \in Passes : pass'[q].at = "asleep"  BY <1>3, <1>4, <2>1 DEF At
  <2> QED  BY <2>2 DEF OneAtATime, At
<1>11. Budgeted(p)' /\ Fresh(p)' /\ Forward(p)'
  BY <1>1, <1>3, <1>4 DEF Budgeted, Fresh, Forward, Running, Inside, At
<1>12. Nearer'
  <2> SUFFICES ASSUME NEW c \in Tenants
               PROVE  waited'[c] + Cardinality(Ahead(c)') < Cardinality(Tenants)
    BY DEF Nearer
  <2>1. CASE c \in short
    <3>1. waited'[c] = waited[c] + 1  BY <1>1, <2>1
    <3>2. PICK f \in Tenants : Before(f, startAt')  BY <1>6, <2>1
    <3>3. startAt' \in Tenants /\ (c = startAt' \/ Before(startAt', c))  BY <1>6, <2>1
    <3>4. waited[c] + Cardinality(Ahead(c)) < Cardinality(Tenants)  BY DEF Nearer
    <3> HIDE DEF left, short, resume
    <3> QED  BY <3>1, <3>2, <3>3, <3>4, MissedTurnsAreMadeUp
  <2>2. CASE c \notin short
    <3>1. waited'[c] = 0  BY <1>1, <2>2
    <3>2. Cardinality(Ahead(c)') \in Nat /\ Cardinality(Ahead(c)') < Cardinality(Tenants)
      BY <1>9, LaterAheadIsFinite
    <3> QED  BY <3>1, <3>2
  <2> QED  BY <2>1, <2>2
<1> QED  BY <1>9, <1>10, <1>11, <1>12

----------------------------------------------------------------------------
(* All of them together.                                                   *)

PassMoves(p) == PassStep(p) \/ CompanyFails(p)

LEMMA PassKeeps ==
  ASSUME SweepInv, NEW p \in Passes, PassMoves(p)
  PROVE  /\ SweepTypeOK' /\ OneAtATime' /\ Budgeted(p)' /\ Fresh(p)' /\ Forward(p)'
         /\ Nearer' /\ \A t \in Todos, type \in Types : notified'[t][type] <= 1
<1>1. CASE Finishes(p)
  <2>1. notified' = notified  BY <1>1 DEF Finishes
  <2> QED  BY <1>1, <2>1, FinishesKeeps DEF SweepInv
<1>2. CASE ~Finishes(p)
  <2>1. SweepTypeOK' /\ OneAtATime' /\ Budgeted(p)' /\ Fresh(p)' /\ Forward(p)'
    BY <1>2, TicksKeeps, ListsKeeps, ListFailsKeeps, EntersKeeps, AsksKeeps, NotifiesKeeps,
       LeavesKeeps DEF PassMoves, PassStep
  <2>2. startAt' = startAt /\ waited' = waited
    BY <1>2 DEF PassMoves, PassStep, Ticks, ListsCompanies, ListFails, EntersCompany,
                AsksForExisting, Notifies, LeavesCompany, CompanyFails, OnlyPass
  <2>3. Nearer'  BY <2>2 DEF SweepInv, Nearer, Ahead, Before
  <2>4. \A t \in Todos, type \in Types : notified'[t][type] <= 1
    <3>1. CASE \E x \in pass[p].due : Notifies(p, x)  BY <3>1, NotifiesKeeps
    <3>2. CASE ~ \E x \in pass[p].due : Notifies(p, x)
      <4>1. notified' = notified
        BY <1>2, <3>2 DEF PassMoves, PassStep, Ticks, ListsCompanies, ListFails, EntersCompany,
                          AsksForExisting, LeavesCompany, CompanyFails, OnlyPass
      <4> QED  BY <4>1 DEF SweepInv
    <3> QED  BY <3>1, <3>2
  <2> QED  BY <2>1, <2>3, <2>4
<1> QED  BY <1>1, <1>2

\* While a pass moves every other one is asleep.
LEMMA TheOthersSleep ==
  ASSUME SweepInv, NEW p \in Passes, PassMoves(p), NEW q \in Passes \ {p}
  PROVE  Budgeted(q)' /\ Fresh(q)' /\ Forward(q)'
<1>1. At(q, "asleep")
  <2>1. CASE Ticks(p)  BY <2>1 DEF SweepInv, OneAtATime, Ticks
  <2>2. CASE ~Ticks(p)
    <3>1. ~At(p, "asleep")
      BY <2>2 DEF PassMoves, PassStep, ListsCompanies, ListFails, EntersCompany, Finishes,
                  AsksForExisting, Notifies, LeavesCompany, CompanyFails, At
    <3> QED  BY <3>1 DEF SweepInv, OneAtATime
  <2> QED  BY <2>1, <2>2
<1>2. pass'[q] = pass[q]
  <2>1. \E w : Becomes(p, w)
    BY DEF PassMoves, PassStep, Ticks, ListsCompanies, ListFails, EntersCompany, Finishes,
           AsksForExisting, Notifies, LeavesCompany, CompanyFails
  <2> QED  BY <2>1 DEF SweepInv, SweepTypeOK, Becomes
<1>3. made'[q] = made[q]
  BY DEF PassMoves, PassStep, Ticks, ListsCompanies, ListFails, EntersCompany, Finishes,
         AsksForExisting, Notifies, LeavesCompany, CompanyFails, OnlyPass, SweepInv, SweepTypeOK
<1> QED  BY <1>1, <1>2, <1>3 DEF SweepInv, Budgeted, Fresh, Forward, Running, Inside, At

LEMMA RestartKeeps ==
  ASSUME SweepInv, SweeperRestarts
  PROVE  SweepInv'
<1> USE DEF SweepInv, SweeperRestarts
<1>1. Asleep \in PassType /\ Asleep.at = "asleep"  BY AsleepIsAPass DEF Asleep
<1>2. SweepTypeOK'  BY <1>1 DEF SweepTypeOK
<1>3. OneAtATime'  BY <1>1 DEF OneAtATime, At
<1>4. \A p \in Passes : Budgeted(p)' /\ Fresh(p)' /\ Forward(p)'
  BY <1>1, CapsType DEF Budgeted, Fresh, Forward, Running, Inside, At
<1>5. Nearer'
  <2> SUFFICES ASSUME NEW c \in Tenants
               PROVE  waited'[c] + Cardinality(Ahead(c)') < Cardinality(Tenants)
    BY DEF Nearer
  <2>1. Cardinality(Ahead(c)') \in Nat /\ Cardinality(Ahead(c)') < Cardinality(Tenants)
    BY <1>2, LaterAheadIsFinite
  <2> QED  BY <2>1
<1> QED  BY <1>2, <1>3, <1>4, <1>5

LEMMA AroundKeeps ==
  ASSUME SweepInv,
         \/ DayPasses \/ UNCHANGED sweepVars
         \/ \E t \in Todos, new \in [due : Days, open : BOOLEAN] : EditTodo(t, new)
         \/ \E c \in Tenants : ToggleServed(c)
  PROVE  SweepInv'
<1>1. UNCHANGED <<notified, erased, sweeping, startAt, pass, made, waited>>
  BY DEF DayPasses, sweepVars, EditTodo, ToggleServed
<1>2. SweepTypeOK'
  <2>1. SweepTypeOK  BY DEF SweepInv
  <2>2. today' \in Days
    BY <2>1, DaysType DEF SweepTypeOK, Days, DayPasses, sweepVars, EditTodo, ToggleServed
  <2>3. todo' \in [Todos -> [due : Days, open : BOOLEAN]]
    BY <2>1 DEF SweepTypeOK, DayPasses, sweepVars, EditTodo, ToggleServed
  <2>4. served' \subseteq Tenants
    BY <2>1 DEF SweepTypeOK, DayPasses, sweepVars, EditTodo, ToggleServed
  <2> QED  BY <1>1, <2>1, <2>2, <2>3, <2>4 DEF SweepTypeOK
<1>3. OneAtATime'  BY <1>1 DEF SweepInv, OneAtATime, At
<1>4. Nearer'  BY <1>1 DEF SweepInv, Nearer, Ahead, Before
<1>5. \A p \in Passes : Budgeted(p)'  BY <1>1 DEF SweepInv, Budgeted, Running, Inside, At
<1>6. \A p \in Passes : Fresh(p)'  BY <1>1 DEF SweepInv, Fresh, IsNext, At
<1>7. \A p \in Passes : Forward(p)'
  BY <1>1 DEF SweepInv, Forward, Before, Running, Inside, At
<1> QED  BY <1>1, <1>2, <1>3, <1>4, <1>5, <1>6, <1>7 DEF SweepInv

LEMMA DeletingKeeps ==
  ASSUME SweepInv, NEW t \in Todos, NEW type \in Types, DeletesReminder(t, type)
  PROVE  SweepInv'
<1>1. /\ UNCHANGED <<today, todo, served, sweeping, startAt, pass, made, waited>>
      /\ notified[t][type] > 0
      /\ notified' = [notified EXCEPT ![t][type] = @ - 1]
      /\ erased' = [erased EXCEPT ![t][type] = @ + 1]
  BY DEF DeletesReminder
<1>2. /\ notified \in [Todos -> [Types -> Nat]] /\ erased \in [Todos -> [Types -> Nat]]
      /\ \A u \in Todos, kind \in Types : notified[u][kind] <= 1
  BY DEF SweepInv, SweepTypeOK
<1>3. /\ notified' \in [Todos -> [Types -> Nat]]
      /\ \A u \in Todos, kind \in Types : notified'[u][kind] <= notified[u][kind]
  BY <1>1, <1>2
<1>4. erased' \in [Todos -> [Types -> Nat]]  BY <1>1, <1>2
<1>5. SweepTypeOK'  BY <1>1, <1>3, <1>4 DEF SweepInv, SweepTypeOK
<1>6. OneAtATime'  BY <1>1 DEF SweepInv, OneAtATime, At
<1>7. Nearer'  BY <1>1 DEF SweepInv, Nearer, Ahead, Before
<1>8. \A p \in Passes : Budgeted(p)'  BY <1>1 DEF SweepInv, Budgeted, Running, Inside, At
<1>9. \A p \in Passes : Fresh(p)'
  <2> SUFFICES ASSUME NEW p \in Passes, At(p, "writing"), NEW x \in Eligible, IsNext(x, p)
               PROVE  notified'[x.todo][x.type] = 0
    BY <1>1 DEF Fresh, IsNext, At
  <2>1. x.todo \in Todos /\ x.type \in Types  BY DEF Eligible
  <2>2. notified[x.todo][x.type] = 0  BY DEF SweepInv, Fresh
  <2> QED  BY <1>1, <1>2, <1>3, <2>1, <2>2
<1>10. \A p \in Passes : Forward(p)'
  BY <1>1 DEF SweepInv, Forward, Before, Running, Inside, At
<1>11. \A u \in Todos, kind \in Types : notified'[u][kind] <= 1  BY <1>2, <1>3
<1> QED  BY <1>5, <1>6, <1>7, <1>8, <1>9, <1>10, <1>11 DEF SweepInv

LEMMA SweepStarts == SweepInit => SweepInv
<1> SUFFICES ASSUME SweepInit PROVE SweepInv  OBVIOUS
<1> USE DEF SweepInit
<1>1. Asleep \in PassType /\ Asleep.at = "asleep"  BY AsleepIsAPass DEF Asleep
<1>2. SweepTypeOK
  <2>1. today \in Days  BY DaysType DEF Days
  <2>2. todo \in [Todos -> [due : Days, open : BOOLEAN]]  OBVIOUS
  <2>3. notified \in [Todos -> [Types -> Nat]] /\ erased \in [Todos -> [Types -> Nat]]
    OBVIOUS
  <2>4. pass \in [Passes -> PassType]  BY <1>1
  <2> QED  BY <2>1, <2>2, <2>3, <2>4 DEF SweepTypeOK
<1>3. OneAtATime  BY <1>1 DEF OneAtATime, At
<1>4. \A p \in Passes : Budgeted(p) /\ Fresh(p) /\ Forward(p)
  BY <1>1, CapsType DEF Budgeted, Fresh, Forward, Running, Inside, At
<1>5. Nearer
  <2> SUFFICES ASSUME NEW c \in Tenants
               PROVE  waited[c] + Cardinality(Ahead(c)) < Cardinality(Tenants)
    BY DEF Nearer
  <2> QED  BY <1>2, AheadIsFinite
<1> QED  BY <1>2, <1>3, <1>4, <1>5 DEF SweepInv

LEMMA SweepInvIsInductive == SweepInv /\ [SweepNext]_sweepVars => SweepInv'
<1> SUFFICES ASSUME SweepInv, [SweepNext]_sweepVars PROVE SweepInv'  OBVIOUS
<1>1. ASSUME NEW p \in Passes, PassMoves(p) PROVE SweepInv'
  <2>1. /\ SweepTypeOK' /\ OneAtATime' /\ Budgeted(p)' /\ Fresh(p)' /\ Forward(p)'
        /\ Nearer' /\ \A t \in Todos, type \in Types : notified'[t][type] <= 1
    BY <1>1, PassKeeps
  <2>2. \A q \in Passes \ {p} : Budgeted(q)' /\ Fresh(q)' /\ Forward(q)'
    BY <1>1, TheOthersSleep
  <2> QED  BY <2>1, <2>2 DEF SweepInv
<1>2. CASE SweeperRestarts  BY <1>2, RestartKeeps
<1>3. CASE \/ DayPasses \/ UNCHANGED sweepVars
           \/ \E t \in Todos, new \in [due : Days, open : BOOLEAN] : EditTodo(t, new)
           \/ \E c \in Tenants : ToggleServed(c)
  BY <1>3, AroundKeeps
<1>4. ASSUME NEW t \in Todos, NEW type \in Types, DeletesReminder(t, type) PROVE SweepInv'
  BY <1>4, DeletingKeeps
<1> QED  BY <1>1, <1>2, <1>3, <1>4 DEF SweepNext, PassMoves

LEMMA SweepInvHolds == SweepSpec => []SweepInv
<1> QED  BY SweepStarts, SweepInvIsInductive, PTL DEF SweepSpec

\* Every variable keeps its type: what a pass has read, counted and deferred
\* (notificationSweep.js).
THEOREM SweepTypeCorrect == SweepSpec => []SweepTypeOK
<1>1. SweepInv => SweepTypeOK  BY DEF SweepInv
<1> QED  BY <1>1, SweepInvHolds, PTL

\* Nobody has the same reminder twice in the bell, deleted or not before, and no pass
\* makes more than its cap, whatever fails (sweepTenant, hasExistingNotification,
\* runSweepOnce).
THEOREM RemindersBounded == SweepSpec => []RemindersAreBounded
<1>1. SweepInv => RemindersAreBounded  BY DEF SweepInv, RemindersAreBounded, Budgeted
<1> QED  BY <1>1, SweepInvHolds, PTL

\* "Exactly one notification, not one per sweep tick" is true as long as nobody deletes one:
\* the deletion is what makes the run reminders_deleted fail.
THEOREM RemindedOnceUnlessDeleted ==
  SweepSpec /\ [][UNCHANGED erased]_sweepVars => []OneReminderPerTask
<1> DEFINE NoneErased == \A t \in Todos, type \in Types : erased[t][type] = 0
<1>1. SweepInit => NoneErased  BY DEF SweepInit
<1>2. NoneErased /\ [UNCHANGED erased]_sweepVars => NoneErased'
  BY DEF sweepVars
<1>3. SweepInv /\ NoneErased => OneReminderPerTask
  BY DEF SweepInv, SweepTypeOK, OneReminderPerTask
<1> QED  BY <1>1, <1>2, <1>3, SweepInvHolds, PTL DEF SweepSpec

\* No company misses its full turn as often as there are companies (sweepAllTenants,
\* orderCompanies).
THEOREM EverybodyGetsATurn == SweepSpec => []NobodyWaitsPassAfterPass
<1>1. SweepInv => NobodyWaitsPassAfterPass
  <2> SUFFICES ASSUME SweepInv, NEW c \in Tenants PROVE waited[c] < Cardinality(Tenants)
    BY DEF NobodyWaitsPassAfterPass
  <2>1. waited[c] + Cardinality(Ahead(c)) < Cardinality(Tenants)  BY DEF SweepInv, Nearer
  <2>2. waited[c] \in Nat /\ Cardinality(Ahead(c)) \in Nat /\ Cardinality(Tenants) \in Nat
    BY AheadIsFinite DEF SweepInv, SweepTypeOK
  <2> QED  BY <2>1, <2>2
<1> QED  BY <1>1, SweepInvHolds, PTL
=============================================================================
