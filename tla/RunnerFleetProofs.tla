------------------------- MODULE RunnerFleetProofs -------------------------
(***************************************************************************)
(* The provider runner's promises for every fleet, plan, budget and retry  *)
(* limit: vendor calls are covered by reservations, results are submitted  *)
(* only after their usage was accepted, and the vendor is called in turn.  *)
(***************************************************************************)
EXTENDS RunnerFleet, FiniteSetTheorems, WellFoundedInduction, TLAPS

-----------------------------------------------------------------------------
(* The inductive invariant *)

\* Where a task holds a reservation that no vendor call has used yet.
Paid == {"guard", "start"}

\* One pair for each token that is reserved and not spent: its number of elements is
\* the sum of the reservations outstanding.
Reserved == {x \in Tasks \X (1 .. Allowance) :
                task[x[1]].pc \in Paid /\ x[2] <= task[x[1]].request}

\* What was spent and what may be spent on reservations is charged.
Covered ==
    /\ admission = NoAdmission => spent = 0 /\ Reserved = {}
    /\ admission # NoAdmission =>
          spent + Cardinality(Reserved) <= admission.used /\ admission.used <= TokenBudget

\* The results that are accounted for: recorded, on their way, or about to be sent.
Results ==
    submissions \cup {p.ordinal : p \in posts} \cup {t[2] : t \in {u \in Tasks : At(u, "accounted")}}
Reports == IF admission = NoAdmission THEN 0 ELSE admission.reports
Accounted == Cardinality(Results) <= Reports

\* The places of a task that may still call the vendor.
MayCall == {"claim", "reserve"} \cup UnderHeartbeat
Ordered(o) == PlanMode = "sequential" \/ Plan[o + 1].role = "reviewer"
Before(o) == {q \in Ordinals : q < o}

\* Everything that precedes o is recorded, and prior is what the prompt shows of it.
Informed(o, prior) ==
    Ordered(o) => Before(o) \subseteq submissions /\ prior = Fitting(Before(o))

\* What a pass has seen stays recorded, so what made a task eligible stays true.
InTurn ==
    /\ \A r \in Runners : poll[r].view \subseteq submissions
    /\ \A t \in Tasks : task[t].pc \in MayCall => Informed(t[2], task[t].prior)

\* A task only waits for a retry it may still make.
RetriesLeft == \A t \in Tasks : task[t].pc \in {"backoff", "retry"} => task[t].retries < MaxRetries

IInv == TypeOK /\ RetriesLeft /\ Covered /\ Accounted /\ InTurn
-----------------------------------------------------------------------------
(* The plan, sets of tokens and of results *)

\* The ordinals of a plan are numbered from 0.
LEMMA PlanFacts ==
    /\ Len(Plan) \in Nat /\ DOMAIN Plan = 1 .. Len(Plan)
    /\ Ordinals = 0 .. Len(Plan) - 1 /\ IsFiniteSet(Ordinals)
    /\ \A o \in Ordinals : o \in Nat /\ o + 1 \in DOMAIN Plan /\ Plan[o + 1].ordinal = o
<1>1. Len(Plan) \in Nat /\ DOMAIN Plan = 1 .. Len(Plan)
  BY PlanConstants
<1>2. Ordinals = 0 .. Len(Plan) - 1
  <2>1. ASSUME NEW i \in DOMAIN Plan PROVE Plan[i].ordinal \in 0 .. Len(Plan) - 1
    BY <1>1, PlanConstants
  <2>2. ASSUME NEW o \in 0 .. Len(Plan) - 1 PROVE o + 1 \in DOMAIN Plan /\ Plan[o + 1].ordinal = o
    <3>1. o + 1 \in DOMAIN Plan /\ (o + 1) - 1 = o
      BY <1>1
    <3> QED BY <3>1, PlanConstants
  <2> QED BY <2>1, <2>2 DEF Ordinals
<1>3. IsFiniteSet(Ordinals)
  BY <1>1, <1>2, FS_Interval
<1>4. \A o \in Ordinals : o \in Nat /\ o + 1 \in DOMAIN Plan /\ Plan[o + 1].ordinal = o
  BY <1>1, <1>2, PlanConstants
<1> QED BY <1>1, <1>2, <1>3, <1>4

\* A task is a runner and an ordinal.
LEMMA TaskParts ==
    /\ \A t \in Tasks : t[1] \in Runners /\ t[2] \in Ordinals /\ t = <<t[1], t[2]>>
    /\ \A r \in Runners, o \in Ordinals : <<r, o>> \in Tasks
BY DEF Tasks

\* There are finitely many tokens to reserve.
LEMMA ReservedFinite == IsFiniteSet(Reserved) /\ Cardinality(Reserved) \in Nat
<1>1. IsFiniteSet(Runners) /\ IsFiniteSet(Ordinals) /\ IsFiniteSet(1 .. Allowance)
  BY PlanFacts, FleetConstants, FS_Interval
<1>2. IsFiniteSet(Tasks)
  BY <1>1, FS_Product DEF Tasks
<1>3. IsFiniteSet(Tasks \X (1 .. Allowance))
  BY <1>1, <1>2, FS_Product
<1>4. Reserved \subseteq Tasks \X (1 .. Allowance)
  BY DEF Reserved
<1> QED BY <1>3, <1>4, FS_Subset, FS_CardinalityType

\* The tokens of one request.
Tokens(t) == {t} \X (1 .. task[t].request)

\* There are as many as it asks for.
LEMMA TokensCounted ==
    ASSUME TypeOK, NEW t \in Tasks
    PROVE  IsFiniteSet(Tokens(t)) /\ Cardinality(Tokens(t)) = task[t].request
<1>1. task[t].request \in Nat
  BY FleetConstants DEF TypeOK, Task
<1>2. IsFiniteSet({t}) /\ Cardinality({t}) = 1
  BY FS_Singleton
<1>3. IsFiniteSet(1 .. task[t].request) /\ Cardinality(1 .. task[t].request) = task[t].request
  <2> DEFINE n == task[t].request
  <2>1. IsFiniteSet(1 .. n) /\ Cardinality(1 .. n) = IF 1 > n THEN 0 ELSE n - 1 + 1
    BY <1>1, FS_Interval
  <2> QED BY <1>1, <2>1
<1>4. IsFiniteSet(Tokens(t)) /\ Cardinality(Tokens(t)) = Cardinality({t}) * Cardinality(1 .. task[t].request)
  BY <1>2, <1>3, FS_Product DEF Tokens
<1> QED BY <1>1, <1>2, <1>3, <1>4

\* Results are ordinals of the plan.
LEMMA ResultsFinite ==
    ASSUME TypeOK
    PROVE  IsFiniteSet(Results) /\ Cardinality(Results) \in Nat
<1>1. Results \subseteq Ordinals
  BY TaskParts DEF Results, TypeOK, Post
<1> QED BY <1>1, PlanFacts, FS_Subset, FS_CardinalityType

\* A result that was sent is accounted for.
LEMMA PostsAreResults == \A p \in posts : p.ordinal \in Results
BY DEF Results

\* RequestTokens: what is left of the budget, at most the allowance.
LEMMA RequestBounded ==
    ASSUME NEW record, record.used \in Nat, record.used <= TokenBudget
    PROVE  RequestTokens(record) \in 0 .. Allowance
<1> DEFINE a == Allowance
           b == TokenBudget - record.used
<1>1. a \in Nat /\ b \in Nat
  BY FleetConstants
<1>2. \E x \in {a, b} : \A y \in {a, b} : x <= y
  BY <1>1
<1>3. Min({a, b}) \in {a, b} /\ \A y \in {a, b} : Min({a, b}) <= y
  BY <1>2 DEF Min
<1> QED BY <1>1, <1>3 DEF RequestTokens

-----------------------------------------------------------------------------
(* Steps that reserve, spend, account and call nothing *)

\* An admission starts with nothing used; no counter of it goes back or over the budget.
Charged ==
    /\ admission' \in Admission \cup {NoAdmission}
    /\ admission = NoAdmission => admission' = NoAdmission \/ admission'.used = 0
    /\ admission # NoAdmission =>
          /\ admission' # NoAdmission
          /\ admission.used <= admission'.used /\ admission'.used <= TokenBudget
          /\ admission.reports <= admission'.reports

\* No task gets a reservation.
LEMMA CoveredKept ==
    ASSUME TypeOK, Covered, Charged, spent' = spent,
           \A t \in Tasks : task'[t].pc \in Paid =>
               task[t].pc \in Paid /\ task'[t].request = task[t].request
    PROVE  Covered'
<1>1. Reserved' \subseteq Reserved
  BY DEF Reserved
<1>2. /\ Cardinality(Reserved) \in Nat /\ Cardinality(Reserved') \in Nat
      /\ Cardinality(Reserved') <= Cardinality(Reserved)
  <2>1. IsFiniteSet(Reserved) /\ IsFiniteSet(Reserved')
    BY <1>1, ReservedFinite, FS_Subset
  <2> QED BY <1>1, <2>1, FS_Subset, FS_CardinalityType
<1>3. spent \in Nat /\ (admission # NoAdmission => admission.used \in Nat /\ admission'.used \in Nat)
  BY DEF TypeOK, Admission, Charged
<1>4. CASE admission = NoAdmission
  <2>1. spent' = 0 /\ Reserved' = {} /\ Cardinality(Reserved') = 0
    BY <1>1, <1>4, FS_EmptySet DEF Covered
  <2>2. admission' # NoAdmission => admission'.used = 0
    BY <1>4 DEF Charged
  <2> QED BY <2>1, <2>2, FleetConstants DEF Covered
<1>5. CASE admission # NoAdmission
  <2>1. spent + Cardinality(Reserved) <= admission.used
    BY <1>5 DEF Covered
  <2>2. admission.used <= admission'.used /\ admission'.used <= TokenBudget /\ admission' # NoAdmission
    BY <1>5 DEF Charged
  <2>3. spent' + Cardinality(Reserved') <= admission'.used
    BY <1>2, <1>3, <1>5, <2>1, <2>2
  <2> QED BY <2>2, <2>3 DEF Covered
<1> QED BY <1>4, <1>5

\* No result is added.
LEMMA AccountedKept ==
    ASSUME TypeOK, Accounted, Charged, Results' \subseteq Results
    PROVE  Accounted'
<1>1. IsFiniteSet(Results) /\ Cardinality(Results) \in Nat
  BY ResultsFinite
<1>2. Cardinality(Results') \in Nat /\ Cardinality(Results') <= Cardinality(Results)
  BY <1>1, FS_Subset, FS_CardinalityType
<1>3. Reports \in Nat /\ Reports' \in Nat /\ Reports <= Reports'
  BY DEF Reports, Charged, TypeOK, Admission
<1> QED BY <1>1, <1>2, <1>3 DEF Accounted

\* Only tasks that may call already may call afterwards.
LEMMA InTurnKept ==
    ASSUME InTurn, submissions \subseteq submissions',
           \A r \in Runners : poll'[r].view \subseteq submissions,
           \A t \in Tasks : task'[t].pc \in MayCall =>
               \/ task[t].pc \in MayCall /\ task'[t].prior = task[t].prior
               \/ Informed(t[2], task'[t].prior)
    PROVE  InTurn'
<1>1. \A t \in Tasks : \A prior : Informed(t[2], prior) => Informed(t[2], prior)'
  BY DEF Informed, Ordered, Before, Fitting
<1>2. ASSUME NEW t \in Tasks, task'[t].pc \in MayCall PROVE Informed(t[2], task[t].prior)'
  <2>1. Informed(t[2], task'[t].prior)
    BY <1>2 DEF InTurn
  <2> QED BY <1>1, <2>1
<1>3. \A r \in Runners : poll'[r].view \subseteq submissions'
  OBVIOUS
<1> QED BY <1>2, <1>3 DEF InTurn

\* A step that moves tasks towards their end, and drops posts or the awaiting of them.
LEMMA RetreatStep ==
    ASSUME IInv, Charged, UNCHANGED <<submissions, spent>>,
           up' \in [Runners -> {"up", "draining", "down"}],
           poll' \in [Runners -> [seen: BOOLEAN, view: SUBSET Ordinals]],
           \A r \in Runners : poll'[r].view \subseteq submissions,
           claim' \in [Ordinals -> Runners \cup {NoRunner}],
           task' \in [Tasks -> Task],
           \A t \in Tasks :
              /\ task'[t].pc \in Paid => task[t].pc \in Paid /\ task'[t].request = task[t].request
              /\ task'[t].pc \in MayCall =>
                    \/ task[t].pc \in MayCall /\ task'[t].prior = task[t].prior
                    \/ Informed(t[2], task'[t].prior)
              /\ task'[t].pc \in {"backoff", "retry"} => task'[t].retries < MaxRetries
              /\ task'[t].pc = "accounted" => task[t].pc = "accounted"
              /\ task'[t].live => claim'[t[2]] = t[1],
           posts' \subseteq Post,
           \A p \in posts' :
              /\ p.ordinal \in Results
              /\ p.live => claim'[p.ordinal] = p.by
    PROVE  IInv'
<1>1. TypeOK'
  <2>1. Ordinals' = Ordinals /\ Tasks' = Tasks /\ Task' = Task /\ Post' = Post /\ Admission' = Admission
    BY DEF Ordinals, Tasks, Task, Post, Admission
  <2> QED BY <2>1 DEF IInv, TypeOK, Charged
<1>2. RetriesLeft'
  BY DEF RetriesLeft
<1>3. Covered'
  BY CoveredKept DEF IInv
<1>4. Accounted'
  <2>1. Results' \subseteq Results
    BY DEF Results, At
  <2> QED BY <2>1, AccountedKept DEF IInv
<1>5. InTurn'
  BY InTurnKept DEF IInv
<1> QED BY <1>1, <1>2, <1>3, <1>4, <1>5 DEF IInv

\* Nothing is charged or reported.
LEMMA SameAdmission == ASSUME IInv, UNCHANGED admission PROVE Charged
BY DEF IInv, TypeOK, Admission, Charged, Covered

\* A task goes on without anything of its own changing but its place.
LEMMA GotoStep ==
    ASSUME IInv, Charged, NEW t \in Tasks, NEW pc, Goto(t, pc),
           pc \in {"start", "call", "backoff", "retry", "finished", "complete", "cancel", "release"},
           pc = "start" => task[t].pc = "guard",
           pc \in {"call", "backoff", "retry"} => task[t].pc \in MayCall,
           pc \in {"backoff", "retry"} => task[t].retries < MaxRetries,
           UNCHANGED <<up, poll, claim, posts, submissions, spent>>
    PROVE  IInv'
<1>1. task \in [Tasks -> Task] /\ task' = [task EXCEPT ![t].pc = pc]
  BY DEF IInv, TypeOK, Goto
<1>2. /\ task'[t] = [task[t] EXCEPT !.pc = pc]
      /\ \A u \in Tasks : u # t => task'[u] = task[u]
  BY <1>1
<1>3. /\ task'[t] \in Task /\ task'[t].pc = pc /\ task'[t].live = task[t].live
      /\ task'[t].request = task[t].request /\ task'[t].retries = task[t].retries
      /\ task'[t].prior = task[t].prior
  BY <1>1, <1>2 DEF Task
<1>4. task' \in [Tasks -> Task]
  BY <1>1, <1>3
<1>5. \A u \in Tasks :
          /\ task'[u].pc \in Paid => task[u].pc \in Paid /\ task'[u].request = task[u].request
          /\ task'[u].pc \in MayCall => task[u].pc \in MayCall /\ task'[u].prior = task[u].prior
          /\ task'[u].pc \in {"backoff", "retry"} => task'[u].retries < MaxRetries
          /\ task'[u].pc = "accounted" => task[u].pc = "accounted"
          /\ task'[u].live => claim'[u[2]] = u[1]
  <2> TAKE u \in Tasks
  <2>1. CASE u = t
    BY <1>3, <2>1 DEF IInv, TypeOK, Paid, MayCall, UnderHeartbeat
  <2>2. CASE u # t
    BY <1>2, <2>2 DEF IInv, TypeOK, RetriesLeft
  <2> QED BY <2>1, <2>2
<1> QED BY <1>4, <1>5, PostsAreResults, RetreatStep DEF IInv, TypeOK, InTurn

-----------------------------------------------------------------------------
(* The steps of a task *)

\* The claim is granted.
LEMMA ClaimGrantedKeeps ==
    ASSUME IInv, NEW t \in Tasks, ClaimGranted(t)
    PROVE  IInv'
<1>1. /\ task \in [Tasks -> Task] /\ t[2] \in Ordinals /\ t[1] \in Runners
      /\ claim \in [Ordinals -> Runners \cup {NoRunner}]
  BY TaskParts DEF IInv, TypeOK
<1>2. /\ task[t].pc = "claim" /\ claim[t[2]] = NoRunner /\ claim' = [claim EXCEPT ![t[2]] = t[1]]
      /\ task' = [task EXCEPT ![t].pc = "reserve", ![t].live = TRUE]
      /\ UNCHANGED <<up, poll, posts, admission, submissions, spent>>
  BY DEF ClaimGranted, At, bridge
<1>3. /\ task'[t] \in Task /\ task'[t].pc = "reserve" /\ task'[t].prior = task[t].prior
      /\ \A u \in Tasks : u # t => task'[u] = task[u]
  BY <1>1, <1>2 DEF Task
<1>4. task' \in [Tasks -> Task] /\ claim' \in [Ordinals -> Runners \cup {NoRunner}]
  BY <1>1, <1>2, <1>3
<1>5. \A u \in Tasks : u # t /\ task[u].live => claim[u[2]] = u[1] /\ u[1] # NoRunner /\ u[2] \in Ordinals
  BY TaskParts, FleetConstants DEF IInv, TypeOK
<1>6. \A p \in posts : p.live => claim'[p.ordinal] = p.by
  BY <1>1, <1>2, FleetConstants DEF IInv, TypeOK, Post
<1>7. \A u \in Tasks :
          /\ task'[u].pc \in Paid => task[u].pc \in Paid /\ task'[u].request = task[u].request
          /\ task'[u].pc \in MayCall => task[u].pc \in MayCall /\ task'[u].prior = task[u].prior
          /\ task'[u].pc \in {"backoff", "retry"} => task'[u].retries < MaxRetries
          /\ task'[u].pc = "accounted" => task[u].pc = "accounted"
          /\ task'[u].live => claim'[u[2]] = u[1]
  <2> TAKE u \in Tasks
  <2>1. CASE u = t
    BY <1>1, <1>2, <1>3, <2>1 DEF Paid, MayCall
  <2>2. CASE u # t
    BY <1>1, <1>2, <1>3, <1>5, <2>2 DEF IInv, RetriesLeft
  <2> QED BY <2>1, <2>2
<1> QED BY <1>2, <1>4, <1>6, <1>7, SameAdmission, PostsAreResults, RetreatStep DEF IInv, TypeOK, InTurn

\* The claim is refused, or granted with its answer lost.
LEMMA ClaimFailedKeeps ==
    ASSUME IInv, NEW t \in Tasks, ClaimFailed(t)
    PROVE  IInv'
<1>1. /\ task \in [Tasks -> Task] /\ t[2] \in Ordinals /\ t[1] \in Runners
      /\ claim \in [Ordinals -> Runners \cup {NoRunner}]
  BY TaskParts DEF IInv, TypeOK
<1>2. /\ task' = [task EXCEPT ![t] = IdleTask]
      /\ \/ claim' = claim
         \/ claim[t[2]] = NoRunner /\ claim' = [claim EXCEPT ![t[2]] = t[1]]
      /\ UNCHANGED <<up, poll, posts, admission, submissions, spent>>
  BY DEF ClaimFailed, bridge
<1>3. IdleTask \in Task /\ IdleTask.pc = "idle" /\ ~IdleTask.live
  BY FleetConstants DEF Task, IdleTask
<1>4. task' \in [Tasks -> Task] /\ claim' \in [Ordinals -> Runners \cup {NoRunner}]
  BY <1>1, <1>2, <1>3
<1>5. \A o \in Ordinals, r \in Runners : claim[o] = r => claim'[o] = r
  BY <1>1, <1>2, FleetConstants
<1>6. \A p \in posts : p.live => claim'[p.ordinal] = p.by
  BY <1>5 DEF IInv, TypeOK, Post
<1>7. \A u \in Tasks :
          /\ task'[u].pc \in Paid => task[u].pc \in Paid /\ task'[u].request = task[u].request
          /\ task'[u].pc \in MayCall => task[u].pc \in MayCall /\ task'[u].prior = task[u].prior
          /\ task'[u].pc \in {"backoff", "retry"} => task'[u].retries < MaxRetries
          /\ task'[u].pc = "accounted" => task[u].pc = "accounted"
          /\ task'[u].live => claim'[u[2]] = u[1]
  <2> TAKE u \in Tasks
  <2>1. CASE u = t
    BY <1>1, <1>2, <1>3, <2>1 DEF Paid, MayCall, UnderHeartbeat
  <2>2. CASE u # t
    BY <1>1, <1>2, <1>5, <2>2, TaskParts DEF IInv, TypeOK, RetriesLeft
  <2> QED BY <2>1, <2>2
<1> QED BY <1>2, <1>4, <1>6, <1>7, SameAdmission, PostsAreResults, RetreatStep DEF IInv, TypeOK, InTurn
\* The step's parts: what a lemma about one step has to show.
LEMMA ByParts ==
    ASSUME TypeOK', RetriesLeft', Covered', Accounted', InTurn'
    PROVE  IInv'
BY DEF IInv

\* The reservation is accepted and its answer received: the task holds it now.
LEMMA ReservedKeeps ==
    ASSUME IInv, NEW t \in Tasks, Reserving(t), Owns(t[1]), Charge(task[t].request),
           task' = [task EXCEPT ![t].pc = "guard",
              ![t].retries = IF At(t, "retry") THEN task[t].retries + 1 ELSE task[t].retries],
           UNCHANGED <<up, poll, claim, posts, submissions, spent>>
    PROVE  IInv'
<1> DEFINE n == task[t].request
<1>1. /\ task \in [Tasks -> Task] /\ task[t] \in Task /\ n \in Nat /\ n <= Allowance
      /\ task[t].retries \in Nat /\ task[t].retries <= MaxRetries
      /\ task[t].pc \in {"reserve", "retry"}
  BY FleetConstants DEF IInv, TypeOK, Task, Reserving, At
<1>2. task[t].pc = "retry" => task[t].retries < MaxRetries
  BY DEF IInv, RetriesLeft
<1>3. /\ task'[t].pc = "guard" /\ task'[t].live = task[t].live /\ task'[t].request = n
      /\ task'[t] \in Task /\ task'[t].prior = task[t].prior
      /\ \A u \in Tasks : u # t => task'[u] = task[u]
  <2>1. (IF At(t, "retry") THEN task[t].retries + 1 ELSE task[t].retries) \in 0 .. MaxRetries
    BY <1>1, <1>2, FleetConstants DEF At
  <2> QED BY <1>1, <2>1 DEF Task
<1>4. task' \in [Tasks -> Task]
  BY <1>1, <1>3
<1>5. /\ admission \in Admission /\ admission # NoAdmission /\ admission' \in Admission
      /\ admission'.used = admission.used + n /\ admission'.used <= TokenBudget
      /\ admission'.reports = admission.reports /\ admission.used \in Nat
      /\ admission' # NoAdmission
  <2>1. admission \in Admission /\ admission # NoAdmission
    BY DEF IInv, TypeOK, Owns, Active
  <2> QED BY <1>1, <2>1, FleetConstants DEF Charge, Admission
<1>6. Charged
  BY <1>1, <1>5, FleetConstants DEF Charged, Admission
<1>7. TypeOK'
  <2>1. Ordinals' = Ordinals /\ Tasks' = Tasks /\ Task' = Task /\ Post' = Post /\ Admission' = Admission
    BY DEF Ordinals, Tasks, Task, Post, Admission
  <2>2. \A u \in Tasks : task'[u].live => claim[u[2]] = u[1]
    BY <1>3 DEF IInv, TypeOK
  <2> QED BY <1>4, <1>5, <2>1, <2>2 DEF IInv, TypeOK
<1>8. RetriesLeft'
  BY <1>3 DEF IInv, RetriesLeft
<1>9. Covered'
  <2>1. Reserved' \subseteq Reserved \cup Tokens(t)
    <3> SUFFICES ASSUME NEW x \in Reserved', x \notin Reserved PROVE x \in Tokens(t)
      OBVIOUS
    <3>1. /\ x \in Tasks \X (1 .. Allowance) /\ task'[x[1]].pc \in Paid /\ x[2] <= task'[x[1]].request
      BY DEF Reserved
    <3>2. x[1] = t
      BY <1>3, <3>1 DEF Reserved
    <3> QED BY <1>1, <1>3, <3>1, <3>2 DEF Tokens
  <2>2. /\ IsFiniteSet(Reserved) /\ Cardinality(Reserved) \in Nat
        /\ IsFiniteSet(Tokens(t)) /\ Cardinality(Tokens(t)) = n
    BY ReservedFinite, TokensCounted DEF IInv
  <2>3. /\ IsFiniteSet(Reserved \cup Tokens(t)) /\ Cardinality(Reserved \cap Tokens(t)) \in Nat
        /\ Cardinality(Reserved \cup Tokens(t)) =
              Cardinality(Reserved) + Cardinality(Tokens(t)) - Cardinality(Reserved \cap Tokens(t))
    <3>1. IsFiniteSet(Reserved \cap Tokens(t))
      BY <2>2, FS_Subset
    <3> QED BY <2>2, <3>1, FS_Union, FS_CardinalityType
  <2>4. Cardinality(Reserved') \in Nat /\ Cardinality(Reserved') <= Cardinality(Reserved) + n
    <3>1. /\ IsFiniteSet(Reserved') /\ Cardinality(Reserved') <= Cardinality(Reserved \cup Tokens(t))
      BY <2>1, <2>3, FS_Subset
    <3>2. Cardinality(Reserved') \in Nat
      BY <3>1, FS_CardinalityType
    <3> QED BY <1>1, <2>2, <2>3, <3>1, <3>2
  <2>5. spent \in Nat /\ spent + Cardinality(Reserved) <= admission.used
    BY <1>5 DEF IInv, TypeOK, Covered
  <2>6. spent' + Cardinality(Reserved') <= admission'.used
    BY <1>1, <1>5, <2>2, <2>4, <2>5
  <2> QED BY <1>5, <2>6 DEF Covered
<1>10. Accounted'
  <2>1. Results' \subseteq Results
    BY <1>3 DEF Results, At
  <2> QED BY <1>6, <2>1, AccountedKept DEF IInv
<1>11. InTurn'
  <2>1. \A u \in Tasks : task'[u].pc \in MayCall => task[u].pc \in MayCall /\ task'[u].prior = task[u].prior
    BY <1>1, <1>3 DEF MayCall, UnderHeartbeat
  <2> QED BY <2>1, InTurnKept DEF IInv, InTurn
<1> QED BY <1>7, <1>8, <1>9, <1>10, <1>11, ByParts

\* The vendor call starts: the reservation is used up.
LEMMA CallKeeps ==
    ASSUME IInv, NEW t \in Tasks, At(t, "start"), Goto(t, "call"), spent' = spent + task[t].request,
           UNCHANGED <<up, poll, claim, bridge>>
    PROVE  IInv'
<1> DEFINE n == task[t].request
<1>1. /\ task \in [Tasks -> Task] /\ task[t] \in Task /\ n \in Nat /\ n <= Allowance
      /\ task[t].pc = "start" /\ task' = [task EXCEPT ![t].pc = "call"]
      /\ UNCHANGED <<posts, admission, submissions>>
  BY FleetConstants DEF IInv, TypeOK, Task, At, Goto, bridge
<1>2. /\ task'[t].pc = "call" /\ task'[t].live = task[t].live /\ task'[t].request = n
      /\ task'[t] \in Task /\ task'[t].prior = task[t].prior
      /\ \A u \in Tasks : u # t => task'[u] = task[u]
  BY <1>1 DEF Task
<1>3. task' \in [Tasks -> Task] /\ spent \in Nat /\ spent' \in Nat
  BY <1>1, <1>2 DEF IInv, TypeOK
<1>4. Charged
  BY <1>1, SameAdmission
<1>5. TypeOK'
  <2>1. Ordinals' = Ordinals /\ Tasks' = Tasks /\ Task' = Task /\ Post' = Post /\ Admission' = Admission
    BY DEF Ordinals, Tasks, Task, Post, Admission
  <2>2. \A u \in Tasks : task'[u].live => claim[u[2]] = u[1]
    BY <1>2 DEF IInv, TypeOK
  <2> QED BY <1>1, <1>3, <2>1, <2>2 DEF IInv, TypeOK
<1>6. RetriesLeft'
  BY <1>2 DEF IInv, RetriesLeft
<1>7. Covered'
  <2>1. Tokens(t) \subseteq Reserved
    <3> SUFFICES ASSUME NEW x \in Tokens(t) PROVE x \in Reserved
      OBVIOUS
    <3>1. x = <<x[1], x[2]>> /\ x[1] = t /\ x[2] \in 1 .. n
      BY DEF Tokens
    <3>2. x[2] \in 1 .. Allowance /\ x[2] <= n
      BY <1>1, <3>1, FleetConstants
    <3> QED BY <1>1, <3>1, <3>2 DEF Reserved, Paid
  <2>2. Reserved' \subseteq Reserved \ Tokens(t)
    <3> SUFFICES ASSUME NEW x \in Reserved' PROVE x \in Reserved /\ x \notin Tokens(t)
      OBVIOUS
    <3>1. x \in Tasks \X (1 .. Allowance) /\ task'[x[1]].pc \in Paid /\ x[2] <= task'[x[1]].request
      BY DEF Reserved
    <3>2. x[1] # t
      BY <1>2, <3>1 DEF Paid
    <3> QED BY <1>2, <3>1, <3>2 DEF Reserved, Tokens
  <2>3. /\ IsFiniteSet(Reserved) /\ Cardinality(Reserved) \in Nat
        /\ IsFiniteSet(Tokens(t)) /\ Cardinality(Tokens(t)) = n
    BY ReservedFinite, TokensCounted DEF IInv
  <2>4. /\ IsFiniteSet(Reserved \ Tokens(t))
        /\ Cardinality(Reserved \ Tokens(t)) = Cardinality(Reserved) - n
    <3>1. Reserved \cap Tokens(t) = Tokens(t)
      BY <2>1
    <3>2. /\ IsFiniteSet(Reserved \ Tokens(t))
          /\ Cardinality(Reserved \ Tokens(t)) =
                Cardinality(Reserved) - Cardinality(Reserved \cap Tokens(t))
      BY <2>3, FS_Difference
    <3> QED BY <2>3, <3>1, <3>2
  <2>5. Cardinality(Reserved') \in Nat /\ Cardinality(Reserved') <= Cardinality(Reserved) - n
    <3>1. IsFiniteSet(Reserved') /\ Cardinality(Reserved') <= Cardinality(Reserved \ Tokens(t))
      BY <2>2, <2>4, FS_Subset
    <3> QED BY <2>4, <3>1, FS_CardinalityType
  <2>6. CASE admission = NoAdmission
    <3>1. Reserved = {} /\ spent = 0 /\ Cardinality(Reserved) = 0
      BY <2>6, FS_EmptySet DEF IInv, Covered
    <3>2. n = 0
      BY <1>1, <2>5, <3>1
    <3>3. Reserved' = {}
      BY <2>2, <3>1
    <3> QED BY <1>1, <2>6, <3>1, <3>2, <3>3 DEF Covered
  <2>7. CASE admission # NoAdmission
    <3>1. /\ spent + Cardinality(Reserved) <= admission.used /\ admission.used <= TokenBudget
          /\ admission.used \in Nat
      BY <2>7 DEF IInv, TypeOK, Covered, Admission
    <3>2. spent' + Cardinality(Reserved') <= admission.used
      BY <1>1, <1>3, <2>3, <2>5, <3>1
    <3> QED BY <1>1, <2>7, <3>1, <3>2 DEF Covered
  <2> QED BY <2>6, <2>7
<1>8. Accounted'
  <2>1. Results' \subseteq Results
    BY <1>1, <1>2 DEF Results, At
  <2> QED BY <1>4, <2>1, AccountedKept DEF IInv
<1>9. InTurn'
  <2>1. \A u \in Tasks : task'[u].pc \in MayCall => task[u].pc \in MayCall /\ task'[u].prior = task[u].prior
    BY <1>1, <1>2 DEF MayCall, UnderHeartbeat
  <2> QED BY <1>1, <2>1, InTurnKept DEF IInv, InTurn
<1> QED BY <1>5, <1>6, <1>7, <1>8, <1>9, ByParts

\* A report that was accepted, with what the vendor produced above its reservation.
LEMMA ReportCharges ==
    ASSUME IInv, Active, NEW over \in Overages, admission.used + over <= TokenBudget,
           admission' = [admission EXCEPT !.used = @ + over, !.reports = @ + 1]
    PROVE  /\ Charged /\ admission # NoAdmission /\ admission.reports \in Nat
           /\ admission' \in Admission /\ admission' # NoAdmission
           /\ admission'.reports = admission.reports + 1
<1>1. admission \in Admission /\ admission # NoAdmission /\ over \in Nat
  BY FleetConstants DEF IInv, TypeOK, Active
<1>2. /\ admission.used \in Nat /\ admission.reports \in Nat
      /\ admission.used + over \in Nat /\ admission.reports + 1 \in Nat
  BY <1>1 DEF Admission
<1>3. /\ admission'.used = admission.used + over /\ admission'.reports = admission.reports + 1
      /\ admission'.owner = admission.owner /\ admission'.status = admission.status
      /\ admission' = [owner |-> admission'.owner, status |-> admission'.status,
                       used |-> admission'.used, reports |-> admission'.reports]
  BY <1>1 DEF Admission
<1>4. admission' \in Admission
  BY <1>1, <1>2, <1>3 DEF Admission
<1>5. admission' # NoAdmission
  BY <1>4, FleetConstants
<1>6. admission.used <= admission'.used /\ admission'.used <= TokenBudget /\ admission.reports <= admission'.reports
  BY <1>1, <1>2, <1>3
<1> QED BY <1>1, <1>2, <1>3, <1>4, <1>5, <1>6 DEF Charged

\* The report is accepted: there is one more result that may be sent, and one more report.
LEMMA ReportedKeeps ==
    ASSUME IInv, NEW t \in Tasks, At(t, "finished"), Owns(t[1]),
           NEW over \in Overages, admission.used + over <= TokenBudget,
           admission' = [admission EXCEPT !.used = @ + over, !.reports = @ + 1], Goto(t, "accounted"),
           UNCHANGED <<up, poll, claim, posts, submissions, spent>>
    PROVE  IInv'
<1>1. /\ task \in [Tasks -> Task] /\ task[t] \in Task
      /\ task[t].pc = "finished" /\ task' = [task EXCEPT ![t].pc = "accounted"]
  BY DEF IInv, TypeOK, At, Goto
<1>2. /\ task'[t].pc = "accounted" /\ task'[t].live = task[t].live /\ task'[t] \in Task
      /\ \A u \in Tasks : u # t => task'[u] = task[u]
  BY <1>1 DEF Task
<1>3. task' \in [Tasks -> Task]
  BY <1>1, <1>2
<1>4. /\ admission # NoAdmission /\ admission.reports \in Nat
      /\ admission' \in Admission /\ admission' # NoAdmission
      /\ admission'.reports = admission.reports + 1
  BY ReportCharges DEF Owns
<1>5. Charged
  BY ReportCharges DEF Owns
<1>6. TypeOK'
  <2>1. Ordinals' = Ordinals /\ Tasks' = Tasks /\ Task' = Task /\ Post' = Post /\ Admission' = Admission
    BY DEF Ordinals, Tasks, Task, Post, Admission
  <2>2. \A u \in Tasks : task'[u].live => claim[u[2]] = u[1]
    BY <1>2 DEF IInv, TypeOK
  <2> QED BY <1>3, <1>4, <2>1, <2>2 DEF IInv, TypeOK
<1>7. RetriesLeft'
  BY <1>2 DEF IInv, RetriesLeft
<1>8. Covered'
  <2>1. \A u \in Tasks : task'[u].pc \in Paid =>
            task[u].pc \in Paid /\ task'[u].request = task[u].request
    BY <1>2 DEF Paid
  <2> QED BY <1>5, <2>1, CoveredKept DEF IInv
<1>9. Accounted'
  <2>1. Results' \subseteq Results \cup {t[2]}
    BY <1>2 DEF Results, At
  <2>2. IsFiniteSet(Results) /\ Cardinality(Results) \in Nat
    BY ResultsFinite DEF IInv
  <2>3. /\ IsFiniteSet(Results \cup {t[2]})
        /\ Cardinality(Results \cup {t[2]}) \in {Cardinality(Results), Cardinality(Results) + 1}
    BY <2>2, FS_AddElement
  <2>4. IsFiniteSet(Results') /\ Cardinality(Results') <= Cardinality(Results \cup {t[2]})
    BY <2>1, <2>3, FS_Subset
  <2>5. Cardinality(Results') \in Nat /\ Cardinality(Results') <= Cardinality(Results) + 1
    BY <2>2, <2>3, <2>4, FS_CardinalityType
  <2>6. Reports = admission.reports /\ Reports' = admission.reports + 1
    BY <1>4 DEF Reports
  <2> QED BY <1>4, <2>2, <2>5, <2>6 DEF IInv, Accounted
<1>10. InTurn'
  <2>1. \A u \in Tasks : task'[u].pc \in MayCall => task[u].pc \in MayCall /\ task'[u].prior = task[u].prior
    BY <1>1, <1>2 DEF MayCall, UnderHeartbeat
  <2> QED BY <2>1, InTurnKept DEF IInv, InTurn
<1> QED BY <1>6, <1>7, <1>8, <1>9, <1>10, ByParts
-----------------------------------------------------------------------------
(* Eligibility *)

\* The least-number principle, for a set of naturals.
LEMMA LeastNumber ==
    ASSUME NEW T, T \subseteq Nat, T # {}
    PROVE  \E x \in T : \A y \in T : x <= y
<1> DEFINE R == OpToRel(<, Nat)
<1>1. \A ss \in Nat \X Nat : ss \in R <=> ss[1] < ss[2]
  BY DEF OpToRel
<1>2. IsWellFoundedOn(R, Nat)
  BY NatLessThanWellFounded
<1> HIDE DEF R
<1>3. PICK x \in T : \A y \in T : <<y, x>> \notin R
  BY <1>2, WFMin
<1>4. ASSUME NEW y \in T PROVE x <= y
  <2>1. x \in Nat /\ y \in Nat /\ <<y, x>> \in Nat \X Nat
    BY <1>3
  <2>2. ~(y < x)
    BY <1>1, <1>3, <2>1
  <2> QED BY <2>1, <2>2
<1> QED BY <1>4

\* eligible_assignment: where the order matters, a pass only spawns a task for an
\* ordinal whose predecessors it has seen recorded.
LEMMA EligibleInTurn ==
    ASSUME NEW o \in Ordinals, NEW view, eligible_assignment(o, view), Ordered(o)
    PROVE  Before(o) \subseteq view
<1> DEFINE open == W!Pending(view)
<1>1. /\ o \in Nat /\ o + 1 \in DOMAIN Plan /\ Len(Plan) \in Nat /\ DOMAIN Plan = 1 .. Len(Plan)
      /\ AgentOf(o) = Plan[o + 1].agent_key /\ AgentOf(o) # NoAgent
  BY PlanFacts, PlanConstants DEF AgentOf
<1>2. open = {i \in DOMAIN Plan : Plan[i].role = "worker" /\ Plan[i].ordinal \notin view}
  BY DEF W!Pending, W!Workers
<1>3. \A i, j \in DOMAIN Plan : Plan[i].agent_key = Plan[j].agent_key => i = j
  BY PlanConstants
<1>4. /\ AgentOf(o) \in W!workflow_status(view).pending
      /\ W!workflow_status(view).current \in {NoAgent, AgentOf(o)}
  BY DEF eligible_assignment, Pending
<1>5. CASE open # {}
  <2>1. /\ W!workflow_status(view).pending = {Plan[i].agent_key : i \in open}
        /\ PlanMode = "sequential" =>
              W!workflow_status(view).current = Plan[W!FirstOf(open)].agent_key
    BY <1>5 DEF W!workflow_status, W!AgentsOf
  <2>2. o + 1 \in open
    BY <1>1, <1>2, <1>3, <1>4, <2>1
  <2>3. PlanMode = "sequential"
    BY <1>2, <2>2 DEF Ordered
  <2>4. W!FirstOf(open) \in open /\ \A j \in open : W!FirstOf(open) <= j
    <3>1. \E i \in open : \A j \in open : i <= j
      <4>1. open \subseteq Nat
        BY <1>1, <1>2
      <4> HIDE DEF open
      <4> QED BY <1>5, <4>1, LeastNumber
    <3> HIDE DEF open
    <3> QED BY <3>1 DEF W!FirstOf
  <2>5. W!FirstOf(open) = o + 1
    <3>1. Plan[W!FirstOf(open)].agent_key # NoAgent
      BY <1>2, <2>4, PlanConstants
    <3> QED BY <1>1, <1>2, <1>3, <1>4, <2>1, <2>3, <2>4, <3>1
  <2>6. ASSUME NEW q \in Before(o) PROVE q \in view
    <3>1. q \in Nat /\ q < o /\ q + 1 \in DOMAIN Plan /\ Plan[q + 1].ordinal = q
      BY PlanFacts DEF Before
    <3>2. Plan[q + 1].role = "worker"
      BY <2>3, <3>1, PlanConstants
    <3>3. q + 1 \notin open
      BY <1>1, <2>4, <2>5, <3>1
    <3> QED BY <1>2, <3>1, <3>2, <3>3
  <2> QED BY <2>6
<1>6. CASE open = {}
  <2>1. PlanMode = "consensus"
    BY <1>4, <1>6 DEF W!workflow_status
  <2>2. o + 1 = Len(Plan)
    <3>1. Plan[o + 1].role = "reviewer"
      BY <2>1 DEF Ordered
    <3> QED BY <1>1, <3>1, PlanConstants
  <2>3. ASSUME NEW q \in Before(o) PROVE q \in view
    <3>1. q \in Nat /\ q < o /\ q + 1 \in DOMAIN Plan /\ Plan[q + 1].ordinal = q
      BY PlanFacts DEF Before
    <3>2. q + 1 # Len(Plan)
      <4>1. o \in Nat /\ q + 1 # o + 1
        BY <1>1, <3>1
      <4> QED BY <2>2, <4>1
    <3>3. Plan[q + 1].role = "worker"
      BY <3>1, <3>2, PlanConstants
    <3> QED BY <1>2, <1>6, <3>1, <3>3
  <2> QED BY <2>3
<1> QED BY <1>5, <1>6

\* prior_submissions: once all that precedes o has been seen, it is what o is shown.
LEMMA PriorIsBefore ==
    ASSUME NEW o \in Ordinals, NEW view \in SUBSET Ordinals, Ordered(o), Before(o) \subseteq view
    PROVE  prior_submissions(o, view) = Before(o)
<1>1. o \in Nat /\ o + 1 \in DOMAIN Plan /\ Len(Plan) \in Nat /\ DOMAIN Plan = 1 .. Len(Plan)
  BY PlanFacts
<1>2. \A p \in view : p \in Nat /\ p + 1 \in DOMAIN Plan
  BY PlanFacts
<1>3. CASE PlanMode = "sequential"
  BY <1>3 DEF prior_submissions, Before
<1>4. CASE PlanMode # "sequential"
  <2>1. Plan[o + 1].role = "reviewer" /\ PlanMode = "consensus" /\ o + 1 = Len(Plan)
    BY <1>1, <1>4, PlanConstants DEF Ordered
  <2>2. prior_submissions(o, view) = {p \in view : Plan[p + 1].role = "worker"}
    BY <1>4, <2>1 DEF prior_submissions
  <2>3. ASSUME NEW p \in view PROVE Plan[p + 1].role = "worker" <=> p < o
    <3>1. p \in Nat /\ p + 1 \in DOMAIN Plan /\ p + 1 <= Len(Plan)
      BY <1>1, <1>2
    <3>2. Plan[p + 1].role = IF p + 1 = Len(Plan) THEN "reviewer" ELSE "worker"
      BY <2>1, <3>1, PlanConstants
    <3>3. p + 1 = o + 1 <=> ~(p < o)
      <4>1. p + 1 <= o + 1
        BY <2>1, <3>1
      <4> QED BY <1>1, <3>1, <4>1
    <3> QED BY <2>1, <3>2, <3>3
  <2> QED BY <2>2, <2>3 DEF Before
<1> QED BY <1>3, <1>4

-----------------------------------------------------------------------------
(* The other steps *)

\* Steps that leave tasks, posts and the admission alone.
LEMMA FleetStep ==
    ASSUME IInv, UNCHANGED <<task, claim, posts, admission, submissions, spent>>,
           up' \in [Runners -> {"up", "draining", "down"}],
           poll' \in [Runners -> [seen: BOOLEAN, view: SUBSET Ordinals]],
           \A r \in Runners : poll'[r].view \subseteq submissions
    PROVE  IInv'
BY SameAdmission, PostsAreResults, RetreatStep DEF IInv, TypeOK, RetriesLeft

\* A pass begins, a runner comes back, shuts down or has drained.
LEMMA RunnerKeeps ==
    ASSUME IInv, NEW r \in Runners, PollList(r) \/ Restart(r) \/ Shutdown(r) \/ Drained(r)
    PROVE  IInv'
<1>1. /\ UNCHANGED <<task, claim, posts, admission, submissions, spent>>
      /\ up \in [Runners -> {"up", "draining", "down"}]
      /\ poll \in [Runners -> [seen: BOOLEAN, view: SUBSET Ordinals]]
      /\ submissions \subseteq Ordinals
      /\ \A q \in Runners : poll[q].view \subseteq submissions
  BY DEF PollList, Restart, Shutdown, Drained, bridge, IInv, TypeOK, InTurn
<1>2. CASE PollList(r)
  <2>1. up' = up /\ poll' = [poll EXCEPT ![r] = [seen |-> TRUE, view |-> submissions]]
    BY <1>2 DEF PollList
  <2> QED BY <1>1, <2>1, FleetStep
<1>3. CASE Restart(r) \/ Shutdown(r) \/ Drained(r)
  <2>1. poll' = poll /\ \E x \in {"up", "draining", "down"} : up' = [up EXCEPT ![r] = x]
    BY <1>3 DEF Restart, Shutdown, Drained
  <2> QED BY <1>1, <2>1, FleetStep
<1> QED BY <1>2, <1>3

\* ensure makes a record of nothing used, or leaves the one there is.
LEMMA EnsuredCharges ==
    ASSUME IInv, NEW r \in Runners, admission' \in {admission, Ensured(r)}
    PROVE  Charged /\ Ensured(r) \in Admission /\ Ensured(r).used <= TokenBudget
<1>1. NewRecord(r) \in Admission /\ NewRecord(r).used = 0
  BY DEF NewRecord, Admission
<1>2. CASE admission = NoAdmission
  BY <1>1, <1>2, FleetConstants DEF Ensured, Charged
<1>3. CASE admission # NoAdmission
  <2>1. Ensured(r) = admission
    BY <1>3 DEF Ensured
  <2> QED BY <1>3, <2>1, SameAdmission DEF IInv, TypeOK, Covered
<1> QED BY <1>2, <1>3

\* A pass ends.
LEMMA PassOverFacts ==
    ASSUME IInv, NEW r \in Runners, PassOver(r)
    PROVE  /\ poll' \in [Runners -> [seen: BOOLEAN, view: SUBSET Ordinals]]
           /\ \A q \in Runners : poll'[q].view \subseteq submissions
<1>1. /\ poll \in [Runners -> [seen: BOOLEAN, view: SUBSET Ordinals]]
      /\ poll' = [poll EXCEPT ![r] = NoPass] /\ NoPass.view = {}
      /\ NoPass \in [seen: BOOLEAN, view: SUBSET Ordinals]
      /\ \A q \in Runners : poll[q].view \subseteq submissions
  BY DEF IInv, TypeOK, InTurn, PassOver, NoPass
<1> QED BY <1>1

\* A pass that spawns nothing.
LEMMA PollSkipKeeps ==
    ASSUME IInv, NEW r \in Runners, PollSkip(r)
    PROVE  IInv'
<1>1. /\ PassOver(r) /\ admission' \in {admission, Ensured(r)}
      /\ UNCHANGED <<up, task, claim, posts, submissions, spent>>
  BY DEF PollSkip
<1> QED BY <1>1, PassOverFacts, EnsuredCharges, PostsAreResults, RetreatStep
        DEF IInv, TypeOK, RetriesLeft

\* A pass spawns tasks: what made them eligible is recorded.
LEMMA PollSpawnKeeps ==
    ASSUME IInv, NEW r \in Runners, PollSpawn(r)
    PROVE  IInv'
<1> DEFINE shown(o) == Fitting(prior_submissions(o, poll[r].view))
           fresh(t) == [IdleTask EXCEPT !.pc = "claim", !.request = RequestTokens(Ensured(r)),
                                        !.prior = shown(t[2])]
<1>1. /\ PassOver(r) /\ admission' = Ensured(r)
      /\ task' = [t \in Tasks |-> IF t[1] = r /\ t[2] \in Spawned(r) THEN fresh(t) ELSE task[t]]
      /\ UNCHANGED <<up, claim, posts, submissions, spent>>
  BY DEF PollSpawn
<1>2. Charged /\ RequestTokens(Ensured(r)) \in 0 .. Allowance
  BY <1>1, EnsuredCharges, RequestBounded DEF Admission
<1>3. \A t \in Tasks :
          fresh(t) \in Task /\ fresh(t).pc = "claim" /\ ~fresh(t).live /\ fresh(t).prior = shown(t[2])
  <2>1. IdleTask \in Task /\ ~IdleTask.live
    BY FleetConstants DEF IdleTask, Task
  <2>2. \A o : shown(o) \in SUBSET Ordinals
    <3>1. poll[r].view \in SUBSET Ordinals
      BY DEF IInv, TypeOK
    <3> QED BY <3>1 DEF Fitting, prior_submissions
  <2> QED BY <1>2, <2>1, <2>2 DEF Task
<1> HIDE DEF fresh
<1>4. task \in [Tasks -> Task]
  BY DEF IInv, TypeOK
<1>5. task' \in [Tasks -> Task] /\ \A t \in Tasks :
          task'[t] = task[t] \/ (task'[t] = fresh(t) /\ t[1] = r /\ t[2] \in Spawned(r))
  BY <1>1, <1>3, <1>4
<1>6. \A o \in Spawned(r) : o \in Ordinals /\ eligible_assignment(o, poll[r].view)
  BY DEF Spawned
<1>7. ASSUME NEW o \in Spawned(r) PROVE Informed(o, shown(o))
  <2> SUFFICES ASSUME Ordered(o) PROVE Before(o) \subseteq submissions /\ shown(o) = Fitting(Before(o))
    BY DEF Informed
  <2>1. poll[r].view \in SUBSET Ordinals /\ poll[r].view \subseteq submissions
    BY DEF IInv, TypeOK, InTurn
  <2>2. o \in Ordinals /\ Before(o) \subseteq poll[r].view
    BY <1>6, EligibleInTurn
  <2>3. prior_submissions(o, poll[r].view) = Before(o)
    BY <2>1, <2>2, PriorIsBefore
  <2> QED BY <2>1, <2>2, <2>3
<1> HIDE DEF shown
<1>8. \A t \in Tasks :
          /\ task'[t].pc \in Paid => task[t].pc \in Paid /\ task'[t].request = task[t].request
          /\ task'[t].pc \in MayCall =>
                \/ task[t].pc \in MayCall /\ task'[t].prior = task[t].prior
                \/ Informed(t[2], task'[t].prior)
          /\ task'[t].pc \in {"backoff", "retry"} => task'[t].retries < MaxRetries
          /\ task'[t].pc = "accounted" => task[t].pc = "accounted"
          /\ task'[t].live => claim'[t[2]] = t[1]
  <2> TAKE t \in Tasks
  <2>1. CASE task'[t] = task[t]
    BY <1>1, <2>1 DEF IInv, TypeOK, RetriesLeft
  <2>2. CASE task'[t] = fresh(t) /\ t[2] \in Spawned(r)
    BY <1>3, <1>7, <2>2 DEF Paid
  <2> QED BY <1>5, <2>1, <2>2
<1> QED BY <1>1, <1>2, <1>5, <1>8, PassOverFacts, PostsAreResults, RetreatStep DEF IInv, TypeOK

\* The end of a grant: no task and no post of the ordinal is live any more.
LEMMA StaleFacts ==
    ASSUME IInv, NEW o \in Ordinals, NEW k \in [Tasks -> Task],
           \A u \in Tasks : k[u] = task[u] \/ k[u] = IdleTask,
           task' = Stale(k, o), posts' = StalePosts(o), claim' = [claim EXCEPT ![o] = NoRunner],
           UNCHANGED <<up, poll, admission, submissions, spent>>
    PROVE  IInv'
<1>1. /\ claim \in [Ordinals -> Runners \cup {NoRunner}] /\ posts \subseteq Post
      /\ \A u \in Tasks : task[u].live => claim[u[2]] = u[1]
      /\ \A p \in posts : p.live => claim[p.ordinal] = p.by
  BY DEF IInv, TypeOK
<1>2. /\ claim' \in [Ordinals -> Runners \cup {NoRunner}]
      /\ \A q \in Ordinals : q # o => claim'[q] = claim[q]
  BY <1>1
<1>3. IdleTask.pc = "idle" /\ ~IdleTask.live
  BY DEF IdleTask
<1>4. \A u \in Tasks :
          /\ task'[u] \in Task /\ task'[u].pc = k[u].pc /\ task'[u].request = k[u].request
          /\ task'[u].retries = k[u].retries /\ task'[u].prior = k[u].prior
          /\ (task'[u].live => k[u].live /\ u[2] # o)
  <2> TAKE u \in Tasks
  <2>1. k[u] \in Task /\ task'[u] = IF u[2] = o THEN [k[u] EXCEPT !.live = FALSE] ELSE k[u]
    BY DEF Stale
  <2>2. CASE u[2] = o
    <3>1. task'[u] = [k[u] EXCEPT !.live = FALSE]
      BY <2>1, <2>2
    <3>2. task'[u].pc = k[u].pc /\ task'[u].request = k[u].request /\ ~task'[u].live
      BY <2>1, <3>1 DEF Task
    <3>3. task'[u].retries = k[u].retries /\ task'[u].prior = k[u].prior
      BY <2>1, <3>1 DEF Task
    <3>4. task'[u] \in Task
      BY <2>1, <3>1 DEF Task
    <3> QED BY <3>2, <3>3, <3>4
  <2>3. CASE u[2] # o
    BY <2>1, <2>3
  <2> QED BY <2>2, <2>3
<1>5. task' \in [Tasks -> Task]
  BY <1>4 DEF Stale
<1>6. posts' \subseteq Post /\ \A p \in posts' :
          p.ordinal \in Results /\ (p.live => claim'[p.ordinal] = p.by)
  <2> SUFFICES ASSUME NEW p \in posts'
               PROVE  p \in Post /\ p.ordinal \in Results /\ (p.live => claim'[p.ordinal] = p.by)
    OBVIOUS
  <2>1. PICK q \in posts : p = IF q.ordinal = o THEN [q EXCEPT !.live = FALSE] ELSE q
    BY DEF StalePosts
  <2>2. q \in Post
    BY <1>1
  <2>3. p \in Post /\ p.ordinal = q.ordinal /\ p.by = q.by /\ (p.live => p = q /\ q.ordinal # o)
    BY <2>1, <2>2 DEF Post
  <2> QED BY <1>1, <1>2, <2>2, <2>3, PostsAreResults DEF Post
<1>7. \A u \in Tasks :
          /\ task'[u].pc \in Paid => task[u].pc \in Paid /\ task'[u].request = task[u].request
          /\ task'[u].pc \in MayCall => task[u].pc \in MayCall /\ task'[u].prior = task[u].prior
          /\ task'[u].pc \in {"backoff", "retry"} => task'[u].retries < MaxRetries
          /\ task'[u].pc = "accounted" => task[u].pc = "accounted"
          /\ task'[u].live => claim'[u[2]] = u[1]
  <2> TAKE u \in Tasks
  <2>1. CASE k[u] = IdleTask
    BY <1>3, <1>4, <2>1 DEF Paid, MayCall, UnderHeartbeat
  <2>2. CASE k[u] = task[u]
    BY <1>1, <1>2, <1>4, <2>2, TaskParts DEF IInv, RetriesLeft
  <2> QED BY <2>1, <2>2
<1> QED BY <1>2, <1>5, <1>6, <1>7, SameAdmission, RetreatStep DEF IInv, TypeOK, InTurn

\* A task ends; its claim may stay behind, or be released.
LEMMA EndedFacts ==
    ASSUME IInv, NEW t \in Tasks
    PROVE  /\ [task EXCEPT ![t] = IdleTask] \in [Tasks -> Task]
           /\ \A u \in Tasks : \/ [task EXCEPT ![t] = IdleTask][u] = task[u]
                               \/ [task EXCEPT ![t] = IdleTask][u] = IdleTask
<1>1. task \in [Tasks -> Task] /\ IdleTask \in Task
  BY FleetConstants DEF IInv, TypeOK, IdleTask, Task
<1> QED BY <1>1
\* What follows of a task that changes its place, for the proofs that also change posts.
LEMMA Retreats ==
    ASSUME IInv, NEW t \in Tasks, NEW pc, Goto(t, pc), UNCHANGED claim,
           pc \in {"submitting", "complete", "cancel", "release"}
    PROVE  /\ task' \in [Tasks -> Task]
           /\ \A u \in Tasks :
                /\ task'[u].pc \in Paid => task[u].pc \in Paid /\ task'[u].request = task[u].request
                /\ task'[u].pc \in MayCall => task[u].pc \in MayCall /\ task'[u].prior = task[u].prior
                /\ task'[u].pc \in {"backoff", "retry"} => task'[u].retries < MaxRetries
                /\ task'[u].pc = "accounted" => task[u].pc = "accounted"
                /\ task'[u].live => claim'[u[2]] = u[1]
<1>1. task \in [Tasks -> Task] /\ task' = [task EXCEPT ![t].pc = pc]
  BY DEF IInv, TypeOK, Goto
<1>2. /\ task'[t] \in Task /\ task'[t].pc = pc /\ task'[t].live = task[t].live
      /\ \A u \in Tasks : u # t => task'[u] = task[u]
  BY <1>1 DEF Task
<1>3. task' \in [Tasks -> Task]
  BY <1>1, <1>2
<1>4. ASSUME NEW u \in Tasks
      PROVE  /\ task'[u].pc \in Paid => task[u].pc \in Paid /\ task'[u].request = task[u].request
             /\ task'[u].pc \in MayCall => task[u].pc \in MayCall /\ task'[u].prior = task[u].prior
             /\ task'[u].pc \in {"backoff", "retry"} => task'[u].retries < MaxRetries
             /\ task'[u].pc = "accounted" => task[u].pc = "accounted"
             /\ task'[u].live => claim'[u[2]] = u[1]
  <2>1. CASE u = t
    BY <1>2, <2>1 DEF IInv, TypeOK, Paid, MayCall, UnderHeartbeat
  <2>2. CASE u # t
    BY <1>2, <2>2 DEF IInv, TypeOK, RetriesLeft
  <2> QED BY <2>1, <2>2
<1> QED BY <1>3, <1>4

\* The same where no task moves.
LEMMA Stays ==
    ASSUME IInv, UNCHANGED <<task, claim>>
    PROVE  /\ task' \in [Tasks -> Task]
           /\ \A u \in Tasks :
                /\ task'[u].pc \in Paid => task[u].pc \in Paid /\ task'[u].request = task[u].request
                /\ task'[u].pc \in MayCall => task[u].pc \in MayCall /\ task'[u].prior = task[u].prior
                /\ task'[u].pc \in {"backoff", "retry"} => task'[u].retries < MaxRetries
                /\ task'[u].pc = "accounted" => task[u].pc = "accounted"
                /\ task'[u].live => claim'[u[2]] = u[1]
BY DEF IInv, TypeOK, RetriesLeft

\* Nobody waits for some requests any more; they are on their way all the same.
LEMMA AbandonedFacts ==
    ASSUME IInv, NEW S, posts' = Abandoned(S), UNCHANGED claim
    PROVE  posts' \subseteq Post /\ \A p \in posts' :
               p.ordinal \in Results /\ (p.live => claim'[p.ordinal] = p.by)
<1> SUFFICES ASSUME NEW p \in posts'
             PROVE  p \in Post /\ p.ordinal \in Results /\ (p.live => claim'[p.ordinal] = p.by)
  OBVIOUS
<1>1. PICK q \in posts : p = IF TaskOf(q) \in S THEN [q EXCEPT !.awaited = FALSE] ELSE q
  BY DEF Abandoned
<1>2. q \in Post /\ (q.live => claim[q.ordinal] = q.by)
  BY DEF IInv, TypeOK
<1>3. p \in Post /\ p.ordinal = q.ordinal /\ p.by = q.by /\ p.live = q.live
  BY <1>1, <1>2 DEF Post
<1> QED BY <1>2, <1>3, PostsAreResults

\* The submission goes out: a result that is accounted for is now on its way.
LEMMA SentKeeps ==
    ASSUME IInv, NEW t \in Tasks, At(t, "accounted"), task[t].live, Goto(t, "submitting"),
           posts' = posts \cup {[by |-> t[1], ordinal |-> t[2], phase |-> "sent",
                                 live |-> TRUE, awaited |-> TRUE]},
           UNCHANGED <<up, poll, claim, admission, submissions, spent>>
    PROVE  IInv'
<1> DEFINE new == [by |-> t[1], ordinal |-> t[2], phase |-> "sent", live |-> TRUE, awaited |-> TRUE]
<1>1. new \in Post /\ new.ordinal = t[2] /\ new.by = t[1]
  BY TaskParts DEF Post
<1>2. t[2] \in Results /\ claim[t[2]] = t[1]
  BY DEF Results, IInv, TypeOK
<1>3. posts \subseteq Post /\ \A p \in posts : p.live => claim[p.ordinal] = p.by
  BY DEF IInv, TypeOK
<1> HIDE DEF new
<1>4. posts' = posts \cup {new}
  BY DEF new
<1>5. posts' \subseteq Post /\ \A p \in posts' :
          p.ordinal \in Results /\ (p.live => claim'[p.ordinal] = p.by)
  BY <1>1, <1>2, <1>3, <1>4, PostsAreResults
<1> QED BY <1>5, Retreats, SameAdmission, RetreatStep DEF IInv, TypeOK, InTurn

\* The runner gives its submission up.
LEMMA TimeoutKeeps ==
    ASSUME IInv, NEW t \in Tasks, SubmitTimeout(t)
    PROVE  IInv'
<1>1. /\ Goto(t, "cancel") /\ posts' = Abandoned({t})
      /\ UNCHANGED <<up, poll, claim, admission, submissions, spent>>
  BY DEF SubmitTimeout
<1> QED BY <1>1, AbandonedFacts, Retreats, SameAdmission, RetreatStep DEF IInv, TypeOK, InTurn

\* A task ends and gives its claim back, or leaves it.
LEMMA ReleaseKeeps ==
    ASSUME IInv, NEW t \in Tasks, Release(t)
    PROVE  IInv'
<1> DEFINE ended == [task EXCEPT ![t] = IdleTask]
<1>1. /\ ended \in [Tasks -> Task] /\ \A u \in Tasks : ended[u] = task[u] \/ ended[u] = IdleTask
  BY EndedFacts
<1>2. t[2] \in Ordinals
  BY TaskParts
<1>3. UNCHANGED <<up, poll, admission, submissions, spent>>
  BY DEF Release
<1>4. \/ claim' = [claim EXCEPT ![t[2]] = NoRunner] /\ task' = Stale(ended, t[2]) /\ posts' = StalePosts(t[2])
      \/ task' = ended /\ UNCHANGED <<claim, posts>>
  BY DEF Release
<1> HIDE DEF ended
<1>5. CASE claim' = [claim EXCEPT ![t[2]] = NoRunner] /\ task' = Stale(ended, t[2]) /\ posts' = StalePosts(t[2])
  BY <1>1, <1>2, <1>3, <1>5, StaleFacts
<1>6. CASE task' = ended /\ UNCHANGED <<claim, posts>>
  <2>1. IdleTask.pc = "idle" /\ ~IdleTask.live
    BY DEF IdleTask
  <2>2. \A u \in Tasks :
            /\ task'[u].pc \in Paid => task[u].pc \in Paid /\ task'[u].request = task[u].request
            /\ task'[u].pc \in MayCall => task[u].pc \in MayCall /\ task'[u].prior = task[u].prior
            /\ task'[u].pc \in {"backoff", "retry"} => task'[u].retries < MaxRetries
            /\ task'[u].pc = "accounted" => task[u].pc = "accounted"
            /\ task'[u].live => claim'[u[2]] = u[1]
    <3> TAKE u \in Tasks
    <3>1. CASE task'[u] = task[u]
      BY <1>6, <3>1 DEF IInv, TypeOK, RetriesLeft
    <3>2. CASE task'[u] = IdleTask
      BY <2>1, <3>2 DEF Paid, MayCall, UnderHeartbeat
    <3> QED BY <1>1, <1>6, <3>1, <3>2
  <2> QED BY <1>1, <1>3, <1>6, <2>2, SameAdmission, PostsAreResults, RetreatStep
          DEF IInv, TypeOK, InTurn
<1> QED BY <1>4, <1>5, <1>6

\* A runner crashes: its tasks are gone, its requests are not.
LEMMA CrashKeeps ==
    ASSUME IInv, NEW r \in Runners, Crash(r)
    PROVE  IInv'
<1>1. /\ up' = [up EXCEPT ![r] = "down"] /\ poll' = [poll EXCEPT ![r] = NoPass]
      /\ task' = [t \in Tasks |-> IF t[1] = r THEN IdleTask ELSE task[t]]
      /\ posts' = Abandoned({t \in Tasks : t[1] = r})
      /\ UNCHANGED <<claim, admission, submissions, spent>>
  BY DEF Crash
<1>2. /\ up' \in [Runners -> {"up", "draining", "down"}]
      /\ poll' \in [Runners -> [seen: BOOLEAN, view: SUBSET Ordinals]]
      /\ \A q \in Runners : poll'[q].view \subseteq submissions
  <2>1. NoPass \in [seen: BOOLEAN, view: SUBSET Ordinals] /\ NoPass.view = {}
    BY DEF NoPass
  <2> QED BY <1>1, <2>1 DEF IInv, TypeOK, InTurn
<1>3. IdleTask \in Task /\ IdleTask.pc = "idle" /\ ~IdleTask.live
  BY FleetConstants DEF Task, IdleTask
<1>4. task' \in [Tasks -> Task] /\ \A u \in Tasks : task'[u] = task[u] \/ task'[u] = IdleTask
  BY <1>1, <1>3 DEF IInv, TypeOK
<1>5. \A u \in Tasks :
          /\ task'[u].pc \in Paid => task[u].pc \in Paid /\ task'[u].request = task[u].request
          /\ task'[u].pc \in MayCall => task[u].pc \in MayCall /\ task'[u].prior = task[u].prior
          /\ task'[u].pc \in {"backoff", "retry"} => task'[u].retries < MaxRetries
          /\ task'[u].pc = "accounted" => task[u].pc = "accounted"
          /\ task'[u].live => claim'[u[2]] = u[1]
  <2> TAKE u \in Tasks
  <2>1. CASE task'[u] = task[u]
    BY <1>1, <2>1 DEF IInv, TypeOK, RetriesLeft
  <2>2. CASE task'[u] = IdleTask
    BY <1>3, <2>2 DEF Paid, MayCall, UnderHeartbeat
  <2> QED BY <1>4, <2>1, <2>2
<1> QED BY <1>1, <1>2, <1>4, <1>5, AbandonedFacts, SameAdmission, RetreatStep DEF IInv, TypeOK

\* A claim runs out.
LEMMA ExpireKeeps ==
    ASSUME IInv, NEW o \in Ordinals, Expire(o)
    PROVE  IInv'
<1>1. /\ claim' = [claim EXCEPT ![o] = NoRunner] /\ task' = Stale(task, o) /\ posts' = StalePosts(o)
      /\ UNCHANGED <<up, poll, admission, submissions, spent>>
  BY DEF Expire
<1>2. task \in [Tasks -> Task]
  BY DEF IInv, TypeOK
<1> QED BY <1>1, <1>2, StaleFacts
-----------------------------------------------------------------------------
(* The bridge's submission endpoint *)

\* The runner gets its answer, if it waits for one.
LEMMA AnswerFacts ==
    ASSUME IInv, NEW p \in posts, NEW pc, Answer(p, pc), UNCHANGED claim,
           pc \in {"complete", "cancel", "release"}
    PROVE  /\ task' \in [Tasks -> Task]
           /\ \A u \in Tasks :
                /\ task'[u].pc \in Paid => task[u].pc \in Paid /\ task'[u].request = task[u].request
                /\ task'[u].pc \in MayCall => task[u].pc \in MayCall /\ task'[u].prior = task[u].prior
                /\ task'[u].pc \in {"backoff", "retry"} => task'[u].retries < MaxRetries
                /\ task'[u].pc = "accounted" => task[u].pc = "accounted"
                /\ task'[u].live => claim'[u[2]] = u[1]
<1>1. TaskOf(p) \in Tasks
  BY TaskParts DEF IInv, TypeOK, Post, TaskOf
<1>2. CASE Goto(TaskOf(p), pc)
  BY <1>1, <1>2, Retreats
<1>3. CASE UNCHANGED task
  BY <1>3, Stays
<1> QED BY <1>2, <1>3 DEF Answer

\* The claim of a submission is renewed, or the submission refused.
LEMMA FenceKeeps ==
    ASSUME IInv, NEW p \in posts, Fence(p)
    PROVE  IInv'
<1>1. UNCHANGED <<up, poll, claim, admission, submissions, spent>>
  BY DEF Fence
<1>2. /\ posts \subseteq Post /\ p \in Post
      /\ \A q \in posts : q.ordinal \in Results /\ (q.live => claim[q.ordinal] = q.by)
  BY PostsAreResults DEF IInv, TypeOK
<1>3. CASE posts' = (posts \ {p}) \cup {[p EXCEPT !.phase = "fenced"]} /\ UNCHANGED task
  <2>1. PICK q : q = [p EXCEPT !.phase = "fenced"]
    OBVIOUS
  <2>2. q \in Post /\ q.ordinal = p.ordinal /\ q.by = p.by /\ q.live = p.live
    BY <1>2, <2>1 DEF Post
  <2>3. posts' \subseteq Post /\ \A x \in posts' :
            x.ordinal \in Results /\ (x.live => claim'[x.ordinal] = x.by)
    BY <1>1, <1>2, <1>3, <2>1, <2>2
  <2> QED BY <1>1, <1>3, <2>3, Stays, SameAdmission, RetreatStep DEF IInv, TypeOK, InTurn
<1>4. CASE posts' = posts \ {p} /\ Answer(p, "cancel")
  <2>1. posts' \subseteq Post /\ \A x \in posts' :
            x.ordinal \in Results /\ (x.live => claim'[x.ordinal] = x.by)
    BY <1>1, <1>2, <1>4
  <2> QED BY <1>1, <1>4, <2>1, AnswerFacts, SameAdmission, RetreatStep DEF IInv, TypeOK, InTurn
<1> QED BY <1>3, <1>4 DEF Fence

\* The submission is recorded, which takes its result from the way to the record, or refused.
LEMMA RecordKeeps ==
    ASSUME IInv, NEW p \in posts, Record(p)
    PROVE  IInv'
<1>1. posts' = posts \ {p} /\ UNCHANGED <<up, poll, claim, admission, spent>>
  BY DEF Record
<1>2. /\ posts \subseteq Post /\ p \in Post /\ p.ordinal \in Ordinals /\ submissions \subseteq Ordinals
      /\ \A q \in posts : q.ordinal \in Results /\ (q.live => claim[q.ordinal] = q.by)
  BY PostsAreResults DEF IInv, TypeOK, Post
<1>3. posts' \subseteq Post /\ \A x \in posts' :
          x.ordinal \in Results /\ (x.live => claim'[x.ordinal] = x.by)
  BY <1>1, <1>2
<1>4. submissions' \in {submissions, submissions \cup {p.ordinal}}
  BY DEF Record
<1>5. PICK pc \in {"complete", "cancel", "release"} : Answer(p, pc)
  BY DEF Record
<1>6. /\ task' \in [Tasks -> Task]
      /\ \A u \in Tasks :
            /\ task'[u].pc \in Paid => task[u].pc \in Paid /\ task'[u].request = task[u].request
            /\ task'[u].pc \in MayCall => task[u].pc \in MayCall /\ task'[u].prior = task[u].prior
            /\ task'[u].pc \in {"backoff", "retry"} => task'[u].retries < MaxRetries
            /\ task'[u].pc = "accounted" => task[u].pc = "accounted"
            /\ task'[u].live => claim'[u[2]] = u[1]
  BY <1>1, <1>5, AnswerFacts
<1>7. Charged
  BY <1>1, SameAdmission
<1>8. TypeOK'
  <2>1. Ordinals' = Ordinals /\ Tasks' = Tasks /\ Task' = Task /\ Post' = Post /\ Admission' = Admission
    BY DEF Ordinals, Tasks, Task, Post, Admission
  <2>2. submissions' \subseteq Ordinals
    BY <1>2, <1>4
  <2> QED BY <1>1, <1>3, <1>6, <2>1, <2>2 DEF IInv, TypeOK
<1>9. RetriesLeft'
  BY <1>6 DEF RetriesLeft
<1>10. Covered'
  BY <1>1, <1>6, <1>7, CoveredKept DEF IInv
<1>11. Accounted'
  <2>1. Results' \subseteq Results
    <3>1. submissions' \subseteq Results
      BY <1>2, <1>4 DEF Results
    <3>2. {q.ordinal : q \in posts'} \subseteq Results
      BY <1>3
    <3>3. {t[2] : t \in {u \in Tasks : task'[u].pc = "accounted"}} \subseteq Results
      BY <1>6 DEF Results, At
    <3> QED BY <3>1, <3>2, <3>3 DEF Results, At
  <2> QED BY <1>7, <2>1, AccountedKept DEF IInv
<1>12. InTurn'
  <2>1. submissions \subseteq submissions'
    BY <1>4
  <2> QED BY <1>1, <1>6, <2>1, InTurnKept DEF IInv, InTurn
<1> QED BY <1>8, <1>9, <1>10, <1>11, <1>12, ByParts

-----------------------------------------------------------------------------
(* Theorems *)

\* The admission stays as it is but for its status.
LEMMA StatusCharges ==
    ASSUME IInv, Active, NEW x \in {"exhausted", "completed", "cancelled"},
           admission' = [admission EXCEPT !.status = x]
    PROVE  Charged
<1>1. admission \in Admission /\ admission # NoAdmission /\ admission.used <= TokenBudget
  BY DEF IInv, TypeOK, Active, Covered
<1>2. /\ admission' \in Admission /\ admission'.used = admission.used
      /\ admission.reports <= admission'.reports
  BY <1>1 DEF Admission
<1> QED BY <1>1, <1>2, FleetConstants DEF Charged, Admission

\* A charge that was accepted.
LEMMA ChargeCharges ==
    ASSUME IInv, Active, NEW t \in Tasks, Charge(task[t].request)
    PROVE  Charged
<1>1. admission \in Admission /\ admission # NoAdmission /\ task[t].request \in Nat
  BY FleetConstants DEF IInv, TypeOK, Active, Task
<1> QED BY <1>1, FleetConstants DEF Charge, Charged, Admission

\* Every step of a task keeps the invariant.
LEMMA TaskStepKeeps ==
    ASSUME IInv, NEW t \in Tasks, TaskStep(t)
    PROVE  IInv'
<1>1. ASSUME UNCHANGED <<up, poll, claim, bridge, spent>>
      PROVE  UNCHANGED <<posts, admission, submissions>> /\ Charged
  BY <1>1, SameAdmission DEF bridge
<1>2. CASE ClaimGranted(t) \/ ClaimFailed(t)
  BY <1>2, ClaimGrantedKeeps, ClaimFailedKeeps
<1>3. CASE FileLeaseFailed(t) \/ ReserveFailed(t) \/ Abort(t) \/ ReportFailed(t) \/ FinalizeFailed(t)
  <2>1. /\ UNCHANGED <<up, poll, claim, bridge, spent>>
        /\ \E pc \in {"cancel", "release"} : Goto(t, pc)
    BY <1>3 DEF FileLeaseFailed, ReserveFailed, Abort, ReportFailed, FinalizeFailed
  <2> QED BY <1>1, <2>1, GotoStep
<1>4. CASE ReserveDelivered(t)
  <2>1. Reserving(t) /\ Owns(t[1]) /\ Active /\ UNCHANGED <<up, poll, claim, posts, submissions, spent>>
    BY <1>4 DEF ReserveDelivered, Owns
  <2>2. CASE Charge(task[t].request) /\ task' = [task EXCEPT ![t].pc = "guard",
              ![t].retries = IF At(t, "retry") THEN task[t].retries + 1 ELSE task[t].retries]
    BY <2>1, <2>2, ReservedKeeps
  <2>3. CASE Charge(task[t].request) /\ Goto(t, "cancel")
    BY <2>1, <2>3, ChargeCharges, GotoStep
  <2>4. CASE Exhaust /\ Goto(t, "cancel")
    BY <2>1, <2>4, StatusCharges, GotoStep DEF Exhaust
  <2> QED BY <1>4, <2>2, <2>3, <2>4 DEF ReserveDelivered
<1>5. CASE GuardAdmission(t)
  <2>1. /\ UNCHANGED <<up, poll, claim, bridge, spent>> /\ task[t].pc = "guard"
        /\ Goto(t, "start") \/ Goto(t, "cancel")
    BY <1>5 DEF GuardAdmission, At
  <2> QED BY <1>1, <2>1, GotoStep
<1>6. CASE StartCall(t)
  <2>1. CASE Goto(t, "call") /\ spent' = spent + task[t].request
    BY <1>6, <2>1, CallKeeps DEF StartCall
  <2>2. CASE Goto(t, "cancel") /\ UNCHANGED spent
    <3>1. UNCHANGED <<up, poll, claim, bridge, spent>>
      BY <1>6, <2>2 DEF StartCall
    <3> QED BY <1>1, <2>2, <3>1, GotoStep
  <2> QED BY <1>6, <2>1, <2>2 DEF StartCall
<1>7. CASE CallEnds(t)
  <2>1. /\ UNCHANGED <<up, poll, claim, bridge, spent>> /\ task[t].pc \in MayCall
        /\ Goto(t, "finished") \/ (task[t].retries < MaxRetries /\ Goto(t, "backoff"))
    BY <1>7 DEF CallEnds, At, MayRetry, MayCall, UnderHeartbeat
  <2> QED BY <1>1, <2>1, GotoStep
<1>8. CASE Backoff(t)
  <2>1. /\ UNCHANGED <<up, poll, claim, bridge, spent>> /\ task[t].pc = "backoff" /\ Goto(t, "retry")
    BY <1>8 DEF Backoff, At
  <2>2. task[t].retries < MaxRetries /\ task[t].pc \in MayCall
    BY <2>1 DEF IInv, RetriesLeft, MayCall, UnderHeartbeat
  <2> QED BY <1>1, <2>1, <2>2, GotoStep
<1>9. CASE ReportDelivered(t)
  <2>1. /\ At(t, "finished") /\ Owns(t[1]) /\ Active
        /\ UNCHANGED <<up, poll, claim, posts, submissions, spent>>
    BY <1>9 DEF ReportDelivered, Owns
  <2>2. ASSUME NEW over \in Overages, admission.used + over <= TokenBudget,
               admission' = [admission EXCEPT !.used = @ + over, !.reports = @ + 1],
               Goto(t, "accounted") \/ Goto(t, "release")
        PROVE  IInv'
    <3>1. CASE Goto(t, "accounted")
      BY <2>1, <2>2, <3>1, ReportedKeeps
    <3>2. CASE Goto(t, "release")
      BY <2>1, <2>2, <3>2, ReportCharges, GotoStep
    <3> QED BY <2>2, <3>1, <3>2
  <2>4. CASE Exhaust /\ Goto(t, "release")
    BY <2>1, <2>4, StatusCharges, GotoStep DEF Exhaust
  <2> QED BY <1>9, <2>2, <2>4 DEF ReportDelivered
<1>10. CASE RenewAndSubmit(t)
  <2>1. At(t, "accounted") /\ UNCHANGED <<up, poll, claim, admission, submissions, spent>>
    BY <1>10 DEF RenewAndSubmit
  <2>2. CASE UNCHANGED posts /\ Goto(t, "cancel")
    BY <2>1, <2>2, SameAdmission, GotoStep
  <2> QED BY <1>10, <2>1, <2>2, SentKeeps DEF RenewAndSubmit
<1>11. CASE SubmitTimeout(t) \/ Release(t)
  BY <1>11, TimeoutKeeps, ReleaseKeeps
<1>12. CASE FinalizeDelivered(t)
  <2>1. /\ Active /\ UNCHANGED <<up, poll, claim, posts, submissions, spent>> /\ Goto(t, "release")
        /\ \E x \in {"completed", "cancelled"} : admission' = [admission EXCEPT !.status = x]
    BY <1>12 DEF FinalizeDelivered, Owns
  <2> QED BY <2>1, StatusCharges, GotoStep
<1> QED BY <1>2, <1>3, <1>4, <1>5, <1>6, <1>7, <1>8, <1>9, <1>10, <1>11, <1>12 DEF TaskStep

\* The invariant holds of a fleet that has done nothing.
LEMMA InitIInv == Init => IInv
<1> SUFFICES ASSUME Init PROVE IInv
  OBVIOUS
<1>1. IdleTask \in Task /\ IdleTask.pc = "idle" /\ ~IdleTask.live
  BY FleetConstants DEF IdleTask, Task
<1>2. \A t \in Tasks : task[t] = IdleTask
  BY DEF Init
<1>3. TypeOK
  BY <1>1, <1>2 DEF Init, TypeOK, NoPass
<1>4. RetriesLeft
  BY <1>1, <1>2 DEF RetriesLeft
<1>5. Covered
  <2>1. Reserved = {}
    BY <1>1, <1>2 DEF Reserved, Paid
  <2> QED BY <2>1 DEF Covered, Init
<1>6. Accounted
  <2>1. Results = {}
    BY <1>1, <1>2 DEF Results, At, Init
  <2>2. Reports = 0
    BY DEF Reports, Init
  <2> QED BY <2>1, <2>2, FS_EmptySet DEF Accounted
<1>7. InTurn
  BY <1>1, <1>2 DEF InTurn, Init, NoPass, MayCall, UnderHeartbeat
<1> QED BY <1>3, <1>4, <1>5, <1>6, <1>7 DEF IInv

\* Every step keeps the invariant.
LEMMA NextIInv == IInv /\ [Next]_vars => IInv'
<1> SUFFICES ASSUME IInv, [Next]_vars PROVE IInv'
  OBVIOUS
<1>1. CASE UNCHANGED vars
  <2>1. UNCHANGED <<up, poll, task, claim, posts, admission, submissions, spent>>
    BY <1>1 DEF vars
  <2> QED BY <2>1, FleetStep DEF IInv, TypeOK, InTurn
<1>2. ASSUME NEW r \in Runners,
             \/ PollList(r) \/ PollSpawn(r) \/ PollSkip(r)
             \/ Crash(r) \/ Restart(r) \/ Shutdown(r) \/ Drained(r)
      PROVE  IInv'
  BY <1>2, RunnerKeeps, PollSpawnKeeps, PollSkipKeeps, CrashKeeps
<1>3. ASSUME NEW t \in Tasks, TaskStep(t) PROVE IInv'
  BY <1>3, TaskStepKeeps
<1>4. ASSUME NEW p \in posts, Fence(p) \/ Record(p) PROVE IInv'
  BY <1>4, FenceKeeps, RecordKeeps
<1>5. ASSUME NEW o \in Ordinals, Expire(o) PROVE IInv'
  BY <1>5, ExpireKeeps
<1> QED BY <1>1, <1>2, <1>3, <1>4, <1>5 DEF Next

\* The inductive invariant holds throughout.
LEMMA Invariance == Spec => []IInv
BY InitIInv, NextIInv, PTL DEF Spec

\* Runners, tasks, claims, requests and the admission stay well typed, and whoever carries
\* a fencing token that is still good is the holder the control plane has.
THEOREM TypeCorrect == Spec => []TypeOK
<1>1. IInv => TypeOK
  BY DEF IInv
<1> QED BY <1>1, Invariance, PTL

\* What the vendor may have produced is covered by what the admission was charged, and
\* that by the budget, for every number of runners and retries, through lost answers,
\* aborted attempts and crashes.
THEOREM SpendingIsCovered == Spec => []SpendingCovered
<1>1. IInv => SpendingCovered
  <2> SUFFICES ASSUME IInv, admission # NoAdmission
               PROVE  spent <= admission.used /\ admission.used <= TokenBudget
    BY DEF IInv, Covered, SpendingCovered
  <2>1. /\ spent \in Nat /\ admission.used \in Nat /\ Cardinality(Reserved) \in Nat
        /\ spent + Cardinality(Reserved) <= admission.used /\ admission.used <= TokenBudget
    BY ReservedFinite DEF IInv, TypeOK, Admission, Covered
  <2> QED BY <2>1
<1> QED BY <1>1, Invariance, PTL

\* No result is recorded or on its way without an accepted report of its usage, although
\* reports, submissions and their answers may be lost, repeated or late.
THEOREM AccountingComesFirst == Spec => []AccountedBeforeAccepted
<1>1. IInv => AccountedBeforeAccepted
  <2> SUFFICES ASSUME IInv PROVE AccountedBeforeAccepted
    OBVIOUS
  <2> DEFINE sent == submissions \cup {p.ordinal : p \in posts}
  <2>1. sent \subseteq Results
    BY DEF Results
  <2>2. IsFiniteSet(Results) /\ Cardinality(Results) \in Nat /\ Cardinality(Results) <= Reports
    BY ResultsFinite DEF IInv, Accounted
  <2>3. Cardinality(sent) \in Nat /\ Cardinality(sent) <= Cardinality(Results)
    BY <2>1, <2>2, FS_Subset, FS_CardinalityType
  <2>4. Reports \in Nat
    BY DEF IInv, TypeOK, Reports, Admission
  <2>5. Cardinality(sent) <= Reports
    BY <2>2, <2>3, <2>4
  <2> QED BY <2>5 DEF AccountedBeforeAccepted, Reports
<1> QED BY <1>1, Invariance, PTL

\* A sequential worker, and a reviewer, calls the vendor only when everything before it in
\* the plan is recorded, and with a prompt made of all of it (as far as it fits), although
\* it was chosen, and its prompt made, by the view of an old pass.
THEOREM CallsAreInTurn == Spec => []CallsInTurn
<1>1. IInv => CallsInTurn
  BY DEF IInv, InTurn, Informed, CallsInTurn, At, MayCall, UnderHeartbeat, Ordered, Before
<1> QED BY <1>1, Invariance, PTL
=============================================================================
