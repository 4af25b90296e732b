------------------------- MODULE OrchestrationProofs -------------------------
(***************************************************************************)
(* Proofs about what a workflow rests on: its turns and submissions         *)
(* (Workflow), the admission that pays for it (PolicyAdmission), the blind  *)
(* competition (BlindCompetition) and the decision behind both              *)
(* (PolicyEngine).  They share no state: each part below proves its own     *)
(* specification, for every set of agents, plans, budgets and requests in   *)
(* flight.                                                                  *)
(***************************************************************************)
EXTENDS Workflow, PolicyAdmission, BlindCompetition, PolicyEngine,
        FiniteSetTheorems, SequenceTheorems, WellFoundedInduction, TLAPS

(***************************************************************************)
(* Workflow: the order of submissions survives the gap between validating   *)
(* and recording.                                                           *)
(*                                                                         *)
(* What a handler validated against a stale snapshot still holds when it    *)
(* records, because recorded submissions are never taken back: that is the  *)
(* part StillInTurn of the inductive invariant.  A second invariant, Told,  *)
(* carries the shape of the plan (one slot per agent, a reviewer who is no  *)
(* worker, ordinals without gaps) and what a thread may still announce.     *)
(***************************************************************************)

PlanShape ==
    /\ DOMAIN assignments \subseteq Nat
    /\ \A i \in DOMAIN assignments : assignments[i].ordinal = i - 1
    /\ mode = "sequential" => \A i \in DOMAIN assignments : assignments[i].role = "worker"

\* Nothing is recorded or in flight before the plan is listed.
QuietBeforePlan == phase \in {"none", "channel"} => done = {} /\ req = [t \in Threads |-> Idle]

\* A parked submission belongs to an assignment whose turn it was, and is.
InTurn(k) ==
    /\ k \in DOMAIN assignments
    /\ mode = "sequential" =>
        \A i \in DOMAIN assignments : i < k => assignments[i].ordinal \in done
    /\ mode = "consensus" /\ assignments[k].role = "reviewer" => Pending(done) = {}

StillInTurn ==
    \A t \in Threads : req[t].step = "validated" =>
        \E k \in DOMAIN assignments : assignments[k].ordinal = req[t].ordinal /\ InTurn(k)

\* The inductive invariant (its first part: req is a function on Threads).
IInv ==
    /\ req \in [Threads -> {req[t] : t \in Threads}]
    /\ PlanShape /\ QuietBeforePlan /\ StillInTurn
    /\ SequentialOrder /\ ReviewerLast

-----------------------------------------------------------------------------
(* Steps that leave the plan alone *)

\* The plan's own part of the invariant only reads the plan.
LEMMA SamePlan ==
    ASSUME PlanShape, UNCHANGED <<mode, assignments>>
    PROVE  PlanShape' /\ Workers' = Workers /\ Reviewers' = Reviewers
BY DEF PlanShape, Workers, Reviewers

\* Recording more never takes a turn away.
LEMMA TurnsAreStable ==
    ASSUME UNCHANGED <<mode, assignments>>, done \subseteq done', NEW k, InTurn(k)
    PROVE  InTurn(k)'
BY DEF InTurn, Pending, Workers

\* Validation establishes the turn.
LEMMA ValidatedIsInTurn ==
    ASSUME PlanShape, NEW i \in DOMAIN assignments, validate_submission_turn(i, done)
    PROVE  InTurn(i)
<1>1. ASSUME mode = "sequential", NEW j \in DOMAIN assignments, j < i
      PROVE  assignments[j].ordinal \in done
  <2>1. \A k \in Pending(done) : i <= k
    BY <1>1 DEF validate_submission_turn
  <2>2. j \in Workers
    BY <1>1 DEF PlanShape, Workers
  <2>3. ~(i <= j)
    BY <1>1 DEF PlanShape
  <2> QED BY <2>1, <2>2, <2>3 DEF Pending
<1>2. ASSUME mode = "consensus", assignments[i].role = "reviewer"
      PROVE  Pending(done) = {}
  BY <1>2 DEF validate_submission_turn
<1> QED BY <1>1, <1>2 DEF InTurn

\* Recording an assignment whose turn it is keeps both orders.
LEMMA RecordKeepsOrder ==
    ASSUME PlanShape, SequentialOrder, ReviewerLast, UNCHANGED <<mode, assignments>>,
           NEW k \in DOMAIN assignments, InTurn(k),
           done' = done \cup {assignments[k].ordinal}
    PROVE  SequentialOrder' /\ ReviewerLast'
<1>1. SequentialOrder'
  <2> SUFFICES ASSUME mode = "sequential",
                      NEW i \in DOMAIN assignments, NEW j \in DOMAIN assignments,
                      i < j, assignments[j].ordinal \in done'
               PROVE  assignments[i].ordinal \in done'
    BY DEF SequentialOrder
  <2>1. CASE assignments[j].ordinal \in done
    BY <2>1 DEF SequentialOrder
  <2>2. CASE assignments[j].ordinal = assignments[k].ordinal
    <3>1. j = k
      BY <2>2 DEF PlanShape
    <3> QED BY <3>1 DEF InTurn
  <2> QED BY <2>1, <2>2
<1>2. ReviewerLast'
  <2> SUFFICES ASSUME mode = "consensus", NEW r \in Reviewers,
                      assignments[r].ordinal \in done'
               PROVE  Pending(done)' = {}
    BY SamePlan DEF ReviewerLast
  <2>1. Pending(done) = {} => Pending(done)' = {}
    BY DEF Pending, Workers
  <2>2. CASE assignments[r].ordinal \in done
    BY <2>1, <2>2 DEF ReviewerLast
  <2>3. CASE assignments[r].ordinal = assignments[k].ordinal
    <3>1. r = k
      BY <2>3 DEF PlanShape, Reviewers
    <3> QED BY <2>1, <3>1 DEF InTurn, Reviewers
  <2> QED BY <2>2, <2>3
<1> QED BY <1>1, <1>2

-----------------------------------------------------------------------------
(* The actions *)

\* What build_assignments numbers and whom it makes a reviewer.
LEMMA BuildShape ==
    ASSUME NEW m, NEW candidates, NEW wc, NEW reviewer,
           NEW i \in DOMAIN build_assignments(m, candidates, wc, reviewer)
    PROVE  LET built == build_assignments(m, candidates, wc, reviewer)
           IN  /\ i \in Nat /\ built[i].ordinal = i - 1
               /\ m = "sequential" => built[i].role = "worker"
<1> DEFINE k == WorkerCount(m, Len(candidates), wc, reviewer)
           size == IF m = "consensus" THEN k + 1 ELSE k
<1>1. i \in 1 .. size
  BY DEF build_assignments
<1> HIDE DEF k
<1>2. i \in Nat /\ (m = "sequential" => i <= k)
  BY <1>1
<1> QED BY <1>1, <1>2 DEF build_assignments, k

\* create_workflow: the plan is chosen before anything can be submitted.
LEMMA CreateStep ==
    ASSUME IInv, CreateChannel
    PROVE  IInv'
<1>1. done = {} /\ req = [t \in Threads |-> Idle]
  BY DEF IInv, QuietBeforePlan, CreateChannel
<1>2. PICK m \in Modes, requested \in Requested, wc \in WorkerCounts,
           reviewer \in Registered \cup {NoAgent} :
        /\ mode' = m
        /\ assignments' = build_assignments(m, Candidates(requested, reviewer), wc, reviewer)
  BY Zenon DEF CreateChannel
<1>3. PlanShape'
  <2> DEFINE candidates == Candidates(requested, reviewer)
  <2>1. mode' = m /\ assignments' = build_assignments(m, candidates, wc, reviewer)
    BY <1>2
  <2> HIDE DEF candidates
  <2> QED BY <2>1, BuildShape DEF PlanShape
<1>4. done' = {} /\ UNCHANGED req
  BY <1>1 DEF CreateChannel, done
<1>5. StillInTurn'
  BY <1>1, <1>4 DEF StillInTurn, Idle
<1>6. SequentialOrder' /\ ReviewerLast' /\ QuietBeforePlan'
  BY <1>1, <1>4 DEF SequentialOrder, ReviewerLast, QuietBeforePlan
<1>7. req' \in [Threads -> {req'[t] : t \in Threads}]
  BY <1>1, <1>4
<1> QED BY <1>3, <1>5, <1>6, <1>7 DEF IInv

\* Storing and announcing the plan leave plan and submissions alone.
LEMMA PhaseStep ==
    ASSUME IInv, InsertPlan \/ AnnounceCreated \/ UNCHANGED vars
    PROVE  IInv'
<1>1. UNCHANGED <<mode, assignments, submissions, req>>
  BY DEF InsertPlan, AnnounceCreated, vars
<1>2. QuietBeforePlan'
  BY <1>1 DEF IInv, QuietBeforePlan, InsertPlan, AnnounceCreated, vars, done
<1> QED
  BY <1>1, <1>2 DEF IInv, PlanShape, StillInTurn, InTurn, SequentialOrder, ReviewerLast,
                    Pending, Workers, Reviewers, done

\* What passes validate_submission_turn is in turn when it is parked.
LEMMA ValidateStep ==
    ASSUME IInv, NEW t \in Threads, SubmitValidate(t)
    PROVE  IInv'
<1>1. PICK i \in DOMAIN assignments, c \in Contents :
        /\ validate_submission_turn(i, done)
        /\ req' = [req EXCEPT ![t] =
                [step |-> "validated", ordinal |-> assignments[i].ordinal,
                 agent_key |-> assignments[i].agent_key, content |-> c]]
  BY DEF SubmitValidate
<1>2. UNCHANGED <<phase, mode, assignments, submissions>> /\ Listed
  BY DEF SubmitValidate
<1>3. done' = done
  BY <1>2 DEF done
<1>4. InTurn(i)'
  BY <1>1, <1>2, <1>3, ValidatedIsInTurn, TurnsAreStable DEF IInv
<1>5. StillInTurn'
  <2> SUFFICES ASSUME NEW s \in Threads, req'[s].step = "validated"
               PROVE  \E k \in DOMAIN assignments' :
                        assignments'[k].ordinal = req'[s].ordinal /\ InTurn(k)'
    BY DEF StillInTurn
  <2>1. CASE s = t
    BY <1>1, <1>2, <1>4, <2>1 DEF IInv
  <2>2. CASE s # t
    <3>1. req'[s] = req[s]
      BY <1>1, <2>2 DEF IInv
    <3> QED BY <1>2, <1>3, <3>1, TurnsAreStable DEF IInv, StillInTurn
  <2> QED BY <2>1, <2>2
<1>6. PlanShape' /\ SequentialOrder' /\ ReviewerLast'
  BY <1>2, <1>3, SamePlan DEF IInv, SequentialOrder, ReviewerLast, Pending, Workers
<1>7. QuietBeforePlan'
  BY <1>2 DEF QuietBeforePlan, Listed
<1>8. req' \in [Threads -> {req'[s] : s \in Threads}]
  BY <1>1 DEF IInv
<1> QED BY <1>5, <1>6, <1>7, <1>8 DEF IInv

\* A recorded submission was in turn, and keeps every parked one in turn.
LEMMA RecordStep ==
    ASSUME IInv, NEW t \in Threads, SubmitRecord(t)
    PROVE  IInv'
<1>1. UNCHANGED <<phase, mode, assignments>> /\ req[t].step = "validated"
  BY DEF SubmitRecord
<1>2. phase' \notin {"none", "channel"}
  <2>1. req # [s \in Threads |-> Idle]
    BY <1>1 DEF Idle
  <2> QED BY <1>1, <2>1 DEF IInv, QuietBeforePlan
<1>3. PICK k \in DOMAIN assignments :
        assignments[k].ordinal = req[t].ordinal /\ InTurn(k)
  BY <1>1 DEF IInv, StillInTurn
<1>4. \/ done' = done \cup {assignments[k].ordinal}
      \/ done' = done
  BY <1>3 DEF SubmitRecord, done
<1>5. /\ \A s \in Threads : s # t => req'[s] = req[s]
      /\ req'[t].step # "validated"
      /\ req' \in [Threads -> {req'[s] : s \in Threads}]
  <2>1. CASE req' = [req EXCEPT ![t].step = "recorded"]
    <3>1. req' = [req EXCEPT ![t] = [req[t] EXCEPT !.step = "recorded"]]
      BY <2>1
    <3>2. [req[t] EXCEPT !.step = "recorded"].step = "recorded"
      BY <1>1
    <3> QED BY <3>1, <3>2 DEF IInv
  <2>2. CASE req' = [req EXCEPT ![t] = Idle]
    BY <2>2 DEF IInv, Idle
  <2> QED BY <2>1, <2>2 DEF SubmitRecord
<1>6. StillInTurn'
  BY <1>1, <1>4, <1>5, TurnsAreStable DEF IInv, StillInTurn
<1>7. SequentialOrder' /\ ReviewerLast'
  <2>1. CASE done' = done \cup {assignments[k].ordinal}
    BY <1>1, <1>3, <2>1, RecordKeepsOrder DEF IInv
  <2>2. CASE done' = done
    BY <1>1, <2>2, SamePlan DEF IInv, SequentialOrder, ReviewerLast, Pending, Workers
  <2> QED BY <1>4, <2>1, <2>2
<1>8. PlanShape'
  BY <1>1, SamePlan DEF IInv
<1> QED BY <1>2, <1>5, <1>6, <1>7, <1>8 DEF IInv, QuietBeforePlan

\* The announcement frees its thread and changes nothing else.
LEMMA AnnounceStep ==
    ASSUME IInv, NEW t \in Threads, SubmitAnnounce(t)
    PROVE  IInv'
<1>1. /\ UNCHANGED <<phase, mode, assignments, submissions>>
      /\ req' = [req EXCEPT ![t] = Idle] /\ req[t].step = "recorded"
  BY DEF SubmitAnnounce
<1>2. done' = done
  BY <1>1 DEF done
<1>3. StillInTurn'
  BY <1>1, <1>2, TurnsAreStable DEF IInv, StillInTurn, Idle
<1>4. PlanShape' /\ SequentialOrder' /\ ReviewerLast'
  BY <1>1, <1>2, SamePlan DEF IInv, SequentialOrder, ReviewerLast, Pending, Workers
<1>5. QuietBeforePlan'
  <2>1. req # [s \in Threads |-> Idle]
    BY <1>1 DEF Idle
  <2> QED BY <1>1, <2>1 DEF IInv, QuietBeforePlan
<1>6. req' \in [Threads -> {req'[s] : s \in Threads}]
  BY <1>1 DEF IInv
<1> QED BY <1>3, <1>4, <1>5, <1>6 DEF IInv

\* Every step keeps the invariant.
LEMMA InvStep ==
    ASSUME IInv, [Next]_vars
    PROVE  IInv'
BY CreateStep, PhaseStep, ValidateStep, RecordStep, AnnounceStep DEF Next, Submit

\* The invariant holds before a plan exists.
LEMMA InvInit == Init => IInv
BY DEF Init, IInv, PlanShape, QuietBeforePlan, StillInTurn, SequentialOrder, ReviewerLast,
       Idle, done

\* Sequential workers are recorded strictly in plan order.
THEOREM SequentialOrderHolds == Spec => []SequentialOrder
<1>1. IInv => SequentialOrder
  BY DEF IInv
<1> QED BY <1>1, InvInit, InvStep, PTL DEF Spec

\* A consensus review is recorded only on top of every worker's submission.
THEOREM ReviewerLastHolds == Spec => []ReviewerLast
<1>1. IInv => ReviewerLast
  BY DEF IInv
<1> QED BY <1>1, InvInit, InvStep, PTL DEF Spec

\* A recorded submission is never replaced or removed.
THEOREM SubmissionsImmutableHolds == Spec => SubmissionsImmutable
<1>1. [Next]_vars => [\A o \in done : o \in done' /\ submissions'[o] = submissions[o]]_vars
  <2> SUFFICES ASSUME Next, NEW o \in done
               PROVE  o \in done' /\ submissions'[o] = submissions[o]
    OBVIOUS
  <2>1. CASE UNCHANGED submissions
    BY <2>1 DEF done
  <2>2. ASSUME NEW t \in Threads, SubmitRecord(t)
        PROVE  o \in done' /\ submissions'[o] = submissions[o]
    BY <2>1, <2>2 DEF SubmitRecord, Recordable, done
  <2> QED
    BY <2>1, <2>2 DEF Next, CreateChannel, InsertPlan, AnnounceCreated, Submit,
                      SubmitValidate, SubmitAnnounce
<1> QED BY <1>1, PTL DEF Spec, SubmissionsImmutable

-----------------------------------------------------------------------------
(* Numbers and sequences *)

\* The least-number principle, for a set of naturals.
LEMMA LeastNumber ==
    ASSUME NEW T, T \subseteq Nat, T # {}
    PROVE  \E x \in T : \A y \in T : x <= y
<1> DEFINE R == OpToRel(<, Nat)
<1>1. \A ss \in Nat \X Nat : ss \in R <=> ss[1] < ss[2]
  BY DEF OpToRel
<1>2. IsWellFoundedOn(R, Nat)
  BY NatLessThanWellFounded
<1> HIDE DEF R
<1>3. PICK x \in T : \A y \in T : <<y, x>> \notin R
  BY <1>2, WFMin
<1>4. ASSUME NEW y \in T PROVE x <= y
  <2>1. x \in Nat /\ y \in Nat /\ <<y, x>> \in Nat \X Nat
    BY <1>3
  <2>2. ~(y < x)
    BY <1>1, <1>3, <2>1
  <2> QED BY <2>1, <2>2
<1> QED BY <1>4

\* The elements of T up to n.
UpTo(T, n) == {j \in T : j <= n}

\* A finite set of places has a k-th place for every k up to its size, and of
\* two places the later one has more of them up to it.
LEMMA Ranks ==
    ASSUME NEW N \in Nat, NEW T, T \subseteq 1 .. N
    PROVE  /\ IsFiniteSet(T) /\ Cardinality(T) \in Nat
           /\ \A k \in 1 .. Cardinality(T) : \E i \in T : Cardinality(UpTo(T, i)) = k
           /\ \A i, j \in T : Cardinality(UpTo(T, i)) < Cardinality(UpTo(T, j)) => i < j
<1>0. \A j \in T : j \in Nat /\ 1 <= j /\ j <= N
  OBVIOUS
<1>1. IsFiniteSet(1 .. N)
  BY FS_Interval
<1>2. IsFiniteSet(T)
  BY <1>1, FS_Subset
<1>3. \A n : UpTo(T, n) \subseteq T /\ IsFiniteSet(UpTo(T, n)) /\ Cardinality(UpTo(T, n)) \in Nat
  BY <1>2, FS_Subset, FS_CardinalityType DEF UpTo
<1>4. ASSUME NEW k \in 1 .. Cardinality(T)
      PROVE  \E i \in T : Cardinality(UpTo(T, i)) = k
  <2> DEFINE Z == {n \in 0 .. N : Cardinality(UpTo(T, n)) >= k}
  <2>0. Cardinality(T) \in Nat /\ k \in Nat
    BY <1>2, FS_CardinalityType
  <2>1. UpTo(T, N) = T
    BY <1>0 DEF UpTo
  <2>2. N \in Z
    BY <2>0, <2>1
  <2>3. PICK x \in Z : \A y \in Z : x <= y
    <3>1. Z \subseteq Nat /\ Z # {}
      BY <2>2
    <3> HIDE DEF Z
    <3> QED BY <3>1, LeastNumber
  <2>4. UpTo(T, 0) = {}
    <3>1. \A j \in T : ~(j <= 0)
      BY <1>0
    <3> QED BY <3>1 DEF UpTo
  <2>5. x # 0 /\ x \in 1 .. N
    BY <2>0, <2>3, <2>4, FS_EmptySet
  <2>6. Cardinality(UpTo(T, x - 1)) < k
    <3>1. x - 1 \in 0 .. N /\ x - 1 \notin Z
      BY <2>3, <2>5
    <3> QED BY <1>3, <2>0, <3>1
  <2>7. x \in T
    <3>1. SUFFICES ASSUME x \notin T PROVE FALSE
      OBVIOUS
    <3>2. UpTo(T, x) = UpTo(T, x - 1)
      <4>1. \A j \in T : j <= x <=> j <= x - 1
        BY <1>0, <2>5, <3>1
      <4> QED BY <4>1 DEF UpTo
    <3> QED BY <1>3, <2>0, <2>3, <2>6, <3>2
  <2>8. Cardinality(UpTo(T, x)) = Cardinality(UpTo(T, x - 1)) + 1
    <3>1. UpTo(T, x) = UpTo(T, x - 1) \cup {x} /\ x \notin UpTo(T, x - 1)
      <4>1. (\A j \in T : j <= x <=> j <= x - 1 \/ j = x) /\ ~(x <= x - 1)
        BY <1>0, <2>5
      <4> QED BY <2>7, <4>1 DEF UpTo
    <3> QED BY <1>3, <3>1, FS_AddElement
  <2>9. Cardinality(UpTo(T, x)) = k
    BY <1>3, <2>0, <2>3, <2>6, <2>8
  <2> QED BY <2>7, <2>9
<1>5. ASSUME NEW i \in T, NEW j \in T, Cardinality(UpTo(T, i)) < Cardinality(UpTo(T, j))
      PROVE  i < j
  <2>1. SUFFICES ASSUME j <= i PROVE FALSE
    BY <1>0
  <2>2. UpTo(T, j) \subseteq UpTo(T, i)
    <3>1. \A k \in T : k <= j => k <= i
      BY <1>0, <2>1
    <3> QED BY <3>1 DEF UpTo
  <2>3. Cardinality(UpTo(T, j)) <= Cardinality(UpTo(T, i))
    BY <1>3, <2>2, FS_Subset
  <2> QED BY <1>3, <1>5, <2>3
<1> QED BY <1>2, <1>4, <1>5, FS_CardinalityType

\* No two places of s have the same element.
Distinct(s) == \A i, j \in DOMAIN s : s[i] = s[j] => i = j

\* Elements taken at places where they differ are in order and differ.
LEMMA PlacesDistinct ==
    ASSUME NEW S, NEW s \in Seq(S), NEW I, I \subseteq DOMAIN s,
           \A i, j \in I : s[i] = s[j] => i = j
    PROVE  /\ AtPlaces(s, I) \in Seq(S) /\ Distinct(AtPlaces(s, I))
           /\ \A k \in DOMAIN AtPlaces(s, I) : \E i \in I : AtPlaces(s, I)[k] = s[i]
<1> DEFINE n == Cardinality(I)
           place(k) == CHOOSE i \in I : Cardinality(UpTo(I, i)) = k
<1>1. DOMAIN s = 1 .. Len(s) /\ Len(s) \in Nat
  OBVIOUS
<1>2. n \in Nat /\ \A k \in 1 .. n : \E i \in I : Cardinality(UpTo(I, i)) = k
  BY <1>1, Ranks
<1>3. \A k \in 1 .. n : place(k) \in I /\ Cardinality(UpTo(I, place(k))) = k
  BY <1>2
<1>4. AtPlaces(s, I) = [k \in 1 .. n |-> s[place(k)]]
  BY DEF AtPlaces, UpTo
<1> HIDE DEF place, n
<1>5. \A k, l \in 1 .. n : place(k) = place(l) => k = l
  BY <1>3
<1>6. \A k \in 1 .. n : s[place(k)] \in S
  BY <1>1, <1>3
<1>7. AtPlaces(s, I) \in Seq(S)
  BY <1>2, <1>4, <1>6
<1>8. DOMAIN AtPlaces(s, I) = 1 .. n /\ \A k \in 1 .. n : AtPlaces(s, I)[k] = s[place(k)]
  BY <1>4
<1>9. Distinct(AtPlaces(s, I))
  BY <1>3, <1>5, <1>8 DEF Distinct
<1> QED BY <1>3, <1>7, <1>8, <1>9

\* Whatever a creator asks for, the candidates are registered agents, each once.
LEMMA CandidatesDistinct ==
    ASSUME NEW requested \in Requested, NEW reviewer
    PROVE  /\ Candidates(requested, reviewer) \in Seq(Registered)
           /\ Distinct(Candidates(requested, reviewer))
<1>1. requested \in Seq(Registered) /\ KeyOrder \in Seq(Registered)
  BY WorkflowConstants
<1>2. select_candidates(requested) \in Seq(Registered) /\ Distinct(select_candidates(requested))
  <2> DEFINE first == {i \in DOMAIN requested : \A j \in 1 .. i - 1 : requested[j] # requested[i]}
             fit == {i \in DOMAIN KeyOrder : KeyOrder[i] \in (Capable \cap OfKind) \ Humans}
  <2>1. AtPlaces(requested, first) \in Seq(Registered) /\ Distinct(AtPlaces(requested, first))
    <3>1. \A i, j \in first : requested[i] = requested[j] => i = j
      <4>1. \A i \in first : i \in Nat /\ i >= 1
        BY <1>1
      <4>2. \A i, j \in first : i < j => requested[i] # requested[j]
        BY <4>1
      <4>3. \A i, j \in first : i < j \/ j < i \/ i = j
        BY <4>1
      <4> HIDE DEF first
      <4> QED BY <4>2, <4>3
    <3>2. first \subseteq DOMAIN requested
      OBVIOUS
    <3> HIDE DEF first
    <3> QED BY <1>1, <3>1, <3>2, PlacesDistinct
  <2>2. AtPlaces(KeyOrder, fit) \in Seq(Registered) /\ Distinct(AtPlaces(KeyOrder, fit))
    <3>1. fit \subseteq DOMAIN KeyOrder /\ \A i, j \in fit : KeyOrder[i] = KeyOrder[j] => i = j
      BY WorkflowConstants
    <3> HIDE DEF fit
    <3> QED BY <1>1, <3>1, PlacesDistinct
  <2>3. <<>> \in Seq(Registered) /\ Distinct(<<>>)
    BY DEF Distinct
  <2>4. select_candidates(requested) \in
            {AtPlaces(requested, first), AtPlaces(KeyOrder, fit), <<>>}
    BY DEF select_candidates, Deduplicated
  <2> HIDE DEF first, fit
  <2> QED BY <2>1, <2>2, <2>3, <2>4
<1>3. PICK s : s = select_candidates(requested)
  OBVIOUS
<1> DEFINE others == {i \in DOMAIN s : s[i] # reviewer}
<1>4. others \subseteq DOMAIN s /\ \A i, j \in others : s[i] = s[j] => i = j
  BY <1>2, <1>3 DEF Distinct
<1>5. Candidates(requested, reviewer) = AtPlaces(s, others)
  BY <1>3 DEF Candidates
<1> HIDE DEF others
<1> QED BY <1>2, <1>3, <1>4, <1>5, PlacesDistinct

-----------------------------------------------------------------------------
(* What is planned *)

\* WorkerCount is a number.
LEMMA WorkerCountIsInt ==
    ASSUME NEW m \in {"single", "sequential", "competitive", "consensus"}, NEW n \in Nat,
           NEW wc \in Nat \cup {NoCount}, NEW reviewer
    PROVE  WorkerCount(m, n, wc, reviewer) \in Int /\ (m = "single" => WorkerCount(m, n, wc, reviewer) = 1)
BY DEF WorkerCount, normalized_worker_count, MinOf, NoCount

\* A plan that can be built is well formed: workers first, and after them the reviewer of a
\* consensus.
LEMMA BuiltWell ==
    ASSUME NEW m \in {"single", "sequential", "competitive", "consensus"},
           NEW candidates \in Seq(Registered), Distinct(candidates),
           NEW wc \in Nat \cup {NoCount}, NEW reviewer \in Registered \cup {NoAgent},
           Buildable(m, candidates, wc, reviewer)
    PROVE  LET built == build_assignments(m, candidates, wc, reviewer)
               k == WorkerCount(m, Len(candidates), wc, reviewer)
               size == IF m = "consensus" THEN k + 1 ELSE k
           IN  /\ built \in Seq(Assignment) /\ Len(built) = size /\ DOMAIN built = 1 .. size
               /\ k \in Nat /\ 1 <= k /\ MinWorkers(m) <= k /\ size <= MAX_ASSIGNMENTS
               /\ m = "single" => k = 1
               /\ \A i \in 1 .. size : built[i].role = IF i <= k THEN "worker" ELSE "reviewer"
               /\ \A i, j \in 1 .. size : built[i].agent_key = built[j].agent_key => i = j
               /\ \A i \in 1 .. size : built[i].ordinal = i - 1
<1> DEFINE built == build_assignments(m, candidates, wc, reviewer)
           n == Len(candidates)
           k == WorkerCount(m, n, wc, reviewer)
           rev == ReviewerFor(candidates, wc, reviewer)
           size == IF m = "consensus" THEN k + 1 ELSE k
<1>1. n \in Nat /\ DOMAIN candidates = 1 .. n
  OBVIOUS
<1>2. k \in Int /\ (m = "single" => k = 1)
  BY <1>1, WorkerCountIsInt
<1>3. /\ MinWorkers(m) <= k /\ k <= n /\ k <= MAX_ASSIGNMENTS
      /\ m = "consensus" =>
            rev # NoAgent /\ (\A i \in 1 .. k : candidates[i] # rev) /\ k + 1 <= MAX_ASSIGNMENTS
  BY DEF Buildable
<1>4. built = [i \in 1 .. size |-> [ordinal |-> i - 1,
                role |-> IF i <= k THEN "worker" ELSE "reviewer",
                agent_key |-> IF i <= k THEN candidates[i] ELSE rev]]
  BY DEF build_assignments
<1>5. m = "consensus" => rev \in Registered
  <2> SUFFICES ASSUME m = "consensus" PROVE rev \in Registered
    OBVIOUS
  <2>1. CASE reviewer # NoAgent
    BY <2>1 DEF ReviewerFor
  <2>2. CASE reviewer = NoAgent
    <3> DEFINE c == normalized_worker_count(wc, MinOf(n - 1, 3))
    <3>1. n >= 3 /\ c + 1 <= n /\ rev = candidates[c + 1]
      BY <1>3, <2>2 DEF ReviewerFor
    <3>2. c \in Nat
      BY <1>1, <3>1 DEF normalized_worker_count, MinOf, NoCount
    <3> HIDE DEF c
    <3>3. c + 1 \in 1 .. n
      BY <1>1, <3>1, <3>2
    <3> QED BY <1>1, <3>1, <3>3
  <2> QED BY <2>1, <2>2
<1> HIDE DEF k, rev, built
<1>6. k \in Nat /\ 1 <= k
  BY <1>2, <1>3 DEF MinWorkers
<1>7. size \in Nat /\ size >= k /\ size <= MAX_ASSIGNMENTS /\ (m # "consensus" => size = k)
  BY <1>3, <1>6
<1>8. \A i \in 1 .. size : i > k => m = "consensus" /\ i = k + 1
  BY <1>6
<1>9. \A i \in 1 .. size : i \in Nat /\ i >= 1 /\ (i <= k => i \in DOMAIN candidates)
  BY <1>1, <1>3, <1>6, <1>7
<1>10. DOMAIN built = 1 .. size /\ \A i \in 1 .. size :
          /\ built[i].ordinal = i - 1 /\ built[i].role = IF i <= k THEN "worker" ELSE "reviewer"
          /\ built[i].agent_key = IF i <= k THEN candidates[i] ELSE rev
  BY <1>4
<1>11. \A i \in 1 .. size : built[i] \in Assignment
  <2> TAKE i \in 1 .. size
  <2>1. (IF i <= k THEN candidates[i] ELSE rev) \in Registered
    BY <1>5, <1>6, <1>8, <1>9
  <2>2. i - 1 \in Nat
    BY <1>9
  <2> QED BY <1>4, <2>1, <2>2 DEF Assignment
<1>12. built \in Seq(Assignment) /\ Len(built) = size
  <2> HIDE DEF size
  <2>1. built \in [1 .. size -> Assignment]
    BY <1>4, <1>11
  <2> QED BY <1>7, <2>1
<1>13. ASSUME NEW i \in 1 .. size, NEW j \in 1 .. size, built[i].agent_key = built[j].agent_key
       PROVE  i = j
  <2>1. CASE i <= k /\ j <= k
    BY <1>9, <1>10, <1>13, <2>1 DEF Distinct
  <2>2. CASE i > k /\ j > k
    BY <1>8, <2>2
  <2>3. CASE i <= k /\ j > k
    <3>1. candidates[i] = rev /\ m = "consensus" /\ i \in 1 .. k
      BY <1>6, <1>8, <1>9, <1>10, <1>13, <2>3
    <3> QED BY <1>3, <3>1
  <2>4. CASE i > k /\ j <= k
    <3>1. candidates[j] = rev /\ m = "consensus" /\ j \in 1 .. k
      BY <1>6, <1>8, <1>9, <1>10, <1>13, <2>4
    <3> QED BY <1>3, <3>1
  <2>5. i \in Nat /\ j \in Nat
    BY <1>9
  <2> QED BY <1>6, <2>1, <2>2, <2>3, <2>4, <2>5
<1> QED BY <1>2, <1>3, <1>6, <1>7, <1>10, <1>12, <1>13 DEF k, built
-----------------------------------------------------------------------------
(* Types, the plan and the announcements *)

\* A submission that is recorded and not yet announced: nobody else announces it, since
\* only one request found its key new.
Announcing ==
    /\ AnnouncedOnce
    /\ \A t \in Threads : req[t].step = "recorded" =>
          req[t].ordinal \in done /\ req[t].ordinal \notin Range(announced)
    /\ \A s, t \in Threads :
          req[s].step = "recorded" /\ req[t].step = "recorded" /\ req[s].ordinal = req[t].ordinal
              => s = t

Told == TypeOK /\ PlanWellFormed /\ Announcing

\* create_workflow makes a plan that is well formed.
LEMMA CreateTold ==
    ASSUME IInv, Told, CreateChannel
    PROVE  Told'
<1>1. done = {} /\ req = [t \in Threads |-> Idle]
  BY DEF IInv, QuietBeforePlan, CreateChannel
<1>2. PICK m \in Modes, requested \in Requested, wc \in WorkerCounts,
           reviewer \in Registered \cup {NoAgent} :
        /\ Buildable(m, Candidates(requested, reviewer), wc, reviewer)
        /\ mode' = m
        /\ assignments' = build_assignments(m, Candidates(requested, reviewer), wc, reviewer)
  BY Zenon DEF CreateChannel
<1>3. /\ m \in {"single", "sequential", "competitive", "consensus"} /\ wc \in Nat \cup {NoCount}
      /\ Candidates(requested, reviewer) \in Seq(Registered)
      /\ Distinct(Candidates(requested, reviewer))
  BY CandidatesDistinct, WorkflowConstants
<1>4. PICK k \in Nat, size \in Nat :
        /\ size = IF m = "consensus" THEN k + 1 ELSE k
        /\ assignments' \in Seq(Assignment) /\ Len(assignments') = size
        /\ DOMAIN assignments' = 1 .. size
        /\ 1 <= k /\ MinWorkers(m) <= k /\ size <= MAX_ASSIGNMENTS
        /\ m = "single" => k = 1
        /\ \A i \in 1 .. size : assignments'[i].role = IF i <= k THEN "worker" ELSE "reviewer"
        /\ \A i, j \in 1 .. size : assignments'[i].agent_key = assignments'[j].agent_key => i = j
        /\ \A i \in 1 .. size : assignments'[i].ordinal = i - 1
  <2> DEFINE cs == Candidates(requested, reviewer)
             k == WorkerCount(m, Len(cs), wc, reviewer)
             size == IF m = "consensus" THEN k + 1 ELSE k
  <2>1. cs \in Seq(Registered) /\ Distinct(cs) /\ Buildable(m, cs, wc, reviewer)
        /\ assignments' = build_assignments(m, cs, wc, reviewer)
    BY <1>2, <1>3
  <2> HIDE DEF cs
  <2>2. /\ assignments' \in Seq(Assignment) /\ Len(assignments') = size
        /\ DOMAIN assignments' = 1 .. size
        /\ k \in Nat /\ 1 <= k /\ MinWorkers(m) <= k /\ size <= MAX_ASSIGNMENTS
        /\ m = "single" => k = 1
        /\ \A i \in 1 .. size : assignments'[i].role = IF i <= k THEN "worker" ELSE "reviewer"
        /\ \A i, j \in 1 .. size : assignments'[i].agent_key = assignments'[j].agent_key => i = j
        /\ \A i \in 1 .. size : assignments'[i].ordinal = i - 1
    BY <1>3, <2>1, BuiltWell
  <2>3. size \in Nat
    BY <2>2
  <2> HIDE DEF k
  <2> QED BY <2>2, <2>3
<1>5. mode' = m /\ phase' = "channel" /\ UNCHANGED <<submissions, announced, req>> /\ done' = {}
  BY <1>1, <1>2 DEF CreateChannel, done
<1>6. TypeOK'
  <2>1. submissions' \in [done' -> Submission']
    BY <1>1, <1>5 DEF Told, TypeOK, done
  <2>2. Assignment' = Assignment /\ \A t \in Threads : req'[t] = Idle
    BY <1>1, <1>5 DEF Assignment
  <2> QED BY <1>3, <1>4, <1>5, <2>1, <2>2 DEF Told, TypeOK, done
<1>7. PlanWellFormed'
  <2>1. Workers' = 1 .. k
    <3>1. \A i \in 1 .. size : assignments'[i].role = "worker" <=> i \in 1 .. k
      BY <1>4
    <3>2. \A i \in 1 .. k : i \in 1 .. size
      BY <1>4
    <3> QED BY <1>4, <3>1, <3>2 DEF Workers
  <2>2. Cardinality(Workers') = k
    BY <1>4, <2>1, FS_Interval
  <2>3. Reviewers' = IF m = "consensus" THEN {size} ELSE {}
    <3>1. \A i \in 1 .. size : assignments'[i].role = "reviewer" <=> i > k
      BY <1>4
    <3>2. \A i \in 1 .. size : i > k <=> m = "consensus" /\ i = size
      BY <1>4
    <3>3. size \in 1 .. size
      BY <1>4
    <3> QED BY <1>4, <3>1, <3>2, <3>3 DEF Reviewers
  <2>4. assignments' # <<>>
    BY <1>4
  <2> QED BY <1>4, <1>5, <2>2, <2>3, <2>4 DEF PlanWellFormed
<1>8. Announcing'
  <2>1. \A t \in Threads : req'[t].step = "idle"
    BY <1>1, <1>5 DEF Idle
  <2>2. AnnouncedOnce'
    BY <1>1, <1>5 DEF Told, Announcing, AnnouncedOnce
  <2> QED BY <2>1, <2>2 DEF Announcing
<1> QED BY <1>6, <1>7, <1>8 DEF Told

\* A step that leaves the plan and what is known of it alone.
LEMMA PlanKept ==
    ASSUME PlanWellFormed, UNCHANGED <<mode, assignments>>, phase' # "none" => phase # "none"
    PROVE  PlanWellFormed'
BY DEF PlanWellFormed, Workers, Reviewers

\* The later phases of create_workflow.
LEMMA PhaseTold ==
    ASSUME Told, InsertPlan \/ AnnounceCreated \/ UNCHANGED vars
    PROVE  Told'
<1>1. /\ UNCHANGED <<mode, assignments, submissions, announced, req>>
      /\ phase' \in {"none", "channel", "planned", "announced", "failed"}
      /\ phase' # "none" => phase # "none"
  BY DEF InsertPlan, AnnounceCreated, vars, Told, TypeOK
<1>2. done' = done
  BY <1>1 DEF done
<1>3. TypeOK'
  BY <1>1, <1>2 DEF Told, TypeOK, Assignment, Submission
<1>4. Announcing'
  BY <1>1, <1>2 DEF Told, Announcing, AnnouncedOnce
<1> QED BY <1>1, <1>3, <1>4, PlanKept DEF Told

\* A request is validated.
LEMMA ValidateTold ==
    ASSUME IInv, Told, NEW t \in Threads, SubmitValidate(t)
    PROVE  Told'
<1>1. PICK i \in DOMAIN assignments, c \in Contents :
        req' = [req EXCEPT ![t] =
                [step |-> "validated", ordinal |-> assignments[i].ordinal,
                 agent_key |-> assignments[i].agent_key, content |-> c]]
  BY DEF SubmitValidate
<1>2. UNCHANGED <<phase, mode, assignments, submissions, announced>>
  BY DEF SubmitValidate
<1>3. done' = done
  BY <1>2 DEF done
<1>4. /\ req'[t] = [step |-> "validated", ordinal |-> assignments[i].ordinal,
                    agent_key |-> assignments[i].agent_key, content |-> c]
      /\ \A s \in Threads : s # t => req'[s] = req[s]
  BY <1>1 DEF IInv
<1>5. assignments[i] \in Assignment /\ i \in Nat /\ assignments[i].ordinal = i - 1
  BY DEF Told, TypeOK
<1>6. /\ req'[t] \in [step: {"validated", "recorded"}, ordinal: Nat,
                      agent_key: Registered, content: Contents]
      /\ req'[t].ordinal + 1 \in DOMAIN assignments
  <2>1. assignments[i].ordinal \in Nat /\ assignments[i].agent_key \in Registered
    BY <1>5 DEF Assignment
  <2> QED BY <1>4, <1>5, <2>1
<1>7. TypeOK'
  <2>1. \A s \in Threads :
          \/ req'[s] = Idle
          \/ /\ req'[s] \in [step: {"validated", "recorded"}, ordinal: Nat,
                             agent_key: Registered, content: Contents]
             /\ req'[s].ordinal + 1 \in DOMAIN assignments'
    BY <1>2, <1>4, <1>6 DEF Told, TypeOK
  <2> QED BY <1>2, <1>3, <2>1 DEF Told, TypeOK, Assignment, Submission
<1>8. Announcing'
  <2>1. \A s \in Threads : req'[s].step = "recorded" => s # t /\ req'[s] = req[s]
    BY <1>4
  <2> QED BY <1>2, <1>3, <2>1 DEF Told, Announcing, AnnouncedOnce
<1> QED BY <1>2, <1>7, <1>8, PlanKept DEF Told

\* A request records its submission, or finds the key taken.
LEMMA RecordTold ==
    ASSUME IInv, Told, NEW t \in Threads, SubmitRecord(t)
    PROVE  Told'
<1>1. UNCHANGED <<phase, mode, assignments, announced>> /\ req[t].step = "validated"
  BY DEF SubmitRecord
<1>2. PICK q : q = req[t]
  OBVIOUS
<1>3. /\ q \in [step: {"validated", "recorded"}, ordinal: Nat, agent_key: Registered, content: Contents]
      /\ q.ordinal + 1 \in DOMAIN assignments /\ q.step = "validated"
  BY <1>1, <1>2 DEF Told, TypeOK, Idle
<1>4. CASE /\ Recordable(q.ordinal)
           /\ submissions' = [o \in done \cup {q.ordinal} |->
                 IF o = q.ordinal THEN [agent_key |-> q.agent_key, content |-> q.content]
                 ELSE submissions[o]]
           /\ req' = [req EXCEPT ![t].step = "recorded"]
  <2>1. q.ordinal \notin done /\ done' = done \cup {q.ordinal}
    BY <1>4 DEF Recordable, done
  <2>2. /\ req'[t] = [q EXCEPT !.step = "recorded"]
        /\ \A s \in Threads : s # t => req'[s] = req[s]
    BY <1>2, <1>4 DEF IInv
  <2>3. /\ req'[t] \in [step: {"validated", "recorded"}, ordinal: Nat,
                        agent_key: Registered, content: Contents]
        /\ req'[t].ordinal = q.ordinal /\ req'[t].step = "recorded"
    BY <1>3, <2>2
  <2>4. TypeOK'
    <3>1. submissions' \in [done' -> Submission']
      <4>1. [agent_key |-> q.agent_key, content |-> q.content] \in Submission
        BY <1>3 DEF Submission
      <4>2. Submission' = Submission /\ submissions \in [done -> Submission]
        BY DEF Submission, Told, TypeOK
      <4> QED BY <1>4, <2>1, <4>1, <4>2
    <3>2. done' \subseteq {assignments'[i].ordinal : i \in DOMAIN assignments'}
      <4>1. assignments[q.ordinal + 1].ordinal = q.ordinal
        BY <1>3 DEF Told, TypeOK
      <4> QED BY <1>1, <1>3, <2>1, <4>1 DEF Told, TypeOK
    <3>3. \A s \in Threads :
            \/ req'[s] = Idle
            \/ /\ req'[s] \in [step: {"validated", "recorded"}, ordinal: Nat,
                               agent_key: Registered, content: Contents]
               /\ req'[s].ordinal + 1 \in DOMAIN assignments'
      BY <1>1, <1>3, <2>2, <2>3 DEF Told, TypeOK
    <3> QED BY <1>1, <3>1, <3>2, <3>3 DEF Told, TypeOK, Assignment
  <2>5. Announcing'
    <3>1. q.ordinal \notin Range(announced)
      BY <2>1 DEF Told, Announcing, AnnouncedOnce
    <3>2. \A s \in Threads : s # t /\ req[s].step = "recorded" => req[s].ordinal # q.ordinal
      BY <2>1 DEF Told, Announcing
    <3>3. AnnouncedOnce'
      BY <1>1, <2>1 DEF Told, Announcing, AnnouncedOnce
    <3>4. \A s \in Threads : req'[s].step = "recorded" =>
              req'[s].ordinal \in done' /\ req'[s].ordinal \notin Range(announced)'
      BY <1>1, <2>1, <2>2, <2>3, <3>1 DEF Told, Announcing
    <3>5. \A s, u \in Threads :
              req'[s].step = "recorded" /\ req'[u].step = "recorded" /\ req'[s].ordinal = req'[u].ordinal
                  => s = u
      BY <2>2, <2>3, <3>2 DEF Told, Announcing
    <3> QED BY <3>3, <3>4, <3>5 DEF Announcing
  <2> QED BY <1>1, <2>4, <2>5, PlanKept DEF Told
<1>5. CASE req' = [req EXCEPT ![t] = Idle] /\ UNCHANGED submissions
  <2>1. done' = done /\ req'[t] = Idle /\ Idle.step = "idle" /\ \A s \in Threads : s # t => req'[s] = req[s]
    BY <1>5 DEF done, IInv, Idle
  <2>2. TypeOK'
    BY <1>1, <1>5, <2>1 DEF Told, TypeOK, Assignment, Submission
  <2>3. Announcing'
    BY <1>1, <2>1 DEF Told, Announcing, AnnouncedOnce
  <2> QED BY <1>1, <2>2, <2>3, PlanKept DEF Told
<1> QED BY <1>2, <1>4, <1>5 DEF SubmitRecord

\* The message is posted, or fails.
LEMMA AnnounceTold ==
    ASSUME IInv, Told, NEW t \in Threads, SubmitAnnounce(t)
    PROVE  Told'
<1>1. /\ UNCHANGED <<phase, mode, assignments, submissions>>
      /\ req' = [req EXCEPT ![t] = Idle] /\ req[t].step = "recorded"
      /\ announced' \in {announced, Append(announced, req[t].ordinal)}
  BY DEF SubmitAnnounce
<1>2. done' = done /\ req'[t] = Idle /\ Idle.step = "idle" /\ \A s \in Threads : s # t => req'[s] = req[s]
  BY <1>1 DEF done, IInv, Idle
<1>3. /\ req[t].ordinal \in Nat /\ announced \in Seq(Nat) /\ req[t].ordinal \in done
      /\ req[t].ordinal \notin Range(announced)
  BY <1>1 DEF Told, TypeOK, Announcing, Idle
<1>4. /\ announced' \in Seq(Nat) /\ Range(announced') \subseteq Range(announced) \cup {req[t].ordinal}
      /\ \A i, j \in DOMAIN announced' : announced'[i] = announced'[j] => i = j
  <2>1. CASE announced' = announced
    BY <1>3, <2>1 DEF Told, Announcing, AnnouncedOnce
  <2>2. CASE announced' = Append(announced, req[t].ordinal)
    <3>1. PICK o : o = req[t].ordinal
      OBVIOUS
    <3>2. /\ announced' \in Seq(Nat) /\ Len(announced) \in Nat /\ DOMAIN announced' = 1 .. Len(announced) + 1
          /\ DOMAIN announced = 1 .. Len(announced)
          /\ \A i \in 1 .. Len(announced) : announced'[i] = announced[i]
          /\ announced'[Len(announced) + 1] = o
      BY <1>3, <2>2, <3>1, AppendProperties, LenProperties
    <3>3. \A i \in DOMAIN announced' : i \in DOMAIN announced \/ i = Len(announced) + 1
      BY <3>2
    <3>4. \A i \in DOMAIN announced : announced[i] \in Range(announced)
      BY DEF Range
    <3>5. Range(announced') \subseteq Range(announced) \cup {o}
      BY <3>2, <3>3, <3>4 DEF Range
    <3>6. \A i, j \in DOMAIN announced' : announced'[i] = announced'[j] => i = j
      BY <1>3, <3>1, <3>2, <3>3, <3>4 DEF Told, Announcing, AnnouncedOnce
    <3> QED BY <3>1, <3>2, <3>5, <3>6
  <2> QED BY <1>1, <2>1, <2>2
<1>5. TypeOK'
  BY <1>1, <1>2, <1>4 DEF Told, TypeOK, Assignment, Submission
<1>6. Announcing'
  <2>1. AnnouncedOnce'
    BY <1>2, <1>3, <1>4 DEF Told, Announcing, AnnouncedOnce
  <2>2. \A s \in Threads : req'[s].step = "recorded" =>
            /\ s # t /\ req'[s] = req[s] /\ req[s].ordinal # req[t].ordinal
            /\ req[s].ordinal \in done /\ req[s].ordinal \notin Range(announced)
    BY <1>1, <1>2 DEF Told, Announcing
  <2>3. \A s, u \in Threads :
            req'[s].step = "recorded" /\ req'[u].step = "recorded" /\ req'[s].ordinal = req'[u].ordinal
                => s = u
    BY <2>2 DEF Told, Announcing
  <2> QED BY <1>2, <1>4, <2>1, <2>2, <2>3 DEF Announcing
<1> QED BY <1>1, <1>5, <1>6, PlanKept DEF Told

\* Every step keeps it.
LEMMA ToldStep ==
    ASSUME IInv, Told, [Next]_vars
    PROVE  Told'
BY CreateTold, PhaseTold, ValidateTold, RecordTold, AnnounceTold DEF Next, Submit

\* It holds before there is a workflow.
LEMMA ToldInit == Init => Told
<1> SUFFICES ASSUME Init PROVE Told
  OBVIOUS
<1>1. done = {} /\ DOMAIN assignments = {} /\ announced = <<>> /\ \A t \in Threads : req[t] = Idle
  BY DEF Init, done
<1>2. submissions \in [done -> Submission]
  BY DEF Init, done
<1>3. TypeOK
  BY <1>1, <1>2 DEF Init, TypeOK
<1>4. Announcing
  BY <1>1 DEF Announcing, AnnouncedOnce, Range, Idle
<1>5. PlanWellFormed
  BY DEF Init, PlanWellFormed
<1> QED BY <1>3, <1>4, <1>5 DEF Told

\* Both invariants hold throughout.
LEMMA Invariance == Spec => [](IInv /\ Told)
<1>1. Init => IInv /\ Told
  BY InvInit, ToldInit
<1>2. (IInv /\ Told) /\ [Next]_vars => (IInv /\ Told)'
  BY InvStep, ToldStep
<1> QED BY <1>1, <1>2, PTL DEF Spec
-----------------------------------------------------------------------------
(* Status and turn *)

\* The first of a set of places.
LEMMA FirstOfSet ==
    ASSUME NEW S, S \subseteq Nat, S # {}
    PROVE  FirstOf(S) \in S /\ \A j \in S : FirstOf(S) <= j
<1>1. \E i \in S : \A j \in S : i <= j
  BY LeastNumber
<1> QED BY <1>1 DEF FirstOf

\* workflow_status and validate_submission_turn agree on whose turn it is.
LEMMA StatusIsTurn ==
    ASSUME TypeOK, PlanWellFormed, ReviewerLast
    PROVE  StatusAgreesWithTurn
<1> SUFFICES ASSUME Listed PROVE StatusAgreesWithTurn
  BY DEF StatusAgreesWithTurn
<1> DEFINE open == Pending(done)
           status == workflow_status(done)
           turn == {i \in DOMAIN assignments : validate_submission_turn(i, done)}
           may == {assignments[i].agent_key : i \in turn}
<1>1. /\ DOMAIN assignments = 1 .. Len(assignments) /\ Len(assignments) \in Nat
      /\ mode \in {"single", "sequential", "competitive", "consensus"}
      /\ \A i \in DOMAIN assignments :
            /\ assignments[i].role \in {"worker", "reviewer"} /\ assignments[i].agent_key # NoAgent
            /\ assignments[i].ordinal = i - 1
  <2>1. assignments \in Seq(Assignment)
    BY DEF TypeOK
  <2>2. \A i \in DOMAIN assignments : assignments[i] \in Assignment
    BY <2>1
  <2> QED BY <2>1, <2>2, WorkflowConstants DEF TypeOK, Assignment
<1>2. /\ assignments # <<>>
      /\ Reviewers = IF mode = "consensus" THEN {Len(assignments)} ELSE {}
      /\ mode = "single" => Cardinality(Workers) = 1
  BY DEF PlanWellFormed, Listed
<1>3. Workers \subseteq DOMAIN assignments /\ open \subseteq Workers /\ DOMAIN assignments \subseteq Nat
  BY <1>1 DEF Workers, Pending
<1>4. open = {i \in Workers : assignments[i].ordinal \notin done}
  BY DEF Pending
<1>5. \A i \in DOMAIN assignments : i \in Workers <=> assignments[i].role = "worker"
  BY DEF Workers
<1>6. \A i \in DOMAIN assignments : i \in Reviewers <=> assignments[i].role = "reviewer"
  BY DEF Reviewers
<1>7. CASE open = {}
  <2>1. CASE mode # "consensus"
    <3>1. status = [stage |-> "completed", current |-> NoAgent, pending |-> {}]
      BY <1>7, <2>1 DEF workflow_status
    <3>2. turn = {}
      <4>1. \A i \in DOMAIN assignments : i \in Workers
        BY <1>1, <1>2, <1>5, <1>6, <2>1
      <4>2. \A i \in DOMAIN assignments : assignments[i].ordinal \in done
        BY <1>4, <1>7, <4>1
      <4> QED BY <4>2 DEF validate_submission_turn
    <3> QED BY <3>1, <3>2 DEF StatusAgreesWithTurn
  <2>2. CASE mode = "consensus"
    <3> DEFINE r == Len(assignments)
    <3>1. r \in DOMAIN assignments /\ Reviewers = {r} /\ assignments[r].role = "reviewer"
      <4>1. Reviewers = {r} /\ r \in Reviewers
        BY <1>2, <2>2
      <4> QED BY <4>1 DEF Reviewers
    <3>2. FirstOf(Reviewers) = r
      BY <1>1, <3>1, FirstOfSet
    <3>3. status = IF assignments[r].ordinal \in done
                   THEN [stage |-> "completed", current |-> NoAgent, pending |-> {}]
                   ELSE [stage |-> "awaiting_review", current |-> assignments[r].agent_key,
                         pending |-> {assignments[r].agent_key}]
      BY <1>7, <2>2, <3>1, <3>2 DEF workflow_status
    <3>4. turn = IF assignments[r].ordinal \in done THEN {} ELSE {r}
      <4>1. \A i \in DOMAIN assignments : i # r => i \in Workers
        BY <1>1, <1>5, <1>6, <3>1
      <4>2. \A i \in DOMAIN assignments : i # r => assignments[i].ordinal \in done
        BY <1>4, <1>7, <4>1
      <4>3. \A i \in DOMAIN assignments : i # r => ~validate_submission_turn(i, done)
        BY <4>2 DEF validate_submission_turn
      <4>4. validate_submission_turn(r, done) <=> assignments[r].ordinal \notin done
        BY <1>7, <2>2, <3>1 DEF validate_submission_turn
      <4> QED BY <3>1, <4>3, <4>4
    <3>5. assignments[r].agent_key # NoAgent
      BY <1>1, <3>1
    <3> HIDE DEF r
    <3>6. CASE assignments[r].ordinal \in done
      BY <3>3, <3>4, <3>6 DEF StatusAgreesWithTurn
    <3>7. CASE assignments[r].ordinal \notin done
      <4>1. status.current = assignments[r].agent_key /\ turn = {r}
        BY <3>3, <3>4, <3>7
      <4>2. may = {assignments[r].agent_key}
        BY <4>1
      <4> QED BY <3>5, <4>1, <4>2 DEF StatusAgreesWithTurn
    <3> QED BY <3>6, <3>7
  <2> QED BY <2>1, <2>2
<1>8. CASE open # {}
  <2>1. /\ status.pending = {assignments[i].agent_key : i \in open}
        /\ status.current = IF mode \in {"sequential", "single"}
                            THEN assignments[FirstOf(open)].agent_key ELSE NoAgent
    BY <1>8 DEF workflow_status, AgentsOf
  <2>2. CASE mode \in {"sequential", "single"}
    <3> DEFINE f == FirstOf(open)
    <3>1. f \in open /\ \A j \in open : f <= j
      BY <1>3, <1>8, FirstOfSet
    <3> HIDE DEF f
    <3>2. turn = {f}
      <4>1. f \in DOMAIN assignments /\ assignments[f].ordinal \notin done /\ assignments[f].role = "worker"
        BY <1>3, <1>4, <1>5, <3>1
      <4>2. validate_submission_turn(f, done)
        BY <2>2, <3>1, <4>1 DEF validate_submission_turn
      <4>3. ASSUME NEW i \in turn PROVE i = f
        <5>1. i \in DOMAIN assignments /\ validate_submission_turn(i, done) /\ i \in Nat /\ f \in Nat
          BY <1>3, <4>1
        <5>2. CASE mode = "sequential"
          <6>1. i \in open /\ \A j \in open : i <= j
            BY <5>1, <5>2 DEF validate_submission_turn
          <6> QED BY <3>1, <5>1, <6>1
        <5>3. CASE mode = "single"
          <6>1. i \in Workers /\ f \in Workers
            BY <1>3, <1>5, <3>1, <5>1, <5>3 DEF validate_submission_turn
          <6>2. IsFiniteSet(Workers)
            <7>1. IsFiniteSet(1 .. Len(assignments))
              BY <1>1, FS_Interval
            <7> QED BY <1>1, <1>3, <7>1, FS_Subset
          <6>3. PICK x : Workers = {x}
            BY <1>2, <5>3, <6>2, FS_Singleton
          <6> QED BY <6>1, <6>3
        <5> QED BY <2>2, <5>2, <5>3
      <4> QED BY <4>1, <4>2, <4>3
    <3>3. status.current = assignments[f].agent_key /\ assignments[f].agent_key # NoAgent
      BY <1>1, <1>3, <2>1, <2>2, <3>1 DEF f
    <3>4. may = {assignments[f].agent_key}
      BY <3>2
    <3> QED BY <3>3, <3>4 DEF StatusAgreesWithTurn
  <2>3. CASE mode \in {"competitive", "consensus"}
    <3>1. \A r \in Reviewers : assignments[r].ordinal \notin done
      BY <1>2, <1>8, <2>3 DEF ReviewerLast
    <3>2. turn = open
      <4>1. ASSUME NEW i \in DOMAIN assignments
            PROVE  validate_submission_turn(i, done) <=> i \in open
        <5>1. CASE mode = "competitive"
          BY <1>4, <1>5, <4>1, <5>1 DEF validate_submission_turn
        <5>2. CASE mode = "consensus" /\ assignments[i].role = "worker"
          BY <1>4, <1>5, <3>1, <4>1, <5>2 DEF validate_submission_turn
        <5>3. CASE mode = "consensus" /\ assignments[i].role = "reviewer"
          BY <1>4, <1>5, <1>8, <4>1, <5>3 DEF validate_submission_turn
        <5> QED BY <1>1, <2>3, <5>1, <5>2, <5>3
      <4> QED BY <1>3, <4>1
    <3>3. status.current = NoAgent
      BY <2>1, <2>3
    <3> QED BY <2>1, <3>2, <3>3 DEF StatusAgreesWithTurn
  <2> QED BY <1>1, <2>2, <2>3
<1> QED BY <1>7, <1>8

-----------------------------------------------------------------------------
(* Theorems *)

\* Every variable stays in its domain: whatever is recorded or in flight belongs to an
\* assignment of the plan.
THEOREM TypeCorrect == Spec => []TypeOK
<1>1. IInv /\ Told => TypeOK
  BY DEF Told
<1> QED BY <1>1, Invariance, PTL

\* Every plan that create_workflow makes, from any list of candidates, mode, worker count
\* and reviewer, is well formed.
THEOREM PlansAreWellFormed == Spec => []PlanWellFormed
<1>1. IInv /\ Told => PlanWellFormed
  BY DEF Told
<1> QED BY <1>1, Invariance, PTL

\* At most one message announces a submission, and the status that clients are told always
\* names exactly those whose submission would be accepted.
THEOREM ToldIsRecorded == Spec => []ToldAsRecorded
<1>1. IInv /\ Told => ToldAsRecorded
  BY StatusIsTurn DEF IInv, Told, Announcing, ToldAsRecorded
<1> QED BY <1>1, Invariance, PTL

-----------------------------------------------------------------------------
(***************************************************************************)
(* PolicyAdmission: the record is sound for every budget, delta set and     *)
(* number of concurrent reports.                                            *)
(*                                                                         *)
(* AdmissionTypeOK, with the map of handlers added, is inductive.           *)
(* Everything else follows from what one charge does to a record            *)
(* (ChargeOutcome) and from every step being a forward step (ForwardStep),  *)
(* which is what makes a report checked before the lock good under it.      *)
(***************************************************************************)

\* The ceilings a budget implies are natural numbers, the saturating product of
\* budget_violation included.
LEMMA CeilingType ==
    ASSUME NEW b \in Budget, NEW m \in Metrics
    PROVE  Ceiling(b, m) \in Nat
<1>1. \A f \in Fields : b[f] \in Nat
  BY AdmissionConstants DEF Budget, U64
<1>2. \A n \in Nat : Saturated(n) \in Nat
  BY AdmissionConstants DEF Saturated, Lesser
<1>3. CASE m = "provider_calls"
  <2> DEFINE calls == Saturated(b["max_providers"] * b["max_rounds"])
             tries == Saturated(b["max_retries"] + 1)
  <2>1. b["max_providers"] * b["max_rounds"] \in Nat /\ b["max_retries"] + 1 \in Nat
    BY <1>1 DEF Fields
  <2>2. calls \in Nat /\ tries \in Nat
    BY <1>2, <2>1
  <2>3. calls * tries \in Nat
    BY <2>2
  <2>4. Saturated(calls * tries) \in Nat
    BY <1>2, <2>3
  <2>5. Ceiling(b, m) = Saturated(calls * tries)
    BY <1>3 DEF Ceiling
  <2> QED
    BY <2>4, <2>5
<1>4. CASE m # "provider_calls"
  <2>1. CeilingField[m] \in Fields
    BY <1>4 DEF CeilingField, Metrics, Fields
  <2> QED
    BY <1>1, <1>4, <2>1 DEF Ceiling
<1> QED
  BY <1>3, <1>4

\* clamp keeps a field within u64, whatever was requested.
LEMMA ClampType ==
    ASSUME NEW requested \in [Fields -> U64 \cup {Unset}], NEW profile \in Budget
    PROVE  clamped(requested, profile) \in Budget
<1> SUFFICES ASSUME NEW f \in Fields
             PROVE  clamp(requested[f], profile[f], Absolute[f]) \in U64
  BY DEF clamped, Budget
<1>1. profile[f] \in U64 /\ Absolute[f] \in U64 /\ requested[f] \in U64 \cup {Unset}
  BY AdmissionConstants DEF Budget
<1>2. MaxU64 \in Nat \ {0}
  BY AdmissionConstants
<1> QED
  BY <1>1, <1>2 DEF clamp, Lesser, Greater, U64

\* What attempted_totals computes, and that a delta never lowers a total.
LEMMA AttemptedTotals ==
    ASSUME NEW current \in Usage, NEW delta \in Usage
    PROVE  LET attempted == attempted_totals(current, delta)
           IN  /\ attempted \in [Metrics -> Nat]
               /\ \A m \in Metrics : current[m] <= attempted[m]
               /\ ~Overflows(attempted) => attempted \in Usage
<1>1. \A m \in Metrics : current[m] \in Nat /\ delta[m] \in Nat
  BY AdmissionConstants DEF Usage, U64
<1>2. attempted_totals(current, delta) \in [Metrics -> Nat]
  BY <1>1 DEF attempted_totals, Greater
<1>3. \A m \in Metrics : current[m] <= attempted_totals(current, delta)[m]
  BY <1>1 DEF attempted_totals, Greater
<1>4. ASSUME ~Overflows(attempted_totals(current, delta))
      PROVE  attempted_totals(current, delta) \in Usage
  BY <1>2, <1>4, AdmissionConstants DEF Overflows, Usage, U64
<1> QED
  BY <1>2, <1>3, <1>4

-----------------------------------------------------------------------------
(* What one charge does to a record *)

\* The two outcomes of record_usage for a selected provider: either the record is
\* exhausted by a delta that does not fit, its totals as they were, or the delta is
\* committed and every total is within its ceiling.
LEMMA ChargeOutcome ==
    ASSUME admission \in Record, NEW delta \in Deltas
    PROVE  /\ Charged(delta) \in Record
           /\ Charged(delta).requested_by = admission.requested_by
           /\ Charged(delta).selected = admission.selected
           /\ Charged(delta).budget = admission.budget
           /\ \/ /\ Charged(delta).status = "exhausted"
                 /\ Charged(delta).usage = admission.usage
                 /\ Charged(delta).rejected = {delta}
                 /\ LET attempted == attempted_totals(admission.usage, delta)
                    IN  Overflows(attempted) \/ budget_violation(admission.budget, attempted)
              \/ /\ Charged(delta).status = admission.status
                 /\ Charged(delta).usage = attempted_totals(admission.usage, delta)
                 /\ ~budget_violation(admission.budget, Charged(delta).usage)
<1> DEFINE attempted == attempted_totals(admission.usage, delta)
<1>1. admission.usage \in Usage /\ delta \in Usage
  BY AdmissionConstants DEF Record
<1>2. CASE Overflows(attempted) \/ budget_violation(admission.budget, attempted)
  <2>1. Charged(delta) = [admission EXCEPT !.status = "exhausted", !.rejected = {delta}]
    BY <1>2 DEF Charged, exhaust
  <2>2. {delta} \in SUBSET Deltas
    OBVIOUS
  <2>3. /\ Charged(delta) \in Record
        /\ Charged(delta).requested_by = admission.requested_by
        /\ Charged(delta).selected = admission.selected
        /\ Charged(delta).budget = admission.budget
        /\ Charged(delta).status = "exhausted"
        /\ Charged(delta).usage = admission.usage
        /\ Charged(delta).rejected = {delta}
    BY <2>1, <2>2 DEF Record, Status
  <2> QED
    BY <1>2, <2>3
<1>3. CASE ~(Overflows(attempted) \/ budget_violation(admission.budget, attempted))
  <2>1. Charged(delta) = [admission EXCEPT !.usage = attempted, !.rejected = {}]
    BY <1>3 DEF Charged
  <2>2. attempted \in Usage
    BY <1>1, <1>3, AttemptedTotals
  <2>3. ~budget_violation(admission.budget, attempted)
    BY <1>3
  <2> HIDE DEF attempted
  <2>4. Charged(delta).usage = attempted
    BY <2>1 DEF Record
  <2> QED
    BY <2>1, <2>2, <2>3, <2>4 DEF Record, Status, attempted
<1> QED
  BY <1>2, <1>3

\* The record create_admission stores.
LEMMA CreatedRecord ==
    ASSUME create_admission
    PROVE  /\ admission = NoAdmission
           /\ admission' \in Record
           /\ admission'.status = "active"
           /\ admission'.usage = [m \in Metrics |-> 0]
<1>1. PICK actor \in Actors, request \in Requests, approved \in BOOLEAN :
        /\ Admissible(request, approved)
        /\ admission' = [requested_by |-> actor,
                         selected |-> request.selected,
                         budget |-> clamped(request.budget, Profile[request.risk]),
                         status |-> "active",
                         usage |-> [m \in Metrics |-> 0],
                         rejected |-> {}]
  BY DEF create_admission
<1>2. request.selected \in SUBSET Actors
      /\ request.budget \in [Fields -> U64 \cup {Unset}]
      /\ Profile[request.risk] \in Budget
  BY AdmissionConstants
<1>3. clamped(request.budget, Profile[request.risk]) \in Budget
  BY <1>2, ClampType
<1>4. [m \in Metrics |-> 0] \in Usage
  BY AdmissionConstants DEF Usage, U64
<1>5. admission = NoAdmission
  BY DEF create_admission, Missing
<1> QED
  BY <1>1, <1>2, <1>3, <1>4, <1>5 DEF Record, Status

\* The missing record is told apart from every stored one.
LEMMA NoAdmissionIsNoRecord == NoAdmission \notin Record
  BY AdmissionConstants DEF Record, Status

-----------------------------------------------------------------------------
(* Type correctness *)

CheckedReport == [step: {"checked"}, updated_by: Actors, provider: Actors, delta: Deltas]

\* The handlers' map stays a map; AdmissionTypeOK only speaks of its values.
Typed == AdmissionTypeOK /\ report \in [Handlers -> {NoReport} \cup CheckedReport]

\* A handler without a request has checked nothing.
LEMMA IdleIsNotChecked == NoReport.step # "checked"
  BY DEF NoReport

\* Every action keeps the record and the reports in their types.
LEMMA TypedStep == Typed /\ [AdmissionNext]_admission_vars => Typed'
<1> SUFFICES ASSUME Typed, [AdmissionNext]_admission_vars PROVE Typed'
  OBVIOUS
<1> USE DEF Typed, CheckedReport
<1>0. admission # NoAdmission => admission \in Record
  BY DEF AdmissionTypeOK
<1>1. CASE create_admission
  BY <1>1, CreatedRecord DEF AdmissionTypeOK, create_admission
<1>2. CASE transition
  <2>1. admission \in Record
    BY <1>0, <1>2 DEF transition, require_active
  <2>2. admission' \in Record
    BY <1>2, <2>1 DEF transition, Record, Status
  <2> QED
    BY <1>2, <2>2 DEF AdmissionTypeOK, transition
<1>3. ASSUME NEW h \in Handlers, report_usage(h)
      PROVE  Typed'
  <2>1. PICK actor \in Actors, provider \in Actors, delta \in Deltas :
          report' = [report EXCEPT ![h] =
                [step |-> "checked", updated_by |-> actor,
                 provider |-> provider, delta |-> delta]]
    BY <1>3 DEF report_usage
  <2>2. report' \in [Handlers -> {NoReport} \cup CheckedReport]
    BY <2>1
  <2> QED
    BY <1>3, <2>2 DEF AdmissionTypeOK, report_usage
<1>4. ASSUME NEW h \in Handlers, record_usage(h)
      PROVE  Typed'
  <2>1. report[h] \in CheckedReport
    BY <1>4, IdleIsNotChecked DEF record_usage
  <2>2. report' \in [Handlers -> {NoReport} \cup CheckedReport]
    BY <1>4 DEF record_usage
  <2>3. admission' \in Record \cup {NoAdmission}
    <3>1. CASE require_active /\ admission' = Charged(report[h].delta)
      <4>1. admission \in Record
        BY <1>0, <3>1 DEF require_active
      <4> QED
        BY <2>1, <3>1, <4>1, ChargeOutcome
    <3>2. CASE UNCHANGED admission
      BY <3>2 DEF AdmissionTypeOK
    <3> QED
      BY <1>4, <3>1, <3>2 DEF record_usage
  <2> QED
    BY <2>2, <2>3 DEF AdmissionTypeOK
<1>5. CASE UNCHANGED admission_vars
  BY <1>5 DEF admission_vars, AdmissionTypeOK
<1> QED
  BY <1>1, <1>2, <1>3, <1>4, <1>5 DEF AdmissionNext

\* Every counter of the admission record stays in u64, for any deltas and any number
\* of concurrent reports.
THEOREM AdmissionTypeCorrect == AdmissionSpec => []AdmissionTypeOK
<1>1. AdmissionInit => Typed
  BY DEF AdmissionInit, Typed, AdmissionTypeOK
<1> QED
  BY <1>1, TypedStep, PTL DEF AdmissionSpec, Typed

\* Typed, for the proofs below.
LEMMA TypedAlways == AdmissionSpec => []Typed
<1>1. AdmissionInit => Typed
  BY DEF AdmissionInit, Typed, AdmissionTypeOK
<1> QED
  BY <1>1, TypedStep, PTL DEF AdmissionSpec

\* The reports a handler holds, as the later proofs need them.
LEMMA RecordCases ==
    ASSUME Typed, NEW h \in Handlers, record_usage(h)
    PROVE  \/ /\ admission \in Record
              /\ admission.status = "active"
              /\ report[h].delta \in Deltas
              /\ admission' = Charged(report[h].delta)
           \/ UNCHANGED admission
<1>1. CASE require_active /\ admission' = Charged(report[h].delta)
  BY <1>1, IdleIsNotChecked DEF record_usage, Typed, AdmissionTypeOK, CheckedReport, require_active
<1> QED
  BY <1>1 DEF record_usage

-----------------------------------------------------------------------------
(* Budgets *)

\* No accepted total is ever above a ceiling of the budget.
THEOREM BudgetHolds == AdmissionSpec => []WithinBudget
<1>1. AdmissionInit => WithinBudget
  BY DEF AdmissionInit, WithinBudget
<1>2. Typed /\ WithinBudget /\ [AdmissionNext]_admission_vars => WithinBudget'
  <2> SUFFICES ASSUME Typed, WithinBudget, [AdmissionNext]_admission_vars PROVE WithinBudget'
    OBVIOUS
  <2>0. admission # NoAdmission => admission \in Record
    BY DEF Typed, AdmissionTypeOK
  <2>1. CASE create_admission
    <3>1. admission' \in Record /\ admission'.usage = [m \in Metrics |-> 0]
      BY <2>1, CreatedRecord
    <3>2. \A m \in Metrics : Ceiling(admission'.budget, m) \in Nat
      BY <3>1, CeilingType DEF Record
    <3>3. \A m \in Metrics : admission'.usage[m] <= Ceiling(admission'.budget, m)
      BY <3>1, <3>2
    <3> QED
      BY <3>3 DEF WithinBudget, Ceiling
  <2>2. CASE transition
    <3>1. admission \in Record
      BY <2>0, <2>2 DEF transition, require_active
    <3>2. admission'.usage = admission.usage /\ admission'.budget = admission.budget
      BY <2>2, <3>1 DEF transition, Record
    <3>3. \A m \in Metrics : admission.usage[m] <= Ceiling(admission.budget, m)
      BY <2>2 DEF transition, require_active, WithinBudget
    <3> QED
      BY <3>2, <3>3 DEF WithinBudget, Ceiling
  <2>3. ASSUME NEW h \in Handlers, record_usage(h)
        PROVE  WithinBudget'
    <3>1. CASE UNCHANGED admission
      BY <3>1 DEF WithinBudget, Ceiling
    <3>2. CASE /\ admission \in Record /\ report[h].delta \in Deltas
               /\ admission' = Charged(report[h].delta)
               /\ admission.status = "active"
      <4>1. admission' \in Record /\ admission'.budget = admission.budget
        BY <3>2, ChargeOutcome
      <4>2. CASE admission'.usage = admission.usage
        <5>1. \A m \in Metrics : admission.usage[m] <= Ceiling(admission.budget, m)
          BY <3>2, NoAdmissionIsNoRecord DEF WithinBudget
        <5> QED
          BY <4>1, <4>2, <5>1 DEF WithinBudget, Ceiling
      <4>3. CASE ~budget_violation(admission.budget, admission'.usage)
        <5>1. \A m \in Metrics : Ceiling(admission.budget, m) \in Nat
          BY <3>2, CeilingType DEF Record
        <5>2. \A m \in Metrics : admission'.usage[m] \in Nat
          BY <4>1, AdmissionConstants DEF Record, Usage, U64
        <5>3. \A m \in Metrics : admission'.usage[m] <= Ceiling(admission.budget, m)
          BY <4>3, <5>1, <5>2 DEF budget_violation
        <5> QED
          BY <4>1, <5>3 DEF WithinBudget, Ceiling
      <4> QED
        BY <3>2, <4>2, <4>3, ChargeOutcome
    <3> QED
      BY <2>3, <3>1, <3>2, RecordCases
  <2>4. CASE UNCHANGED admission
    BY <2>4 DEF WithinBudget, Ceiling
  <2> QED
    BY <2>1, <2>2, <2>3, <2>4 DEF AdmissionNext, report_usage, admission_vars
<1> QED
  BY <1>1, <1>2, TypedAlways, PTL DEF AdmissionSpec

\* An exhausted record always shows the one delta that did not fit.
THEOREM ExhaustedForCauseHolds == AdmissionSpec => []ExhaustedForCause
<1>1. AdmissionInit => ExhaustedForCause
  BY DEF AdmissionInit, ExhaustedForCause
<1>2. Typed /\ ExhaustedForCause /\ [AdmissionNext]_admission_vars => ExhaustedForCause'
  <2> SUFFICES ASSUME Typed, ExhaustedForCause, [AdmissionNext]_admission_vars
               PROVE  ExhaustedForCause'
    OBVIOUS
  <2>1. CASE create_admission
    <3>1. admission'.status = "active"
      BY <2>1, CreatedRecord
    <3> QED
      BY <3>1 DEF ExhaustedForCause
  <2>2. CASE transition
    <3>1. admission \in Record
      BY <2>2 DEF transition, require_active, Typed, AdmissionTypeOK
    <3>2. admission'.status \in {"completed", "cancelled"}
      BY <2>2, <3>1 DEF transition, Record
    <3> QED
      BY <3>2 DEF ExhaustedForCause
  <2>3. ASSUME NEW h \in Handlers, record_usage(h)
        PROVE  ExhaustedForCause'
    <3>1. CASE UNCHANGED admission
      BY <3>1 DEF ExhaustedForCause, attempted_totals, Overflows, budget_violation, Ceiling
    <3>2. CASE /\ admission \in Record /\ report[h].delta \in Deltas
               /\ admission' = Charged(report[h].delta)
               /\ admission.status = "active"
      <4> DEFINE delta == report[h].delta
      <4>1. admission'.budget = admission.budget
        BY <3>2, ChargeOutcome
      <4>2. CASE /\ admission'.usage = admission.usage
                 /\ admission'.rejected = {delta}
                 /\ LET attempted == attempted_totals(admission.usage, delta)
                    IN  Overflows(attempted) \/ budget_violation(admission.budget, attempted)
        <5>1. /\ admission'.rejected = {delta}
              /\ \/ Overflows(attempted_totals(admission'.usage, delta))
                 \/ budget_violation(admission'.budget,
                                     attempted_totals(admission'.usage, delta))
          BY <4>1, <4>2
        <5> QED
          BY <3>2, <5>1
          DEF ExhaustedForCause, attempted_totals, Overflows, budget_violation, Ceiling
      <4>3. CASE admission'.status = admission.status
        BY <3>2, <4>3 DEF ExhaustedForCause
      <4> QED
        BY <3>2, <4>2, <4>3, ChargeOutcome
    <3> QED
      BY <2>3, <3>1, <3>2, RecordCases
  <2>4. CASE UNCHANGED admission
    BY <2>4 DEF ExhaustedForCause, attempted_totals, Overflows, budget_violation, Ceiling
  <2> QED
    BY <2>1, <2>2, <2>3, <2>4 DEF AdmissionNext, report_usage, admission_vars
<1> QED
  BY <1>1, <1>2, TypedAlways, PTL DEF AdmissionSpec

-----------------------------------------------------------------------------
(* Ownership and progress of the record *)

\* One step never takes back what a record says: the action OnlyForward is about.
Forward ==
    admission # NoAdmission =>
        /\ admission' # NoAdmission
        /\ admission'.requested_by = admission.requested_by
        /\ admission'.selected = admission.selected
        /\ admission'.budget = admission.budget
        /\ \A m \in Metrics : admission.usage[m] <= admission'.usage[m]
        /\ admission.status # "active" => admission' = admission

\* Every step of a typed state is a forward step.
LEMMA ForwardStep == Typed /\ [AdmissionNext]_admission_vars => Forward
<1> SUFFICES ASSUME Typed, [AdmissionNext]_admission_vars, admission # NoAdmission
             PROVE  Forward
  BY DEF Forward
<1>0. admission \in Record /\ \A m \in Metrics : admission.usage[m] \in Nat
  BY AdmissionConstants DEF Typed, AdmissionTypeOK, Record, Usage, U64
<1>1. CASE create_admission
  BY <1>1, CreatedRecord
<1>2. CASE transition
  <2>1. admission.status = "active" /\ admission' \in Record
    BY <1>0, <1>2 DEF transition, require_active, Record, Status
  <2>2. /\ admission'.requested_by = admission.requested_by
        /\ admission'.selected = admission.selected
        /\ admission'.budget = admission.budget
        /\ admission'.usage = admission.usage
    BY <1>0, <1>2 DEF transition, Record
  <2>3. \A m \in Metrics : admission.usage[m] <= admission'.usage[m]
    BY <1>0, <2>2
  <2> QED
    BY <2>1, <2>2, <2>3, NoAdmissionIsNoRecord DEF Forward
<1>3. ASSUME NEW h \in Handlers, record_usage(h)
      PROVE  Forward
  <2>1. CASE UNCHANGED admission
    BY <1>0, <2>1 DEF Forward
  <2>2. CASE /\ report[h].delta \in Deltas
             /\ admission' = Charged(report[h].delta)
             /\ admission.status = "active"
    <3>1. /\ admission' \in Record
          /\ admission'.requested_by = admission.requested_by
          /\ admission'.selected = admission.selected
          /\ admission'.budget = admission.budget
      BY <1>0, <2>2, ChargeOutcome
    <3>2. \A m \in Metrics :
            admission.usage[m] <= attempted_totals(admission.usage, report[h].delta)[m]
      BY <1>0, <2>2, AttemptedTotals, AdmissionConstants DEF Record
    <3>3. \/ admission'.usage = admission.usage
          \/ admission'.usage = attempted_totals(admission.usage, report[h].delta)
      BY <1>0, <2>2, ChargeOutcome
    <3>4. \A m \in Metrics : admission.usage[m] <= admission'.usage[m]
      BY <1>0, <3>2, <3>3
    <3> QED
      BY <2>2, <3>1, <3>4, NoAdmissionIsNoRecord DEF Forward
  <2> QED
    BY <1>3, <2>1, <2>2, RecordCases
<1>4. CASE UNCHANGED admission
  BY <1>0, <1>4 DEF Forward
<1> QED
  BY <1>1, <1>2, <1>3, <1>4 DEF AdmissionNext, report_usage, admission_vars

\* Owner, selection and budget are fixed, totals only grow, and a terminal record
\* never changes, whatever is in flight when it becomes terminal.
THEOREM OnlyForwardHolds == AdmissionSpec => OnlyForward
<1>1. Typed /\ [AdmissionNext]_admission_vars => [Forward]_admission_vars
  BY ForwardStep
<1> QED
  BY <1>1, TypedAlways, PTL DEF AdmissionSpec, OnlyForward, Forward

\* The reporter checked before the lock is still the owner under the lock.
THEOREM ReporterStillOwnsHolds == AdmissionSpec => []ReporterStillOwns
<1>1. AdmissionInit => ReporterStillOwns
  BY IdleIsNotChecked DEF AdmissionInit, ReporterStillOwns
<1>2. Typed /\ ReporterStillOwns /\ [AdmissionNext]_admission_vars => ReporterStillOwns'
  <2> SUFFICES ASSUME Typed, ReporterStillOwns, [AdmissionNext]_admission_vars,
                      NEW k \in Handlers, report'[k].step = "checked"
               PROVE  /\ admission' # NoAdmission
                      /\ report'[k].updated_by = admission'.requested_by
    BY DEF ReporterStillOwns
  <2>1. CASE /\ report'[k] = report[k]
    <3>1. admission # NoAdmission /\ report[k].updated_by = admission.requested_by
      BY <2>1 DEF ReporterStillOwns
    <3>2. admission' # NoAdmission /\ admission'.requested_by = admission.requested_by
      BY <3>1, ForwardStep DEF Forward
    <3> QED
      BY <2>1, <3>1, <3>2
  <2>2. ASSUME NEW h \in Handlers, report_usage(h)
        PROVE  \/ report'[k] = report[k]
               \/ /\ admission' # NoAdmission
                  /\ report'[k].updated_by = admission'.requested_by
    BY <2>2 DEF report_usage, Typed
  <2>3. ASSUME NEW h \in Handlers, record_usage(h)
        PROVE  report'[k] = report[k]
    BY <2>3, IdleIsNotChecked DEF record_usage, Typed
  <2>4. CASE UNCHANGED report
    BY <2>1, <2>4
  <2> QED
    BY <2>1, <2>2, <2>3, <2>4 DEF AdmissionNext, create_admission, transition, admission_vars
<1> QED
  BY <1>1, <1>2, TypedAlways, PTL DEF AdmissionSpec

-----------------------------------------------------------------------------
(***************************************************************************)
(* BlindCompetition, for every set of agents, candidates and requests in    *)
(* flight.                                                                  *)
(*                                                                         *)
(* Neither the reveal nor a submission looks again at what it checked: the  *)
(* inductive invariant carries each request's check to its insertion.       *)
(* Submissions are inserted once and only by the workers of the plan, so a  *)
(* set that was complete at the check stays exactly the set of the workers. *)
(***************************************************************************)

\* Candidates are of the plan's workers.
OnlyWorkersSubmit ==
    /\ plan = None => Submitted = {}
    /\ plan # None => Submitted \subseteq plan.workers

\* The plan a creator holds is well formed, and it is the only one there will be.
OneCreator ==
    \A r \in BlindRequests : hand[r].pc = "create" =>
        /\ hand[r].asked \in Plan
        /\ plan = None
        /\ \A other \in BlindRequests : hand[other].pc = "create" => other = r

\* What a parked submission or reveal checked still holds.
ChecksHold ==
    \A r \in BlindRequests :
        /\ hand[r].pc = "submit" =>
              /\ plan # None /\ hand[r].viewer \in plan.workers
              /\ hand[r].content \in Drafts
        /\ hand[r].pc = "reveal" =>
              /\ plan # None /\ hand[r].viewer = plan.reviewer
              /\ Submitted = plan.workers

\* A request past its insertion answers for the candidate that is stored.
InHandIsStored ==
    \A r \in BlindRequests : hand[r].pc # "submit" /\ hand[r].content # None =>
        hand[r].viewer \in Agents /\ submission[hand[r].viewer] = hand[r].content

CompetitionInv ==
    /\ CompetitionTypeOK /\ OnlyWorkersSubmit /\ OneCreator /\ ChecksHold /\ InHandIsStored
    /\ BlindUntilRevealed /\ RevealedIsComplete /\ AnswerIsKept

-----------------------------------------------------------------------------
\* The invariant holds before a plan exists.
LEMMA InitIInv == CompetitionInit => CompetitionInv
BY NoneAssumption DEF CompetitionInit, CompetitionInv, CompetitionTypeOK, OnlyWorkersSubmit,
   OneCreator, ChecksHold,
   InHandIsStored, BlindUntilRevealed, RevealedIsComplete, AnswerIsKept, Free, Request,
   Viewers, Submitted

\* A plan holds agents, its reviewer none of its workers.
LEMMA PlanOfAgents ==
    ASSUME NEW p \in Plan
    PROVE  p.workers \subseteq Agents /\ p.reviewer \in Agents
           /\ p.reviewer \notin p.workers
BY RegisteredAssumption DEF Plan

-----------------------------------------------------------------------------
(* The steps.  Most only move a request: they keep what the invariant says  *)
(* of the entries, and the request they move carries nothing new.           *)

\* The creation up to its checks of the lineup.
LEMMA CreateKeeps ==
    ASSUME CompetitionInv, NEW r \in BlindRequests, NEW viewer \in Viewers,
           NEW workers \in Lineups,
           NEW reviewer \in Agents, create_blind_competition(r, viewer, workers, reviewer)
    PROVE  CompetitionInv'
<1>1. [workers |-> Range(workers), reviewer |-> reviewer] \in Plan
  BY DEF create_blind_competition, LineupAccepted, Plan
<1> QED BY <1>1 DEF CompetitionInv, create_blind_competition, At, Free, CompetitionTypeOK,
           OnlyWorkersSubmit, OneCreator, ChecksHold,
     InHandIsStored, BlindUntilRevealed, RevealedIsComplete, AnswerIsKept, Request, Submitted

\* The creator publishes its plan.
LEMMA InsertBlindPlanKeeps ==
    ASSUME CompetitionInv, NEW r \in BlindRequests, InsertBlindPlan(r)
    PROVE  CompetitionInv'
<1>1. hand[r].asked \in Plan /\ plan = None /\ reveal = None
  BY DEF CompetitionInv, InsertBlindPlan, At, OneCreator, RevealedIsComplete
<1>2. \A other \in BlindRequests : hand'[other].pc # "create"
  BY DEF CompetitionInv, CompetitionTypeOK, InsertBlindPlan, At, OneCreator
<1>3. CompetitionTypeOK' /\ OneCreator'
  <2>1. [hand[r] EXCEPT !.pc = "post", !.asked = None] \in Request
    BY DEF CompetitionInv, CompetitionTypeOK, Request
  <2>2. hand' \in [BlindRequests -> Request]
    BY <2>1 DEF CompetitionInv, CompetitionTypeOK, InsertBlindPlan
  <2> QED BY <1>1, <1>2, <2>2 DEF CompetitionInv, CompetitionTypeOK, OneCreator, InsertBlindPlan
<1>4. OnlyWorkersSubmit' /\ ChecksHold' /\ InHandIsStored'
  BY <1>1 DEF CompetitionInv, CompetitionTypeOK, OnlyWorkersSubmit, ChecksHold, InHandIsStored,
     InsertBlindPlan, At,
     Submitted, Request
<1>5. BlindUntilRevealed' /\ RevealedIsComplete' /\ AnswerIsKept'
  BY <1>1 DEF CompetitionInv, BlindUntilRevealed, RevealedIsComplete, AnswerIsKept,
     InsertBlindPlan
<1> QED BY <1>3, <1>4, <1>5 DEF CompetitionInv

\* The channel, a seat or the entry is refused: nothing is stored.
LEMMA CreateFailsKeeps ==
    ASSUME CompetitionInv, NEW r \in BlindRequests,
           CreateFails(r) \/ InsertRefused(r) \/ PostFails(r)
    PROVE  CompetitionInv'
BY DEF CompetitionInv, CreateFails, InsertRefused, PostFails, At, Answer, Free, Viewers,
   CompetitionTypeOK, OnlyWorkersSubmit, OneCreator, ChecksHold,
     InHandIsStored, BlindUntilRevealed, RevealedIsComplete, AnswerIsKept, Request, Submitted

\* submit_blind_competition up to the end of its checks.
LEMMA SubmitKeeps ==
    ASSUME CompetitionInv, NEW r \in BlindRequests, NEW viewer \in Viewers,
           NEW agentKey \in Agents,
           NEW content \in Drafts, submit_blind_competition(r, viewer, agentKey, content)
    PROVE  CompetitionInv'
BY DEF CompetitionInv, submit_blind_competition, At, Free, CompetitionTypeOK, OnlyWorkersSubmit,
   OneCreator, ChecksHold,
     InHandIsStored, BlindUntilRevealed, RevealedIsComplete, AnswerIsKept, Request, Submitted

\* The checked answer is inserted; its check still holds.
LEMMA InsertSubmissionKeeps ==
    ASSUME CompetitionInv, NEW r \in BlindRequests, InsertSubmission(r)
    PROVE  CompetitionInv'
BY PlanOfAgents, NoneAssumption DEF CompetitionInv, InsertSubmission, At, Goto,
   CompetitionTypeOK, OnlyWorkersSubmit, OneCreator, ChecksHold,
     InHandIsStored, BlindUntilRevealed, RevealedIsComplete, AnswerIsKept, Request, Submitted

\* reveal_blind_competition up to the end of its checks.
LEMMA RevealKeeps ==
    ASSUME CompetitionInv, NEW r \in BlindRequests, NEW viewer \in Viewers,
           reveal_blind_competition(r, viewer)
    PROVE  CompetitionInv'
BY DEF CompetitionInv, reveal_blind_competition, At, Free, CompetitionTypeOK, OnlyWorkersSubmit,
   OneCreator, ChecksHold,
     InHandIsStored, BlindUntilRevealed, RevealedIsComplete, AnswerIsKept, Request, Submitted

\* The reveal is inserted; the set of answers is still complete.
LEMMA InsertRevealKeeps ==
    ASSUME CompetitionInv, NEW r \in BlindRequests, InsertReveal(r)
    PROVE  CompetitionInv'
BY PlanOfAgents, NoneAssumption DEF CompetitionInv, InsertReveal, At, Goto, CompetitionTypeOK,
   OnlyWorkersSubmit, OneCreator, ChecksHold,
     InHandIsStored, BlindUntilRevealed, RevealedIsComplete, AnswerIsKept, Request, Submitted

\* The message after a change of state.
LEMMA PostMessageKeeps ==
    ASSUME CompetitionInv, NEW r \in BlindRequests, PostMessage(r)
    PROVE  CompetitionInv'
BY DEF CompetitionInv, PostMessage, At, Goto, CompetitionTypeOK, OnlyWorkersSubmit, OneCreator,
   ChecksHold,
     InHandIsStored, BlindUntilRevealed, RevealedIsComplete, AnswerIsKept, Request, Submitted

\* A view begins.
LEMMA GetKeeps ==
    ASSUME CompetitionInv, NEW r \in BlindRequests, NEW viewer \in Viewers,
           get_blind_competition(r, viewer)
    PROVE  CompetitionInv'
BY DEF CompetitionInv, get_blind_competition, At, Free, CompetitionTypeOK, OnlyWorkersSubmit,
   OneCreator, ChecksHold,
     InHandIsStored, BlindUntilRevealed, RevealedIsComplete, AnswerIsKept, Request, Submitted

\* build_view reads the answers.
LEMMA LoadSubmissionsKeeps ==
    ASSUME CompetitionInv, NEW r \in BlindRequests, LoadSubmissions(r)
    PROVE  CompetitionInv'
<1>1. CompetitionTypeOK'
  <2>1. Submitted \in SUBSET Agents
    BY DEF Submitted
  <2>2. [hand[r] EXCEPT !.pc = "loaded", !.list = Submitted] \in Request
    BY <2>1 DEF CompetitionInv, CompetitionTypeOK, Request
  <2>3. hand' \in [BlindRequests -> Request]
    BY <2>2 DEF CompetitionInv, CompetitionTypeOK, LoadSubmissions
  <2> QED BY <2>3 DEF CompetitionInv, CompetitionTypeOK, LoadSubmissions
<1>2. OnlyWorkersSubmit' /\ OneCreator' /\ ChecksHold' /\ InHandIsStored'
  <2> DEFINE S == Submitted
  <2>1. S' = S
    BY DEF LoadSubmissions, Submitted
  <2> QED BY <2>1 DEF CompetitionInv, CompetitionTypeOK, OnlyWorkersSubmit, OneCreator,
             ChecksHold,
          InHandIsStored, LoadSubmissions, At, Request
<1>3. BlindUntilRevealed' /\ RevealedIsComplete' /\ AnswerIsKept'
  BY DEF CompetitionInv, BlindUntilRevealed, RevealedIsComplete, AnswerIsKept, LoadSubmissions,
     Submitted
<1> QED BY <1>1, <1>2, <1>3 DEF CompetitionInv

\* build_view then looks for the reveal and answers.
LEMMA BuildViewKeeps ==
    ASSUME CompetitionInv, NEW r \in BlindRequests, build_view(r)
    PROVE  CompetitionInv'
BY DEF CompetitionInv, build_view, Visible, At, Answer, Free, Viewers, CompetitionTypeOK,
   OnlyWorkersSubmit, OneCreator, ChecksHold,
     InHandIsStored, BlindUntilRevealed, RevealedIsComplete, AnswerIsKept, Request, Submitted

-----------------------------------------------------------------------------
\* A step that changes nothing.
LEMMA StutterKeeps == CompetitionInv /\ UNCHANGED competition_vars => CompetitionInv'
BY DEF competition_vars, CompetitionInv, CompetitionTypeOK, OnlyWorkersSubmit, OneCreator,
   ChecksHold, InHandIsStored,
   BlindUntilRevealed, RevealedIsComplete, AnswerIsKept, Submitted

\* Every step keeps the invariant.
LEMMA NextKeeps == CompetitionInv /\ [CompetitionNext]_competition_vars => CompetitionInv'
<1> SUFFICES ASSUME CompetitionInv, CompetitionNext PROVE CompetitionInv'
  BY StutterKeeps
<1> QED BY CreateKeeps, InsertBlindPlanKeeps, CreateFailsKeeps, SubmitKeeps,
        InsertSubmissionKeeps, RevealKeeps, InsertRevealKeeps, PostMessageKeeps, GetKeeps,
        LoadSubmissionsKeeps, BuildViewKeeps DEF CompetitionNext

\* The inductive invariant holds throughout.
LEMMA CompetitionInvariance == CompetitionSpec => []CompetitionInv
BY InitIInv, NextKeeps, PTL DEF CompetitionSpec

\* The entries and the requests keep their types, and the plan stays well formed.
THEOREM CompetitionTypeCorrect == CompetitionSpec => []CompetitionTypeOK
<1>1. CompetitionInv => CompetitionTypeOK
  BY DEF CompetitionInv
<1> QED BY <1>1, CompetitionInvariance, PTL

\* Nobody is shown a candidate of somebody else before the reveal, however requests
\* interleave with the two reads of build_view.
THEOREM Blindness == CompetitionSpec => []BlindUntilRevealed
<1>1. CompetitionInv => BlindUntilRevealed
  BY DEF CompetitionInv
<1> QED BY <1>1, CompetitionInvariance, PTL

\* A reveal is of the reviewer and of the complete set, although the count and the
\* insertion are separate steps.
THEOREM CompleteReveal == CompetitionSpec => []RevealedIsComplete
<1>1. CompetitionInv => RevealedIsComplete
  BY DEF CompetitionInv
<1> QED BY <1>1, CompetitionInvariance, PTL

\* The candidate a worker was told is taken is the one that is stored.
THEOREM KeptAnswers == CompetitionSpec => []AnswerIsKept
<1>1. CompetitionInv => AnswerIsKept
  BY DEF CompetitionInv
<1> QED BY <1>1, CompetitionInvariance, PTL

\* Nothing is added to, or changed in, the set once it is revealed: a late insertion
\* finds its worker's entry there.
THEOREM FinalAfterReveal == CompetitionSpec => ClosedAfterReveal
<1>1. ASSUME CompetitionInv, CompetitionNext, reveal # None
      PROVE  submission' = submission /\ reveal' = reveal
  <2>1. ASSUME NEW r \in BlindRequests, InsertSubmission(r) PROVE FALSE
    BY <1>1, <2>1 DEF CompetitionInv, InsertSubmission, At, ChecksHold, RevealedIsComplete,
       Submitted
  <2>2. ASSUME NEW r \in BlindRequests, InsertReveal(r) PROVE FALSE
    BY <1>1, <2>2 DEF InsertReveal
  <2> QED BY <1>1, <2>1, <2>2 DEF CompetitionNext, create_blind_competition, InsertBlindPlan,
             CreateFails,
          submit_blind_competition, reveal_blind_competition, InsertRefused, PostMessage,
          PostFails, get_blind_competition, LoadSubmissions, build_view
<1>2. CompetitionInv /\ [CompetitionNext]_competition_vars =>
        [reveal # None => submission' = submission /\ reveal' = reveal]_competition_vars
  BY <1>1 DEF competition_vars
<1> QED BY <1>2, CompetitionInvariance, PTL DEF CompetitionSpec, ClosedAfterReveal

-----------------------------------------------------------------------------
(* The refinement.                                                          *)

\* The candidates a view has loaded are still there when it is built: entries are
\* never removed.
ListsStored == \A r \in BlindRequests : hand[r].list \subseteq Submitted

\* Stored answers are never taken back.
LEMMA SubmittedGrows ==
    ASSUME CompetitionInv, CompetitionNext
    PROVE  Submitted \subseteq Submitted'
<1>1. ASSUME NEW r \in BlindRequests, InsertSubmission(r) PROVE Submitted \subseteq Submitted'
  BY <1>1, NoneAssumption DEF CompetitionInv, CompetitionTypeOK, ChecksHold, InsertSubmission,
     At, Submitted
<1>2. ASSUME submission' = submission PROVE Submitted \subseteq Submitted'
  BY <1>2 DEF Submitted
<1> QED BY <1>1, <1>2 DEF CompetitionNext, create_blind_competition, InsertBlindPlan, CreateFails,
        submit_blind_competition, reveal_blind_competition, InsertReveal, InsertRefused,
        PostMessage, PostFails, get_blind_competition, LoadSubmissions, build_view

\* A snapshot lists only answers that are stored.
LEMMA ListsStoredKept ==
    CompetitionInv /\ ListsStored /\ [CompetitionNext]_competition_vars => ListsStored'
<1> SUFFICES ASSUME CompetitionInv, ListsStored, CompetitionNext, NEW r \in BlindRequests
             PROVE  hand'[r].list \subseteq Submitted'
  BY DEF ListsStored, competition_vars, Submitted
<1> USE DEF CompetitionInv, CompetitionTypeOK, Request
<1> DEFINE Kept == hand'[r].list \in {hand[r].list, {}, Submitted}
<1>1. ASSUME NEW q \in BlindRequests, InsertBlindPlan(q) \/ LoadSubmissions(q) PROVE Kept
  <2> DEFINE plain == [hand[q] EXCEPT !.pc = "post", !.asked = None]
             loaded == [hand[q] EXCEPT !.pc = "loaded", !.list = Submitted]
  <2>1. plain.list = hand[q].list /\ loaded.list = Submitted
    OBVIOUS
  <2>2. hand' = [hand EXCEPT ![q] = plain] \/ hand' = [hand EXCEPT ![q] = loaded]
    BY <1>1 DEF InsertBlindPlan, LoadSubmissions
  <2> HIDE DEF plain, loaded
  <2> QED BY <2>1, <2>2
<1>2. ASSUME NEW q \in BlindRequests,
             \/ InsertSubmission(q) \/ InsertReveal(q) \/ PostMessage(q)
      PROVE  Kept
  BY <1>2 DEF InsertSubmission, InsertReveal, PostMessage, Goto
<1>3. ASSUME NEW q \in BlindRequests,
             CreateFails(q) \/ InsertRefused(q) \/ PostFails(q) \/ build_view(q)
      PROVE  Kept
  BY <1>3 DEF CreateFails, InsertRefused, PostFails, build_view, Answer, Free
<1>4. ASSUME NEW q \in BlindRequests, NEW viewer \in Viewers,
             \/ \E workers \in Lineups, reviewer \in Agents :
                   create_blind_competition(q, viewer, workers, reviewer)
             \/ \E agentKey \in Agents, content \in Drafts :
                   submit_blind_competition(q, viewer, agentKey, content)
             \/ reveal_blind_competition(q, viewer) \/ get_blind_competition(q, viewer)
      PROVE  Kept
  <2>1. \E x : x.list = {} /\ hand' = [hand EXCEPT ![q] = x]
    <3>1. CASE \E workers \in Lineups, reviewer \in Agents :
                  create_blind_competition(q, viewer, workers, reviewer)
      BY <3>1 DEF create_blind_competition, Free
    <3>2. CASE \E agentKey \in Agents, content \in Drafts :
                  submit_blind_competition(q, viewer, agentKey, content)
      BY <3>2 DEF submit_blind_competition, Free
    <3>3. CASE reveal_blind_competition(q, viewer) \/ get_blind_competition(q, viewer)
      BY <3>3 DEF reveal_blind_competition, get_blind_competition, Free
    <3> QED BY <1>4, <3>1, <3>2, <3>3
  <2> QED BY <2>1
<1>5. Kept
  BY <1>1, <1>2, <1>3, <1>4 DEF CompetitionNext
<1> QED BY <1>5, SubmittedGrows DEF ListsStored

\* Snapshots list only stored answers throughout.
LEMMA ListsInvariance == CompetitionSpec => []ListsStored
<1>1. CompetitionInit => ListsStored
  BY DEF CompetitionInit, ListsStored, Free
<1> QED BY <1>1, CompetitionInvariance, ListsStoredKept, PTL DEF CompetitionSpec

\* Every step is a step of the sealed round, or leaves it alone.
LEMMA StepRefines ==
    ASSUME CompetitionInv, ListsStored, CompetitionNext
    PROVE  [Sealed!Next]_(Sealed!vars)
<1>1. ASSUME NEW r \in BlindRequests, InsertBlindPlan(r) PROVE Sealed!Convene
  BY <1>1, PlanOfAgents DEF CompetitionInv, OneCreator, InsertBlindPlan, At, Sealed!Convene, Plan
<1>2. ASSUME NEW r \in BlindRequests, InsertSubmission(r)
      PROVE  Sealed!Seal(hand[r].viewer, hand[r].content)
             /\ hand[r].viewer \in Agents /\ hand[r].content \in Drafts
  <2>1. plan # None /\ hand[r].viewer \in plan.workers /\ hand[r].content \in Drafts
    BY <1>2 DEF CompetitionInv, ChecksHold, InsertSubmission, At
  <2>2. hand[r].viewer \in Agents
    BY <2>1, PlanOfAgents DEF CompetitionInv, CompetitionTypeOK
  <2>3. reveal = None
    BY <1>2, <2>1, <2>2 DEF CompetitionInv, RevealedIsComplete, InsertSubmission, Submitted
  <2> QED BY <1>2, <2>1, <2>2, <2>3 DEF InsertSubmission, Sealed!Seal
<1>3. ASSUME NEW r \in BlindRequests, InsertReveal(r) PROVE Sealed!Open
  BY <1>3 DEF CompetitionInv, ChecksHold, InsertReveal, At, Sealed!Open, Sealed!Sealers, Submitted
<1>4. ASSUME NEW r \in BlindRequests, build_view(r)
      PROVE  \E v \in Sealed!Viewers, shown \in SUBSET Agents : Sealed!Look(v, shown)
  <2> DEFINE v == hand[r].viewer
             shown == Visible(v, hand[r].list)
  <2>1. v \in Sealed!Viewers /\ hand[r].list \subseteq Agents
    BY DEF CompetitionInv, CompetitionTypeOK, Request, Viewers, Sealed!Viewers
  <2>2. shown \subseteq hand[r].list /\ (reveal = None => shown \subseteq {v})
    BY DEF Visible
  <2>3. shown \subseteq Sealed!Sealers
    BY <2>2 DEF ListsStored, Submitted, Sealed!Sealers
  <2>4. Sealed!Look(v, shown)
    BY <1>4, <2>2, <2>3 DEF build_view, Sealed!Look
  <2> QED BY <2>1, <2>2, <2>4
<1>5. ASSUME UNCHANGED <<plan, submission, reveal, seen>> PROVE UNCHANGED Sealed!vars
  BY <1>5 DEF Sealed!vars
<1> QED BY <1>1, <1>2, <1>3, <1>4, <1>5 DEF Sealed!Next, CompetitionNext,
           create_blind_competition,
        CreateFails, submit_blind_competition, reveal_blind_competition, InsertRefused,
        PostMessage, PostFails, get_blind_competition, LoadSubmissions

\* The handlers implement a sealed round, for any number of agents and requests: create,
\* submit and reveal take effect at their insertions, a view at its second read.
THEOREM Refinement == CompetitionSpec => ImplementsSealedRound
<1>1. CompetitionInit => Sealed!Init
  BY DEF CompetitionInit, Sealed!Init, Viewers, Sealed!Viewers
<1>2. CompetitionInv /\ ListsStored /\ [CompetitionNext]_competition_vars =>
        [Sealed!Next]_(Sealed!vars)
  BY StepRefines DEF competition_vars, Sealed!vars
<1> QED BY <1>1, <1>2, CompetitionInvariance, ListsInvariance, PTL
        DEF CompetitionSpec, ImplementsSealedRound, Sealed!Spec

(***************************************************************************)
(* PolicyEngine: what a shortage of providers may do to a request.          *)
(***************************************************************************)

\* The orders of the policy.
LEMMA OrderFacts ==
    /\ Rank(RiskOrder, "low") = 1 /\ Rank(RiskOrder, "medium") = 2
    /\ Rank(RiskOrder, "high") = 3 /\ Rank(RiskOrder, "critical") = 4
    /\ Rank(ModeOrder, "single") = 1 /\ Rank(ModeOrder, "sequential") = 2
    /\ Rank(ModeOrder, "competitive") = 3 /\ Rank(ModeOrder, "consensus") = 4
    /\ \A i \in 1..4 : Rank(Behaviors, Behaviors[i]) = i
<1>1. /\ Rank(RiskOrder, "low") = 1 /\ Rank(RiskOrder, "medium") = 2
      /\ Rank(RiskOrder, "high") = 3 /\ Rank(RiskOrder, "critical") = 4
  <2>1. DOMAIN RiskOrder = {1, 2, 3, 4} /\ RiskOrder[1] = "low" /\ RiskOrder[2] = "medium"
        /\ RiskOrder[3] = "high" /\ RiskOrder[4] = "critical"
    BY DEF RiskOrder
  <2> QED BY <2>1 DEF Rank
<1>2. /\ Rank(ModeOrder, "single") = 1 /\ Rank(ModeOrder, "sequential") = 2
      /\ Rank(ModeOrder, "competitive") = 3 /\ Rank(ModeOrder, "consensus") = 4
  <2>1. DOMAIN ModeOrder = {1, 2, 3, 4} /\ ModeOrder[1] = "single" /\ ModeOrder[2] = "sequential"
        /\ ModeOrder[3] = "competitive" /\ ModeOrder[4] = "consensus"
    BY DEF ModeOrder
  <2> QED BY <2>1 DEF Rank
<1>3. \A i \in 1..4 : Rank(Behaviors, Behaviors[i]) = i
  <2>1. /\ DOMAIN Behaviors = {1, 2, 3, 4} /\ 1..4 = {1, 2, 3, 4}
        /\ \A i, j \in 1..4 : Behaviors[i] = Behaviors[j] => i = j
    BY DEF Behaviors
  <2> QED BY <2>1 DEF Rank
<1> QED BY <1>1, <1>2, <1>3

RiskNames == {"low", "medium", "high", "critical"}
ModeNames == {"single", "sequential", "competitive", "consensus"}
BehaviorNames == {Behaviors[1], Behaviors[2], Behaviors[3], Behaviors[4]}

\* A request of the types that serde accepts.
WellFormed(q) ==
    /\ q.risk \in RiskNames /\ q.write \in BOOLEAN
    /\ q.mode = None \/ q.mode \in ModeNames
    /\ q.degradation = None \/ q.degradation \in BehaviorNames
    /\ q.budget["providers"] = None \/ q.budget["providers"] \in Nat

LEMMA HigherFacts ==
    /\ \A x, y \in RiskNames : /\ Higher(RiskOrder, x, y) \in {x, y}
                               /\ Rank(RiskOrder, Higher(RiskOrder, x, y)) >= Rank(RiskOrder, x)
                               /\ Rank(RiskOrder, Higher(RiskOrder, x, y)) >= Rank(RiskOrder, y)
    /\ \A x, y \in ModeNames : Higher(ModeOrder, x, y) \in {x, y}
    /\ \A x, y \in BehaviorNames :
            /\ Higher(Behaviors, x, y) \in {x, y}
            /\ Rank(Behaviors, Higher(Behaviors, x, y)) >= Rank(Behaviors, x)
            /\ Rank(Behaviors, Higher(Behaviors, x, y)) >= Rank(Behaviors, y)
<1>1. \A x \in RiskNames : Rank(RiskOrder, x) \in 1..4
  BY OrderFacts DEF RiskNames
<1>2. \A x \in BehaviorNames : Rank(Behaviors, x) \in 1..4
  BY OrderFacts DEF BehaviorNames
<1> QED BY <1>1, <1>2 DEF Higher

LEMMA EffectiveRisk ==
    ASSUME NEW q, WellFormed(q)
    PROVE  effective_risk(q) \in RiskNames
BY HigherFacts DEF effective_risk, WellFormed, RiskNames

\* Only a request of low or medium risk that writes nothing, names no provider and needs no
\* special executor may go on with fewer providers, with approval unless its risk is low.
LEMMA BehaviorFacts ==
    ASSUME NEW risk \in RiskNames, NEW sensitivity, NEW write \in BOOLEAN, NEW requested,
           requested = None \/ requested \in BehaviorNames, NEW strict \in BOOLEAN
    PROVE  LET b == effective_degradation_behavior(
                        default_degradation_behavior(risk, sensitivity, write), requested, strict)
           IN  /\ b \in BehaviorNames
               /\ b \in {Behaviors[1], Behaviors[2]} =>
                     /\ ~strict /\ ~write /\ sensitivity # "restricted"
                     /\ risk \in {"low", "medium"}
               /\ b = Behaviors[1] => risk = "low"
<1> DEFINE default == default_degradation_behavior(risk, sensitivity, write)
           b == effective_degradation_behavior(default, requested, strict)
<1>1. /\ default \in BehaviorNames
      /\ Rank(Behaviors, default) <= 2 =>
            ~write /\ sensitivity # "restricted" /\ risk \in {"low", "medium"}
      /\ Rank(Behaviors, default) <= 1 => risk = "low"
  BY OrderFacts DEF default_degradation_behavior, BehaviorNames, RiskNames
<1> HIDE DEF default
<1>2. /\ b \in BehaviorNames /\ Rank(Behaviors, b) >= Rank(Behaviors, default)
      /\ strict => Rank(Behaviors, b) >= 3
  <2>1. \A x \in BehaviorNames : Rank(Behaviors, x) \in 1..4
    BY OrderFacts DEF BehaviorNames
  <2>2. Behaviors[3] \in BehaviorNames /\ Rank(Behaviors, Behaviors[3]) = 3
    BY OrderFacts DEF BehaviorNames
  <2> DEFINE chosen == IF requested = None THEN default ELSE Higher(Behaviors, requested, default)
  <2>3. chosen \in BehaviorNames /\ Rank(Behaviors, chosen) >= Rank(Behaviors, default)
    BY <1>1, <2>1, HigherFacts
  <2>4. b = IF strict THEN Higher(Behaviors, chosen, Behaviors[3]) ELSE chosen
    BY DEF effective_degradation_behavior
  <2> HIDE DEF chosen, b
  <2>5. CASE strict
    BY <1>1, <2>1, <2>2, <2>3, <2>4, <2>5, HigherFacts
  <2>6. CASE ~strict
    BY <2>3, <2>4, <2>6
  <2> QED BY <2>5, <2>6
<1> HIDE DEF b
<1>3. b \in {Behaviors[1], Behaviors[2]} => Rank(Behaviors, b) <= 2
  BY OrderFacts
<1>4. b = Behaviors[1] => Rank(Behaviors, b) <= 1
  BY OrderFacts
<1>5. Rank(Behaviors, b) \in 1..4 /\ Rank(Behaviors, default) \in 1..4
  BY <1>1, <1>2, OrderFacts DEF BehaviorNames
<1> QED BY <1>1, <1>2, <1>3, <1>4, <1>5 DEF b, default

LEMMA RequirementFacts ==
    ASSUME NEW q, WellFormed(q)
    PROVE  LET r == Requirements(q)
           IN  /\ r.risk \in RiskNames /\ r.mode \in ModeNames /\ r.behavior \in BehaviorNames
               /\ r.budget["providers"] \in Nat
               /\ r.behavior \in {Behaviors[1], Behaviors[2]} =>
                     /\ RequiredSelection(q) = {} /\ ~q.write /\ q.sensitivity # "restricted"
                     /\ r.risk \in {"low", "medium"}
               /\ r.behavior = Behaviors[1] => r.risk = "low"
<1> DEFINE risk       == effective_risk(q)
           base       == minimum_mode(risk, q.sensitivity, q.write)
           asked      == IF q.mode = None THEN base ELSE q.mode
           protocol   == IF q.protocol = None THEN default_protocol(asked) ELSE q.protocol
           required   == safer_mode(safer_mode(base, protocol_required_mode(protocol)),
                                    IF q.reviewer = None THEN "single" ELSE "consensus")
           budgetRisk == CASE required = "single"     -> risk
                           [] required = "sequential" -> Higher(RiskOrder, risk, "medium")
                           [] OTHER                   -> Higher(RiskOrder, risk, "high")
           final      == safer_mode(asked, required)
           selected   == selected_protocol(final, protocol)
           strict     == \/ RequiredSelection(q) # {}
                         \/ execution_target(selected) # "standard_workflow"
           r          == Requirements(q)
<1>1. risk \in RiskNames
  BY EffectiveRisk
<1>2. final \in ModeNames
  <2>1. base \in ModeNames /\ asked \in ModeNames
    BY DEF minimum_mode, ModeNames, WellFormed
  <2>2. protocol_required_mode(protocol) \in ModeNames
    BY DEF protocol_required_mode, ModeNames
  <2>3. required \in ModeNames
    BY <2>1, <2>2, HigherFacts DEF safer_mode, ModeNames
  <2> HIDE DEF required, asked
  <2> QED BY <2>1, <2>3, HigherFacts DEF safer_mode
<1>3. /\ r.risk = risk /\ r.mode = final
      /\ r.budget = clamp_budget(q.budget, budget_profile(budgetRisk))
      /\ r.behavior = effective_degradation_behavior(
                          default_degradation_behavior(risk, q.sensitivity, q.write),
                          q.degradation, strict)
  BY DEF Requirements, RequirementsAt
<1>4. r.budget["providers"] \in Nat
  <2> HIDE DEF budgetRisk
  <2>1. "providers" \in DOMAIN budget_profile(budgetRisk)
        /\ budget_profile(budgetRisk)["providers"] \in Nat /\ ABS_MAX["providers"] \in Nat
    BY DEF budget_profile, ABS_MAX
  <2> QED BY <1>3, <2>1 DEF clamp_budget, AtMost, AtLeast, WellFormed
<1> HIDE DEF r, risk, final, strict
<1>5. strict \in BOOLEAN /\ (~strict => RequiredSelection(q) = {})
  BY DEF strict
<1> QED BY <1>1, <1>2, <1>3, <1>4, <1>5, BehaviorFacts DEF WellFormed, r

\* An execution has the mode, the target and the approval it was decided with.
LEMMA ExecuteFacts ==
    ASSUME NEW q, NEW r, NEW ranked, NEW d, NEW selectable,
           Execute(q, r, ranked, d, selectable).allowed
    PROVE  LET e == Execute(q, r, ranked, d, selectable)
           IN  /\ e.mode = d.mode /\ e.target = execution_target(d.protocol)
               /\ e.approval = d.approval
BY DEF Execute, Concluded, NotExecuted, Decision

\* Whatever the providers and their order, fewer than a request needs weaken it only below
\* high risk: a request that writes, names providers or needs a special executor, or whose
\* risk is high, keeps its mode or is not executed, and a medium one needs approval.
THEOREM DegradationIsSafe ==
    ASSUME NEW q, WellFormed(q), NEW S, NEW ranked \in Seq(S)
    PROVE  SafeDegradation(q, Evaluated(q, Requirements(q), ranked), Requirements(q))
<1> DEFINE r          == Requirements(q)
           selectable == AtMost(r.budget["providers"], Len(ranked))
           e          == Evaluated(q, r, ranked)
           asAsked    == [mode |-> r.mode, protocol |-> r.protocol, approval |-> r.approval]
           less       == Degraded(r, selectable)
<1>0. /\ r.risk \in RiskNames /\ r.mode \in ModeNames /\ r.behavior \in BehaviorNames
      /\ r.budget["providers"] \in Nat
      /\ r.behavior \in {Behaviors[1], Behaviors[2]} =>
            /\ RequiredSelection(q) = {} /\ ~q.write /\ q.sensitivity # "restricted"
            /\ r.risk \in {"low", "medium"}
      /\ r.behavior = Behaviors[1] => r.risk = "low"
  BY RequirementFacts
<1>1. selectable \in Nat
  BY <1>0 DEF AtMost
<1> HIDE DEF r
<1> SUFFICES ASSUME e.allowed
             PROVE  \/ Rank(ModeOrder, e.mode) >= Rank(ModeOrder, r.mode)
                    \/ /\ Rank(RiskOrder, r.risk) <= 2 /\ ~q.write
                       /\ RequiredSelection(q) = {}
                       /\ e.target = "standard_workflow"
                       /\ Rank(ModeOrder, e.mode)
                            >= Rank(ModeOrder, minimum_mode(r.risk, q.sensitivity, q.write))
                       /\ r.risk = "medium" => e.approval
  BY DEF SafeDegradation, r
<1> HIDE DEF selectable
<1>2. e = Weighed(q, r, ranked, selectable)
  BY DEF Evaluated, selectable
<1> HIDE DEF e
<1>3. \/ e = Execute(q, r, ranked, asAsked, selectable)
      \/ /\ e = Execute(q, r, ranked, less, selectable)
         /\ r.behavior \notin {Behaviors[3], Behaviors[4]} /\ selectable # 0
  BY <1>2 DEF Weighed, NotExecuted, Decision
<1>4. CASE e = Execute(q, r, ranked, asAsked, selectable)
  <2>1. e.mode = r.mode
    BY <1>4, ExecuteFacts
  <2> QED BY <1>0, <2>1, OrderFacts DEF ModeNames
<1>5. CASE /\ e = Execute(q, r, ranked, less, selectable)
           /\ r.behavior \notin {Behaviors[3], Behaviors[4]} /\ selectable # 0
  <2> HIDE DEF less
  <2>1. e.mode = less.mode /\ e.target = execution_target(less.protocol) /\ e.approval = less.approval
    BY <1>5, ExecuteFacts
  <2>2. r.behavior \in {Behaviors[1], Behaviors[2]}
    BY <1>0, <1>5 DEF BehaviorNames
  <2>3. /\ less.mode \in ModeNames /\ execution_target(less.protocol) = "standard_workflow"
        /\ r.behavior = Behaviors[2] => less.approval
    <3>1. CASE r.behavior = Behaviors[2]
      BY <3>1 DEF less, Degraded, ModeNames, execution_target
    <3>2. CASE r.behavior # Behaviors[2]
      <4>1. highest_feasible_mode(selectable) \in ModeNames
        BY <1>1, <1>5 DEF highest_feasible_mode, ModeNames
      <4>2. less.mode \in ModeNames /\ less.protocol = default_protocol(less.mode)
        BY <1>0, <3>2, <4>1 DEF less, Degraded
      <4> QED BY <3>2, <4>2 DEF ModeNames, default_protocol, execution_target
    <3> QED BY <3>1, <3>2
  <2>4. minimum_mode(r.risk, q.sensitivity, q.write) = "single"
    BY <1>0, <2>2 DEF minimum_mode
  <2>5. Rank(ModeOrder, e.mode) >= Rank(ModeOrder, minimum_mode(r.risk, q.sensitivity, q.write))
    BY <2>1, <2>3, <2>4, OrderFacts DEF ModeNames
  <2>6. Rank(RiskOrder, r.risk) <= 2
    BY <1>0, <2>2, OrderFacts
  <2>7. r.risk = "medium" => e.approval
    BY <1>0, <2>1, <2>2, <2>3
  <2> QED BY <1>0, <2>1, <2>2, <2>3, <2>5, <2>6, <2>7
<1> QED BY <1>3, <1>4, <1>5
=============================================================================
