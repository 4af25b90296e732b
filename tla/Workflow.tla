------------------------------ MODULE Workflow ------------------------------
(***************************************************************************)
(* One workflow of the bridge (src/src/orchestration): how its assignments *)
(* are built, how submissions are validated, recorded and announced, and   *)
(* the status other parts act on.                                          *)
(*                                                                         *)
(* The plan and the submissions are context entries of the workflow's      *)
(* channel.  A submission is validated against a snapshot of the entries   *)
(* without a lock, recorded later under the workflow-context lock, which   *)
(* only checks that the key is new, and announced in the channel after     *)
(* that; concurrent and repeated submissions interleave at each point.     *)
(***************************************************************************)
EXTENDS Integers, FiniteSets, Sequences, SequencesExt

CONSTANTS
    KeyOrder,         \* registered agents, in the order of their keys
    Humans,           \* agents of kind human
    Capable,          \* agents that advertise the required capabilities
    OfKind,           \* agents of a requested kind
    Requested,        \* the agent_keys lists a creator may send
    Modes,            \* subset of the four workflow modes
    WorkerCounts,     \* the worker_count values a creator may send
    Contents,         \* submission contents
    Threads,          \* handler threads of submit_workflow
    MAX_ASSIGNMENTS,  \* 30
    NoAgent           \* no reviewer / no current agent

Registered == Range(KeyOrder)
NoCount == -1

ASSUME WorkflowConstants ==
    /\ KeyOrder \in Seq(Registered)
    /\ \A i, j \in DOMAIN KeyOrder : KeyOrder[i] = KeyOrder[j] => i = j
    /\ Requested \subseteq Seq(Registered)
    /\ Modes \subseteq {"single", "sequential", "competitive", "consensus"}
    /\ WorkerCounts \subseteq Nat \cup {NoCount}
    /\ MAX_ASSIGNMENTS \in Nat
    /\ NoAgent \notin Registered

VARIABLES
    phase,        \* none -> channel -> planned -> announced, or failed on the way
    mode,         \* plan.mode
    assignments,  \* plan.assignments
    submissions,  \* recorded submissions: ordinal -> [agent_key, content]
    announced,    \* ordinals of the submission messages posted, in order
    req           \* the parked submission of each handler thread

vars == <<phase, mode, assignments, submissions, announced, req>>

-----------------------------------------------------------------------------
(* Planning *)

MinOf(a, b) == IF a < b THEN a ELSE b

\* The elements of s at the places I, in their order: the k-th is the one that has k of
\* the places up to its own.
AtPlaces(s, I) ==
    [k \in 1 .. Cardinality(I) |-> s[CHOOSE i \in I : Cardinality({j \in I : j <= i}) = k]]

\* First occurrences only.
Deduplicated(s) == AtPlaces(s, {i \in DOMAIN s : \A j \in 1 .. i - 1 : s[j] # s[i]})

\* An explicit list is taken in its order and must be capable throughout;
\* otherwise every capable agent of a requested kind that is not a human, in key order.
\* The empty sequence stands for the error.
select_candidates(requested) ==
    IF requested # <<>>
    THEN IF Range(requested) \subseteq Capable THEN Deduplicated(requested) ELSE <<>>
    ELSE AtPlaces(KeyOrder, {i \in DOMAIN KeyOrder : KeyOrder[i] \in (Capable \cap OfKind) \ Humans})

\* The reviewer the creator named is none of the candidates.
Candidates(requested, reviewer) ==
    LET selected == select_candidates(requested)
    IN  AtPlaces(selected, {i \in DOMAIN selected : selected[i] # reviewer})

normalized_worker_count(requested, default) == IF requested = NoCount THEN default ELSE requested

MinWorkers(m) == IF m \in {"competitive", "consensus"} THEN 2 ELSE 1

\* How many workers the plan has, before the bounds are checked.
WorkerCount(m, n, wc, reviewer) ==
    CASE m = "single" -> 1
      [] m \in {"sequential", "competitive"} ->
            normalized_worker_count(wc, MinOf(n, 3))
      [] m = "consensus" ->
            normalized_worker_count(wc, MinOf(IF reviewer = NoAgent THEN n - 1 ELSE n, 3))

\* Without an explicit reviewer, the candidate after the workers.
ReviewerFor(candidates, wc, reviewer) ==
    LET n == Len(candidates)
        k == normalized_worker_count(wc, MinOf(n - 1, 3))
    IN  IF reviewer # NoAgent THEN reviewer
        ELSE IF n >= 3 /\ k + 1 <= n THEN candidates[k + 1] ELSE NoAgent

\* The conditions under which build_assignments does not return an error.
Buildable(m, candidates, wc, reviewer) ==
    LET n == Len(candidates)
        k == WorkerCount(m, n, wc, reviewer)
        rev == ReviewerFor(candidates, wc, reviewer)
    IN  /\ n > 0
        /\ m = "single" => wc \in {NoCount, 1}
        /\ MinWorkers(m) <= k /\ k <= n /\ k <= MAX_ASSIGNMENTS
        /\ m = "consensus" =>
            /\ rev # NoAgent
            /\ \A i \in 1 .. k : candidates[i] # rev
            /\ k + 1 <= MAX_ASSIGNMENTS

\* Mutant: a consensus reviewer is taken in as one more worker.
build_without_reviewer(m, candidates, wc, reviewer) ==
    LET k == WorkerCount(m, Len(candidates), wc, reviewer)
    IN  [i \in 1 .. IF m = "consensus" THEN k + 1 ELSE k |->
            [ordinal |-> i - 1, role |-> "worker",
             agent_key |-> IF i <= k THEN candidates[i]
                           ELSE ReviewerFor(candidates, wc, reviewer)]]

build_assignments(m, candidates, wc, reviewer) ==
    LET k == WorkerCount(m, Len(candidates), wc, reviewer)
    IN  [i \in 1 .. IF m = "consensus" THEN k + 1 ELSE k |->
            [ordinal |-> i - 1,
             role |-> IF i <= k THEN "worker" ELSE "reviewer",
             agent_key |-> IF i <= k THEN candidates[i]
                           ELSE ReviewerFor(candidates, wc, reviewer)]]

-----------------------------------------------------------------------------
(* Status and turn, as functions of the recorded ordinals *)

Workers == {i \in DOMAIN assignments : assignments[i].role = "worker"}
Reviewers == {i \in DOMAIN assignments : assignments[i].role = "reviewer"}
Pending(have) == {i \in Workers : assignments[i].ordinal \notin have}
FirstOf(S) == CHOOSE i \in S : \A j \in S : i <= j
AgentsOf(S) == {assignments[i].agent_key : i \in S}

\* Mutant: a consensus is complete once its workers are.
status_skips_review(have) ==
    LET open == Pending(have)
    IN  IF open = {} THEN [stage |-> "completed", current |-> NoAgent, pending |-> {}]
        ELSE [stage |-> IF have = {} THEN "ready" ELSE "running",
              current |-> IF mode \in {"sequential", "single"}
                          THEN assignments[FirstOf(open)].agent_key ELSE NoAgent,
              pending |-> AgentsOf(open)]

\* stage, current_agent_key and pending_agents of WorkflowStatus.
workflow_status(have) ==
    LET open == Pending(have)
        started == IF have = {} THEN "ready" ELSE "running"
        completed == [stage |-> "completed", current |-> NoAgent, pending |-> {}]
    IN  CASE open # {} ->
                [stage |-> started,
                 current |-> IF mode \in {"sequential", "single"}
                             THEN assignments[FirstOf(open)].agent_key ELSE NoAgent,
                 pending |-> AgentsOf(open)]
          [] open = {} /\ mode = "consensus" /\ Reviewers # {} ->
                LET r == assignments[FirstOf(Reviewers)]
                IN  IF r.ordinal \in have THEN completed
                    ELSE [stage |-> "awaiting_review", current |-> r.agent_key,
                          pending |-> {r.agent_key}]
          [] OTHER -> completed

\* Mutant: a reviewer need not wait for the workers.
turn_reviewer_any_time(i, have) ==
    LET a == assignments[i]
    IN  /\ a.ordinal \notin have
        /\ mode = "sequential" => i \in Pending(have) /\ \A j \in Pending(have) : i <= j
        /\ mode \in {"single", "competitive"} => a.role = "worker"

\* Mutant: the place in a sequence is not looked at.
turn_ignores_sequence(i, have) ==
    LET a == assignments[i]
    IN  /\ a.ordinal \notin have
        /\ mode = "consensus" =>
            IF a.role = "worker"
            THEN \A r \in Reviewers : assignments[r].ordinal \notin have
            ELSE Pending(have) = {}
        /\ mode \in {"single", "competitive"} => a.role = "worker"

validate_submission_turn(i, have) ==
    LET a == assignments[i]
    IN  /\ a.ordinal \notin have
        /\ mode = "sequential" => i \in Pending(have) /\ \A j \in Pending(have) : i <= j
        /\ mode = "consensus" =>
            IF a.role = "worker"
            THEN \A r \in Reviewers : assignments[r].ordinal \notin have
            ELSE Pending(have) = {}
        /\ mode \in {"single", "competitive"} => a.role = "worker"

-----------------------------------------------------------------------------
(* Operations *)

Idle == [step |-> "idle"]

Init ==
    /\ phase = "none"
    /\ mode = "single"
    /\ assignments = <<>>
    /\ submissions = [o \in {} |-> Idle]
    /\ announced = <<>>
    /\ req = [t \in Threads |-> Idle]

\* create_workflow: plan, then the channel and a seat for every assignment.  The
\* plan is only a local value of the handler until it is inserted.
CreateChannel ==
    /\ phase = "none"
    /\ \E m \in Modes, requested \in Requested, wc \in WorkerCounts,
          reviewer \in Registered \cup {NoAgent} :
        LET candidates == Candidates(requested, reviewer)
        IN  /\ Buildable(m, candidates, wc, reviewer)
            /\ mode' = m
            /\ assignments' = build_assignments(m, candidates, wc, reviewer)
    /\ phase' = "channel"
    /\ UNCHANGED <<submissions, announced, req>>

\* insert_workflow_context of the plan.  From here on the workflow is listed.
InsertPlan ==
    /\ phase = "channel"
    /\ phase' = "planned"
    /\ UNCHANGED <<mode, assignments, submissions, announced, req>>

\* The creation message; a room without a seat for the creator fails the request,
\* and the workflow exists all the same.
AnnounceCreated ==
    /\ phase = "planned"
    /\ phase' \in {"announced", "failed"}
    /\ UNCHANGED <<mode, assignments, submissions, announced, req>>

Listed == phase \in {"planned", "announced", "failed"}

done == DOMAIN submissions

\* submit_workflow up to its validation against a snapshot of the submissions.
SubmitValidate(t) ==
    /\ req[t] = Idle /\ Listed
    /\ \E i \in DOMAIN assignments, c \in Contents :
        /\ validate_submission_turn(i, done)
        /\ req' = [req EXCEPT ![t] =
                [step |-> "validated", ordinal |-> assignments[i].ordinal,
                 agent_key |-> assignments[i].agent_key, content |-> c]]
    /\ UNCHANGED <<phase, mode, assignments, submissions, announced>>

\* Mutant: the insert does not look for an existing key.
recordable_always(ordinal) == TRUE

Recordable(ordinal) == ordinal \notin done

\* insert_workflow_context of the submission, or "already exists".
SubmitRecord(t) ==
    LET q == req[t]
    IN  /\ q.step = "validated"
        /\ \/ /\ Recordable(q.ordinal)
              /\ submissions' = [o \in done \cup {q.ordinal} |->
                    IF o = q.ordinal
                    THEN [agent_key |-> q.agent_key, content |-> q.content]
                    ELSE submissions[o]]
              /\ req' = [req EXCEPT ![t].step = "recorded"]
           \/ /\ ~Recordable(q.ordinal)
              /\ req' = [req EXCEPT ![t] = Idle]
              /\ UNCHANGED submissions
        /\ UNCHANGED <<phase, mode, assignments, announced>>

\* The submission message.  If the agent lost its seat to others it fails and the
\* client sees an error for a submission that is recorded.
SubmitAnnounce(t) ==
    /\ req[t].step = "recorded"
    /\ req' = [req EXCEPT ![t] = Idle]
    /\ announced' \in {announced, Append(announced, req[t].ordinal)}
    /\ UNCHANGED <<phase, mode, assignments, submissions>>

Submit(t) == SubmitValidate(t) \/ SubmitRecord(t) \/ SubmitAnnounce(t)

Next == CreateChannel \/ InsertPlan \/ AnnounceCreated \/ \E t \in Threads : Submit(t)

Spec == Init /\ [][Next]_vars

-----------------------------------------------------------------------------
(* Properties *)

Assignment == [ordinal: Nat, role: {"worker", "reviewer"}, agent_key: Registered]
Submission == [agent_key: Registered, content: Contents]

\* Every variable stays in its domain; what is recorded or in flight belongs to
\* an assignment of the plan.
TypeOK ==
    /\ phase \in {"none", "channel", "planned", "announced", "failed"}
    /\ mode \in {"single", "sequential", "competitive", "consensus"}
    /\ assignments \in Seq(Assignment)
    /\ \A i \in DOMAIN assignments : assignments[i].ordinal = i - 1
    /\ done \subseteq {assignments[i].ordinal : i \in DOMAIN assignments}
    /\ submissions \in [done -> Submission]
    /\ announced \in Seq(Nat)
    /\ \A t \in Threads :
        \/ req[t] = Idle
        \/ /\ req[t] \in [step: {"validated", "recorded"}, ordinal: Nat,
                          agent_key: Registered, content: Contents]
           /\ req[t].ordinal + 1 \in DOMAIN assignments

\* docs/workflow-orchestration.md: every plan seats distinct agents, numbered in
\* order; only consensus has a reviewer, exactly one, after at least two workers;
\* no plan is larger than MAX_ASSIGNMENTS.
PlanWellFormed ==
    phase # "none" =>
        /\ assignments # <<>> /\ Len(assignments) <= MAX_ASSIGNMENTS
        /\ \A i, j \in DOMAIN assignments :
            assignments[i].agent_key = assignments[j].agent_key => i = j
        /\ Reviewers = IF mode = "consensus" THEN {Len(assignments)} ELSE {}
        /\ Cardinality(Workers) >= MinWorkers(mode)
        /\ mode = "single" => Cardinality(Workers) = 1

\* Sequential workers are recorded strictly in plan order, although each is
\* validated against a snapshot that is stale when it is recorded.
SequentialOrder ==
    mode = "sequential" =>
        \A i, j \in DOMAIN assignments :
            i < j /\ assignments[j].ordinal \in done => assignments[i].ordinal \in done

\* A consensus review is recorded only on top of every worker's submission.
ReviewerLast ==
    mode = "consensus" =>
        \A r \in Reviewers : assignments[r].ordinal \in done => Pending(done) = {}

\* A recorded submission is never replaced or removed, whatever a duplicate or
\* late request carries.
SubmissionsImmutable ==
    [][\A o \in done : o \in done' /\ submissions'[o] = submissions[o]]_vars

\* At most one message announces an ordinal, and only one that is recorded:
\* readers of the channel never count a submission twice.
AnnouncedOnce ==
    /\ Range(announced) \subseteq done
    /\ \A i, j \in DOMAIN announced : announced[i] = announced[j] => i = j

\* The status and the turn check agree, although they are separate functions:
\* the agents whose submission would pass are the current agent or, where there
\* is none, the pending ones; nobody in a completed workflow.
StatusAgreesWithTurn ==
    Listed =>
        LET status == workflow_status(done)
            may == {assignments[i].agent_key :
                       i \in {k \in DOMAIN assignments : validate_submission_turn(k, done)}}
        IN  may = IF status.current # NoAgent THEN {status.current} ELSE status.pending

\* What agents are told of a workflow is what is recorded of it: the messages in the
\* channel, and the status that submit_workflow and get_workflow return.
ToldAsRecorded == AnnouncedOnce /\ StatusAgreesWithTurn
=============================================================================
