---------------------------- MODULE RunnerFleet ----------------------------
(***************************************************************************)
(* Replicas of the provider runner (src/src/runner) working on one         *)
(* workflow: they poll the bridge, claim assignments at the control plane, *)
(* reserve budget, call the vendor, retry, account for the answer and      *)
(* submit it.  The bridge keeps admission and submissions; it checks the   *)
(* claim of a submission before it records it (assignment_claims.rs).      *)
(*                                                                         *)
(* Every HTTP request may be lost, or be carried out with its answer lost; *)
(* a runner treats both as an error.  A submission may also be carried out *)
(* long after its sender gave it up.  A runner may crash at any moment and *)
(* come back.  Of the budget only output tokens are counted, the metric    *)
(* the runner itself reads; PolicyAdmission has all of them.  That a usage *)
(* report checks its reporter before it takes the lock makes no difference *)
(* (PolicyAdmission!ReporterStillOwns), so a report is one step here.      *)
(*                                                                         *)
(* A claim's fencing token is only ever compared with the one the control  *)
(* plane has now; a flag, live, on whoever carries it stands for "equal".  *)
(* It falls when the claim is released or expires, and never rises again.  *)
(***************************************************************************)
EXTENDS Integers, FiniteSets, Sequences, FiniteSetsExt

CONSTANTS
    Runners,         \* runner instances
    ActorOf,         \* runner -> the name its admission requests carry
    Plan,            \* the assignments of the workflow, as in Workflow
    PlanMode,        \* its mode
    MaxConcurrency,  \* permits of one runner
    MaxRetries,      \* retry policy: retries of one attempt
    Allowance,       \* max_output_tokens of a request
    Overages,        \* tokens by which a vendor's answer may exceed its request
    MaxPrior,        \* earlier results that MAX_PRIOR_CONTEXT_BYTES has room for
    TokenBudget,     \* max_output_tokens of the admission
    FileLease,       \* whether the plan requires a file lease
    NoRunner, NoAgent, NoAdmission

\* An admission record, of the budget's counters the one the runner reads.
Admission == [owner: {ActorOf[r] : r \in Runners},
              status: {"active", "exhausted", "completed", "cancelled"},
              used: Nat, reports: Nat]

ASSUME FleetConstants ==
    /\ IsFiniteSet(Runners)
    /\ MaxConcurrency \in Nat \ {0} /\ MaxRetries \in Nat
    /\ Allowance \in Nat \ {0} /\ TokenBudget \in Nat
    /\ Overages \subseteq Nat /\ MaxPrior \in Nat
    /\ FileLease \in BOOLEAN
    /\ NoRunner \notin Runners /\ NoAdmission \notin Admission

\* The plan is one that create_workflow makes (Workflow!PlanWellFormed).
ASSUME PlanConstants ==
    /\ PlanMode \in {"single", "sequential", "competitive", "consensus"}
    /\ Plan \in Seq({Plan[i] : i \in DOMAIN Plan})
    /\ \A i \in DOMAIN Plan :
        /\ Plan[i].ordinal = i - 1 /\ Plan[i].agent_key # NoAgent
        /\ Plan[i].role = IF PlanMode = "consensus" /\ i = Len(Plan) THEN "reviewer" ELSE "worker"
    /\ \A i, j \in DOMAIN Plan : Plan[i].agent_key = Plan[j].agent_key => i = j

Ordinals == {Plan[i].ordinal : i \in DOMAIN Plan}
Tasks == Runners \X Ordinals

VARIABLES
    up,           \* runner -> "up", "draining" or "down"
    poll,         \* runner -> the submissions its pass has seen, or "none"
    task,         \* (runner, ordinal) -> the task executing the assignment
    claim,        \* ordinal -> the holder of its claim at the control plane
    posts,        \* submission requests on their way or in a bridge handler
    admission,    \* the admission record
    submissions,  \* ordinals of the recorded submissions
    spent         \* history: output tokens of the vendor calls started

vars == <<up, poll, task, claim, posts, admission, submissions, spent>>
bridge == <<posts, admission, submissions>>

\* The bridge's view of the plan: status and turn, as Workflow defines them.
W == INSTANCE Workflow WITH
        KeyOrder <- [i \in DOMAIN Plan |-> Plan[i].agent_key], Humans <- {}, Capable <- {},
        OfKind <- {}, Requested <- {}, Modes <- {PlanMode}, WorkerCounts <- {},
        Contents <- {}, Threads <- {}, MAX_ASSIGNMENTS <- Len(Plan),
        phase <- "announced", mode <- PlanMode, assignments <- Plan,
        submissions <- <<>>, announced <- <<>>, req <- <<>>

AgentOf(o) == Plan[o + 1].agent_key

\* o is open: not submitted, and its agent's turn has come.
Pending(o, have) == o \notin have /\ AgentOf(o) \in W!workflow_status(have).pending

-----------------------------------------------------------------------------
(* The bridge's admission and the control plane's claims *)

Active == admission # NoAdmission /\ admission.status = "active"
Owns(r) == Active /\ admission.owner = ActorOf[r]

\* What record_usage makes of a report of the owner that asks for n more tokens:
\* accepted, or the record is exhausted, by tokens or by another ceiling.
Charge(n) ==
    /\ admission.used + n <= TokenBudget
    /\ admission' = [admission EXCEPT !.used = @ + n]

Exhaust == admission' = [admission EXCEPT !.status = "exhausted"]

\* The control plane ends the present grant of o: its token is stale everywhere.
Stale(tasks, o) == [t \in Tasks |-> IF t[2] = o THEN [tasks[t] EXCEPT !.live = FALSE] ELSE tasks[t]]
StalePosts(o) == {IF p.ordinal = o THEN [p EXCEPT !.live = FALSE] ELSE p : p \in posts}

-----------------------------------------------------------------------------
(* Polling *)

\* prior is the set of results its prompt shows.
IdleTask == [pc |-> "idle", live |-> FALSE, request |-> 0, retries |-> 0, prior |-> {}]
Idle(t) == task[t].pc = "idle"
NoPass == [seen |-> FALSE, view |-> {}]

Init ==
    /\ up = [r \in Runners |-> "up"]
    /\ poll = [r \in Runners |-> NoPass]
    /\ task = [t \in Tasks |-> IdleTask]
    /\ claim = [o \in Ordinals |-> NoRunner]
    /\ posts = {}
    /\ admission = NoAdmission
    /\ submissions = {}
    /\ spent = 0

\* Mutant: a runner that shuts down goes on polling.
may_poll_draining(r) == up[r] # "down"

MayPoll(r) == up[r] = "up"

\* list_workflows; a workflow with nobody pending is passed over.
PollList(r) ==
    /\ MayPoll(r) /\ poll[r] = NoPass
    /\ W!workflow_status(submissions).pending # {}
    /\ poll' = [poll EXCEPT ![r] = [seen |-> TRUE, view |-> submissions]]
    /\ UNCHANGED <<up, task, claim, bridge, spent>>

\* Mutant: whoever has not submitted yet may start.
eligible_unsubmitted(o, view) == o \notin view

\* The agents that may work, by the view of this pass.
eligible_assignment(o, view) ==
    /\ Pending(o, view)
    /\ W!workflow_status(view).current \in {NoAgent, AgentOf(o)}

\* The tasks a pass spawns: eligible, not in flight, as many as there are permits (the
\* providers are configured in plan order, and the policy selects them all).
Spawned(r) ==
    LET free == MaxConcurrency - Cardinality({o \in Ordinals : ~Idle(<<r, o>>)})
        new == {o \in Ordinals : eligible_assignment(o, poll[r].view) /\ Idle(<<r, o>>)}
    IN  {o \in new : Cardinality({p \in new : p < o}) < free}

\* The earlier results that belong into the prompt of o, by the view of this pass.
prior_submissions(o, view) ==
    CASE PlanMode = "sequential" -> {p \in view : p < o}
      [] PlanMode = "consensus" /\ Plan[o + 1].role = "reviewer" ->
            {p \in view : Plan[p + 1].role = "worker"}
      [] OTHER -> {}

\* append_bounded: in the order of their ordinals, as many as there is room for.
Fitting(prior) == {p \in prior : Cardinality({q \in prior : q < p}) < MaxPrior}

NewRecord(r) == [owner |-> ActorOf[r], status |-> "active", used |-> 0, reports |-> 0]

\* ensure: the record as it is, or a new one.
Ensured(r) == IF admission = NoAdmission THEN NewRecord(r) ELSE admission

PassOver(r) ==
    /\ poll[r].seen
    /\ poll' = [poll EXCEPT ![r] = NoPass]

\* Output tokens of a request: never more than were left when the pass looked.
RequestTokens(record) == Min({Allowance, TokenBudget - record.used})

\* The admission is active and a task is spawned for each eligible assignment; what
\* its provider_request will say is settled by the view it is given.
PollSpawn(r) ==
    /\ PassOver(r)
    /\ Ensured(r).status = "active"
    /\ admission' = Ensured(r)
    /\ task' = [t \in Tasks |->
            IF t[1] = r /\ t[2] \in Spawned(r)
            THEN [IdleTask EXCEPT !.pc = "claim", !.request = RequestTokens(Ensured(r)),
                                  !.prior = Fitting(prior_submissions(t[2], poll[r].view))]
            ELSE task[t]]
    /\ UNCHANGED <<up, claim, posts, submissions, spent>>

\* The admission is not active, or a request failed; creation may have happened.
PollSkip(r) ==
    /\ PassOver(r)
    /\ admission' \in {admission, Ensured(r)}
    /\ UNCHANGED <<up, task, claim, posts, submissions, spent>>

-----------------------------------------------------------------------------
(* execute_assignment *)

At(t, pc) == task[t].pc = pc
Goto(t, pc) == task' = [task EXCEPT ![t].pc = pc]

\* The claim is granted; without the answer the task ends and leaves it behind.
ClaimGranted(t) ==
    /\ At(t, "claim") /\ claim[t[2]] = NoRunner
    /\ claim' = [claim EXCEPT ![t[2]] = t[1]]
    /\ task' = [task EXCEPT ![t].pc = "reserve", ![t].live = TRUE]
    /\ UNCHANGED <<up, poll, bridge, spent>>

ClaimFailed(t) ==
    /\ At(t, "claim")
    /\ \/ UNCHANGED claim
       \/ claim[t[2]] = NoRunner /\ claim' = [claim EXCEPT ![t[2]] = t[1]]
    /\ task' = [task EXCEPT ![t] = IdleTask]
    /\ UNCHANGED <<up, poll, bridge, spent>>

\* The required file lease is not acquired.
FileLeaseFailed(t) ==
    /\ FileLease /\ At(t, "reserve")
    /\ Goto(t, "release")
    /\ UNCHANGED <<up, poll, claim, bridge, spent>>

\* The guard between attempts, during a call and during a delay: shutdown,
\* admission and assignment.
GuardPasses(t) == up[t[1]] = "up" /\ Active /\ Pending(t[2], submissions)

\* reserve_call, or after a delay reserve_retry, reaches the bridge.
Reserving(t) == (At(t, "reserve") /\ task[t].request > 0) \/ At(t, "retry")

ReserveDelivered(t) ==
    /\ Reserving(t) /\ Owns(t[1])
    /\ \/ /\ Charge(task[t].request)
          /\ \/ task' = [task EXCEPT ![t].pc = "guard",
                    ![t].retries = IF At(t, "retry") THEN task[t].retries + 1 ELSE task[t].retries]
             \/ Goto(t, "cancel")
       \/ /\ Exhaust
          /\ Goto(t, "cancel")
    /\ UNCHANGED <<up, poll, claim, posts, submissions, spent>>

\* No tokens left, or the request is refused or lost.
ReserveFailed(t) ==
    /\ task[t].pc \in {"reserve", "retry"}
    /\ Goto(t, "cancel")
    /\ UNCHANGED <<up, poll, claim, bridge, spent>>

\* The guard before an attempt reads the admission first,
GuardAdmission(t) ==
    /\ At(t, "guard")
    /\ \/ up[t[1]] = "up" /\ Active /\ Goto(t, "start")
       \/ Goto(t, "cancel")
    /\ UNCHANGED <<up, poll, claim, bridge, spent>>

\* then the workflow; the vendor call starts.
StartCall(t) ==
    /\ At(t, "start")
    /\ \/ /\ Pending(t[2], submissions)
          /\ Goto(t, "call")
          /\ spent' = spent + task[t].request
       \/ Goto(t, "cancel") /\ UNCHANGED spent
    /\ UNCHANGED <<up, poll, claim, bridge>>

\* RetryPolicy::plan has another attempt to offer; whether the failure is of a kind it
\* retries, and the delay within its total, is the vendor's choice here.
MayRetry(t) == task[t].retries < MaxRetries

\* The vendor answers or fails for good, or fails in a way the policy retries.
CallEnds(t) ==
    /\ At(t, "call")
    /\ \/ Goto(t, "finished")
       \/ MayRetry(t) /\ Goto(t, "backoff")
    /\ UNCHANGED <<up, poll, claim, bridge, spent>>

\* Mutant: the retry goes ahead on the reservation of the attempt that failed.
backoff_unreserved(t) ==
    /\ At(t, "backoff") /\ GuardPasses(t)
    /\ task' = [task EXCEPT ![t] = [@ EXCEPT !.pc = "guard", !.retries = @ + 1]]
    /\ UNCHANGED <<up, poll, claim, bridge, spent>>

\* The delay is over and the guard lets reserve_retry go out; it passes only if the
\* guard before the delay did.
Backoff(t) ==
    /\ At(t, "backoff") /\ GuardPasses(t)
    /\ Goto(t, "retry")
    /\ UNCHANGED <<up, poll, claim, bridge, spent>>

\* What runs under run_with_heartbeat: the attempts, the delays and the reservations of
\* retries.  A renewal that succeeds changes nothing here; a claim may expire all the same.
UnderHeartbeat == {"guard", "start", "call", "backoff", "retry"}

\* A guard poll fails or cannot be made, a heartbeat is refused or lost, or the
\* runner shuts down: the attempt is dropped wherever it is.
Abort(t) ==
    /\ task[t].pc \in UnderHeartbeat
    /\ Goto(t, "cancel")
    /\ UNCHANGED <<up, poll, claim, bridge, spent>>

\* report_response or report_failure is accepted: the tokens above the reservation are
\* charged, and the time; either may exhaust the record instead.
ReportDelivered(t) ==
    /\ At(t, "finished") /\ Owns(t[1])
    /\ \/ /\ \E over \in Overages :
                /\ admission.used + over <= TokenBudget
                /\ admission' = [admission EXCEPT !.used = @ + over, !.reports = @ + 1]
          /\ Goto(t, "accounted") \/ Goto(t, "release")
       \/ /\ Exhaust
          /\ Goto(t, "release")
    /\ UNCHANGED <<up, poll, claim, posts, submissions, spent>>

\* Mutant: output whose accounting failed is kept.
report_failed_kept(t) ==
    /\ At(t, "finished")
    /\ Goto(t, "accounted")
    /\ UNCHANGED <<up, poll, claim, bridge, spent>>

\* Refused, unpriced or lost: the output is discarded; the admission stays.
ReportFailed(t) ==
    /\ At(t, "finished")
    /\ Goto(t, "release")
    /\ UNCHANGED <<up, poll, claim, bridge, spent>>

TaskOf(p) == <<p.by, p.ordinal>>

\* The requests nobody waits for once the tasks S are gone.
Abandoned(S) == {IF TaskOf(p) \in S THEN [p EXCEPT !.awaited = FALSE] ELSE p : p \in posts}

\* The last renewal of the claim, and the submission goes out.
RenewAndSubmit(t) ==
    /\ At(t, "accounted")
    /\ \/ /\ task[t].live
          /\ posts' = posts \cup {[by |-> t[1], ordinal |-> t[2], phase |-> "sent",
                                   live |-> TRUE, awaited |-> TRUE]}
          /\ Goto(t, "submitting")
       \/ UNCHANGED posts /\ Goto(t, "cancel")
    /\ UNCHANGED <<up, poll, claim, admission, submissions, spent>>

\* The answer does not come in time; the request may still be under way.
SubmitTimeout(t) ==
    /\ At(t, "submitting")
    /\ Goto(t, "cancel")
    /\ posts' = Abandoned({t})
    /\ UNCHANGED <<up, poll, claim, admission, submissions, spent>>

\* complete, after the submission that completed the workflow, and cancel.
FinalizeDelivered(t) ==
    /\ task[t].pc \in {"complete", "cancel"} /\ Owns(t[1])
    /\ admission' = [admission EXCEPT
            !.status = IF At(t, "complete") THEN "completed" ELSE "cancelled"]
    /\ Goto(t, "release")
    /\ UNCHANGED <<up, poll, claim, posts, submissions, spent>>

\* Refused or lost: the runner goes on all the same.
FinalizeFailed(t) ==
    /\ task[t].pc \in {"complete", "cancel"}
    /\ Goto(t, "release")
    /\ UNCHANGED <<up, poll, claim, bridge, spent>>

\* release_file_lease and release_claim; the task ends.
Release(t) ==
    LET ended == [task EXCEPT ![t] = IdleTask]
    IN  /\ At(t, "release")
        /\ \/ /\ task[t].live
              /\ claim' = [claim EXCEPT ![t[2]] = NoRunner]
              /\ task' = Stale(ended, t[2])
              /\ posts' = StalePosts(t[2])
           \/ /\ task' = ended
              /\ UNCHANGED <<claim, posts>>
        /\ UNCHANGED <<up, poll, admission, submissions, spent>>

-----------------------------------------------------------------------------
(* The bridge's submission endpoint *)

\* The runner, if it still waits, gets the answer.
Answer(p, pc) == IF p.awaited THEN Goto(TaskOf(p), pc) ELSE UNCHANGED task

\* assignment_claims::enforce renews the claim the submission carries.
Fence(p) ==
    /\ p \in posts /\ p.phase = "sent"
    /\ \/ /\ p.live
          /\ posts' = (posts \ {p}) \cup {[p EXCEPT !.phase = "fenced"]}
          /\ UNCHANGED task
       \/ posts' = posts \ {p} /\ Answer(p, "cancel")
    /\ UNCHANGED <<up, poll, claim, admission, submissions, spent>>

\* submit_workflow records the result, or refuses it.  If the announcement fails
\* the answer is an error although the submission is recorded.
Record(p) ==
    /\ p \in posts /\ p.phase = "fenced"
    /\ posts' = posts \ {p}
    /\ \/ /\ W!validate_submission_turn(p.ordinal + 1, submissions)
          /\ submissions' = submissions \cup {p.ordinal}
          /\ \/ Answer(p, IF W!workflow_status(submissions \cup {p.ordinal}).stage = "completed"
                          THEN "complete" ELSE "release")
             \/ Answer(p, "cancel")
       \/ /\ ~W!validate_submission_turn(p.ordinal + 1, submissions)
          /\ UNCHANGED submissions
          /\ Answer(p, "cancel")
    /\ UNCHANGED <<up, poll, claim, admission, spent>>

-----------------------------------------------------------------------------
(* Faults and the end of runners *)

\* A claim's time runs out, even while the bridge records a submission it has fenced.
Expire(o) ==
    /\ claim[o] # NoRunner
    /\ claim' = [claim EXCEPT ![o] = NoRunner]
    /\ task' = Stale(task, o)
    /\ posts' = StalePosts(o)
    /\ UNCHANGED <<up, poll, admission, submissions, spent>>

Crash(r) ==
    /\ up[r] # "down"
    /\ up' = [up EXCEPT ![r] = "down"]
    /\ poll' = [poll EXCEPT ![r] = NoPass]
    /\ task' = [t \in Tasks |-> IF t[1] = r THEN IdleTask ELSE task[t]]
    /\ posts' = Abandoned({t \in Tasks : t[1] = r})
    /\ UNCHANGED <<claim, admission, submissions, spent>>

Restart(r) ==
    /\ up[r] = "down"
    /\ up' = [up EXCEPT ![r] = "up"]
    /\ UNCHANGED <<poll, task, claim, bridge, spent>>

\* The shutdown signal is only looked at between two passes.
Shutdown(r) ==
    /\ up[r] = "up" /\ poll[r] = NoPass
    /\ up' = [up EXCEPT ![r] = "draining"]
    /\ UNCHANGED <<poll, task, claim, bridge, spent>>

\* All permits are back: run returns.
Drained(r) ==
    /\ up[r] = "draining"
    /\ \A o \in Ordinals : Idle(<<r, o>>)
    /\ up' = [up EXCEPT ![r] = "down"]
    /\ UNCHANGED <<poll, task, claim, bridge, spent>>

-----------------------------------------------------------------------------

TaskStep(t) ==
    \/ ClaimGranted(t) \/ ClaimFailed(t) \/ FileLeaseFailed(t)
    \/ ReserveDelivered(t) \/ ReserveFailed(t)
    \/ GuardAdmission(t) \/ StartCall(t) \/ CallEnds(t) \/ Backoff(t) \/ Abort(t)
    \/ ReportDelivered(t) \/ ReportFailed(t)
    \/ RenewAndSubmit(t) \/ SubmitTimeout(t)
    \/ FinalizeDelivered(t) \/ FinalizeFailed(t) \/ Release(t)

Next ==
    \/ \E r \in Runners :
        \/ PollList(r) \/ PollSpawn(r) \/ PollSkip(r)
        \/ Crash(r) \/ Restart(r) \/ Shutdown(r) \/ Drained(r)
    \/ \E t \in Tasks : TaskStep(t)
    \/ \E p \in posts : Fence(p) \/ Record(p)
    \/ \E o \in Ordinals : Expire(o)

Spec == Init /\ [][Next]_vars

\* A claim nobody renews runs out.
ExpireUnattended(o) == (\A t \in Tasks : t[2] = o => ~task[t].live) /\ Expire(o)

\* Runners poll and end a drain, tasks and bridge handlers run on (every request has
\* a timeout), and a request made again and again gets through in the end: a pass, a
\* claim that is free time and again, a cancellation the bridge would accept.  Nothing
\* is assumed of the vendor, of reports and releases, of crashes and of restarts.
Fairness ==
    /\ \A r \in Runners :
        /\ WF_vars(PollList(r)) /\ WF_vars(PollSkip(r)) /\ SF_vars(PollSpawn(r))
        /\ WF_vars(Drained(r))
    /\ \A t \in Tasks :
        WF_vars(TaskStep(t)) /\ SF_vars(ClaimGranted(t)) /\ SF_vars(FinalizeDelivered(t))
    /\ WF_vars(\E p \in posts : Fence(p) \/ Record(p))
    /\ \A o \in Ordinals : WF_vars(ExpireUnattended(o))

FairSpec == Spec /\ Fairness

\* What the end of a drain rests on: the tasks of a runner run on, and so does its main
\* loop.  Every request a task makes has a timeout, the vendor's included.
DrainFairness ==
    \A r \in Runners :
        WF_vars(\E o \in Ordinals : TaskStep(<<r, o>>)) /\ WF_vars(Drained(r))

DrainSpec == Spec /\ DrainFairness

-----------------------------------------------------------------------------
(* Properties *)

Task == [pc: {"idle", "claim", "reserve", "guard", "start", "call", "backoff", "retry",
              "finished", "accounted", "submitting", "complete", "cancel", "release"},
         live: BOOLEAN, request: 0..Allowance, retries: 0..MaxRetries, prior: SUBSET Ordinals]

Post == [by: Runners, ordinal: Ordinals, phase: {"sent", "fenced"},
         live: BOOLEAN, awaited: BOOLEAN]

\* Every variable stays in its domain; a live grant is carried by at most one task
\* of its holder, and only while the control plane has it.
TypeOK ==
    /\ up \in [Runners -> {"up", "draining", "down"}]
    /\ poll \in [Runners -> [seen: BOOLEAN, view: SUBSET Ordinals]]
    /\ task \in [Tasks -> Task]
    /\ claim \in [Ordinals -> Runners \cup {NoRunner}]
    /\ posts \subseteq Post
    /\ admission \in Admission \cup {NoAdmission}
    /\ submissions \subseteq Ordinals
    /\ spent \in Nat
    /\ \A t \in Tasks : task[t].live => claim[t[2]] = t[1]
    /\ \A p \in posts : p.live => claim[p.ordinal] = p.by

\* docs/policy-admission-and-usage.md, "No managed vendor call starts without ... an
\* atomic pre-call reservation": what the vendor may have produced is always covered
\* by what the admission was charged, through retries, lost answers and crashes.
SpendingCovered ==
    IF admission = NoAdmission THEN spent = 0
    ELSE spent <= admission.used /\ admission.used <= TokenBudget

\* "No provider output is submitted before actual ... usage is accepted": there is an
\* accepted report for every result recorded or on its way to the bridge.
AccountedBeforeAccepted ==
    LET reports == IF admission = NoAdmission THEN 0 ELSE admission.reports
    IN  Cardinality(submissions \cup {p.ordinal : p \in posts}) <= reports

\* docs/provider-runner.md, "sequential workers receive earlier accepted submissions" and
\* reviewers those of the workers: when the vendor is called in such a place, every
\* earlier result is recorded, and the prompt, which provider_request makes of the view
\* of an old pass, is the one that all of them give (as far as they fit).
CallsInTurn ==
    \A t \in Tasks :
        LET earlier == {o \in Ordinals : o < t[2]}
        IN  At(t, "call") /\ (PlanMode = "sequential" \/ Plan[t[2] + 1].role = "reviewer")
                => earlier \subseteq submissions /\ task[t].prior = Fitting(earlier)

\* runner/mod.rs, run: a runner that shuts down gets all its permits back and ends,
\* whatever its tasks were doing when the signal came.
DrainCompletes == \A r \in Runners : up[r] = "draining" ~> up[r] = "down"

Settled == submissions = Ordinals \/ (admission # NoAdmission /\ ~Active)

\* docs/distributed-assignment-claims.md, "Failure and recovery": once crashes stop and
\* some runner is left, the workflow completes or its admission ends; the crash of the
\* runner that was at work does not leave it pending for ever.
WorkflowSettles ==
    (\E left \in SUBSET Runners \ {{}} : <>[]({r \in Runners : up[r] = "up"} = left)) => <>Settled

\* assignment_claims.rs, "A stale replica therefore cannot publish after another replica
\* has acquired a newer grant".
StaleCannotPublish ==
    [][\A o \in submissions' \ submissions :
        \E p \in posts \ posts' : p.ordinal = o /\ (p.live \/ claim[o] = NoRunner)]_vars

\* docs/policy-admission-and-usage.md, "Admission exhaustion, cancellation ... all
\* prevent ... result acceptance".
AcceptedWhileActive == [][submissions' # submissions => Active]_vars
=============================================================================
