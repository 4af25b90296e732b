--------------------------- MODULE BlindCompetition ---------------------------
(***************************************************************************)
(* One blind competition: workers hand in candidates nobody else may read,  *)
(* the reviewer reveals them all at once.  Plan, candidates and reveal are   *)
(* context entries of the competition's channel, inserted one by one under   *)
(* blind_context_lock and read under the channels lock, so a handler is      *)
(* several steps and requests interleave between them.  An entry is keyed    *)
(* by the worker it belongs to; None is an absent entry or a viewer without  *)
(* an adapter identity (the operator, or a bridge without credentials).      *)
(***************************************************************************)
EXTENDS Optional, Integers, Sequences, FiniteSets, Functions

CONSTANTS
    Agents,              \* agent keys
    Enrolled,            \* those that list_agents knows
    BlindRequests,       \* requests being handled
    Drafts,              \* what a candidate may say
    Lineups,             \* the worker lists that creators ask for
    MAX_BLIND_WORKERS

ASSUME NoneAssumption == None \notin Agents \cup Drafts
ASSUME RegisteredAssumption == Enrolled \subseteq Agents
ASSUME LineupsAssumption == Lineups \subseteq Seq(Agents)

VARIABLES
    plan,       \* workflow.blind.plan.v1: the workers and the reviewer, or None
    submission, \* workflow.blind.submission.v1.*: the candidate of a worker, or None
    reveal,     \* workflow.blind.reveal.v1: the reviewer who revealed, or None
    hand,       \* what each request has in hand
    seen,       \* whose candidates a viewer has been shown
    answered    \* candidates whose worker was told that they were taken

competition_vars == <<plan, submission, reveal, hand, seen, answered>>

Viewers == Agents \cup {None}
Plan == {p \in [workers: SUBSET Enrolled, reviewer: Enrolled] :
            p.reviewer \notin p.workers}
Submitted == {w \in Agents : submission[w] # None}

Free == [pc |-> "free", viewer |-> None, asked |-> None, content |-> None, list |-> {}]
At(r, pc) == hand[r].pc = pc
Goto(r, pc) == hand' = [hand EXCEPT ![r].pc = pc]
Answer(r) == hand' = [hand EXCEPT ![r] = Free]

CompetitionInit ==
    /\ plan = None
    /\ submission = [w \in Agents |-> None]
    /\ reveal = None
    /\ hand = [r \in BlindRequests |-> Free]
    /\ seen = [v \in Viewers |-> {}]
    /\ answered = [w \in Agents |-> {}]

-----------------------------------------------------------------------------
(* create_blind_competition.                                                *)

\* Distinct registered workers and a registered reviewer who is none of them.
LineupAccepted(workers, reviewer) ==
    /\ Len(workers) \in 2..MAX_BLIND_WORKERS
    /\ IsInjective(workers)
    /\ Range(workers) \subseteq Enrolled
    /\ reviewer \notin Range(workers)
    /\ reviewer \in Enrolled

\* The id is new, so only one request creates the competition.
create_blind_competition(r, viewer, workers, reviewer) ==
    /\ At(r, "free")
    /\ plan = None /\ \A other \in BlindRequests : ~At(other, "create")
    /\ LineupAccepted(workers, reviewer)
    /\ hand' = [hand EXCEPT ![r] = [Free EXCEPT !.pc = "create", !.viewer = viewer,
                  !.asked = [workers |-> Range(workers), reviewer |-> reviewer]]]
    /\ UNCHANGED <<plan, submission, reveal, seen, answered>>

\* The channel is there and everyone has a seat: the plan is published.
InsertBlindPlan(r) ==
    /\ At(r, "create")
    /\ plan' = hand[r].asked
    /\ hand' = [hand EXCEPT ![r] = [@ EXCEPT !.pc = "post", !.asked = None]]
    /\ UNCHANGED <<submission, reveal, seen, answered>>

\* The channel, a seat or the entry is refused, or the embedding takes too long.
CreateFails(r) ==
    /\ At(r, "create")
    /\ Answer(r)
    /\ UNCHANGED <<plan, submission, reveal, seen, answered>>

-----------------------------------------------------------------------------
(* submit_blind_competition and reveal_blind_competition.                   *)

\* load_plan, load_reveal and the worker's place in the plan.
submit_blind_competition(r, viewer, agentKey, content) ==
    /\ At(r, "free")
    /\ viewer # None /\ agentKey = viewer
    /\ plan # None
    /\ reveal = None
    /\ viewer \in plan.workers
    /\ hand' = [hand EXCEPT ![r] = [Free EXCEPT !.pc = "submit", !.viewer = viewer,
                                             !.content = content]]
    /\ UNCHANGED <<plan, submission, reveal, seen, answered>>

\* Mutant: the entry is written whether or not it is there.
insert_submission_blindly(r) ==
    /\ At(r, "submit")
    /\ submission' = [submission EXCEPT ![hand[r].viewer] = hand[r].content]
    /\ Goto(r, "post")
    /\ UNCHANGED <<plan, reveal, seen, answered>>

\* insert_blind_context: the reveal is not looked at again.
InsertSubmission(r) ==
    /\ At(r, "submit")
    /\ submission[hand[r].viewer] = None
    /\ submission' = [submission EXCEPT ![hand[r].viewer] = hand[r].content]
    /\ Goto(r, "post")
    /\ UNCHANGED <<plan, reveal, seen, answered>>

\* Mutant: the reviewer need not wait.
reveal_early(r, viewer) ==
    /\ At(r, "free")
    /\ viewer # None /\ plan # None
    /\ viewer = plan.reviewer
    /\ hand' = [hand EXCEPT ![r] = [Free EXCEPT !.pc = "reveal", !.viewer = viewer]]
    /\ UNCHANGED <<plan, submission, reveal, seen, answered>>

\* load_submissions finds a candidate of every worker.
reveal_blind_competition(r, viewer) ==
    /\ At(r, "free")
    /\ viewer # None /\ plan # None
    /\ viewer = plan.reviewer
    /\ Submitted = plan.workers
    /\ hand' = [hand EXCEPT ![r] = [Free EXCEPT !.pc = "reveal", !.viewer = viewer]]
    /\ UNCHANGED <<plan, submission, reveal, seen, answered>>

InsertReveal(r) ==
    /\ At(r, "reveal")
    /\ reveal = None
    /\ reveal' = hand[r].viewer
    /\ Goto(r, "post")
    /\ UNCHANGED <<plan, submission, seen, answered>>

\* The entry is there already, or the channel's context has no room.
InsertRefused(r) ==
    /\ hand[r].pc \in {"submit", "reveal"}
    /\ Answer(r)
    /\ UNCHANGED <<plan, submission, reveal, seen, answered>>

-----------------------------------------------------------------------------
(* The announcement and the answer.                                         *)

\* post_message; no candidate goes into the channel.
PostMessage(r) ==
    /\ At(r, "post")
    /\ Goto(r, "view")
    /\ UNCHANGED <<plan, submission, reveal, seen, answered>>

\* The poster finds no seat: an error is answered although the entry stays.
PostFails(r) ==
    /\ At(r, "post")
    /\ Answer(r)
    /\ UNCHANGED <<plan, submission, reveal, seen, answered>>

get_blind_competition(r, viewer) ==
    /\ At(r, "free")
    /\ plan # None
    /\ hand' = [hand EXCEPT ![r] = [Free EXCEPT !.pc = "view", !.viewer = viewer]]
    /\ UNCHANGED <<plan, submission, reveal, seen, answered>>

\* build_view reads the candidates first ...
LoadSubmissions(r) ==
    /\ At(r, "view")
    /\ hand' = [hand EXCEPT ![r] = [@ EXCEPT !.pc = "loaded", !.list = Submitted]]
    /\ UNCHANGED <<plan, submission, reveal, seen, answered>>

\* Mutant: a complete set counts as revealed.
visible_when_complete(viewer, list) ==
    IF reveal # None \/ list = plan.workers THEN list ELSE list \cap {viewer}

\* ... and the reveal afterwards, in another critical section.
Visible(viewer, list) ==
    IF reveal # None THEN list ELSE list \cap {viewer}

build_view(r) ==
    LET viewer == hand[r].viewer
    IN  /\ At(r, "loaded")
        /\ seen' = [seen EXCEPT ![viewer] = @ \cup Visible(viewer, hand[r].list)]
        /\ answered' = IF hand[r].content = None THEN answered
                       ELSE [answered EXCEPT ![viewer] = @ \cup {hand[r].content}]
        /\ Answer(r)
        /\ UNCHANGED <<plan, submission, reveal>>

CompetitionNext == \E r \in BlindRequests :
    \/ \E viewer \in Viewers, workers \in Lineups, reviewer \in Agents :
          create_blind_competition(r, viewer, workers, reviewer)
    \/ InsertBlindPlan(r)
    \/ CreateFails(r)
    \/ \E viewer \in Viewers, agentKey \in Agents, content \in Drafts :
          submit_blind_competition(r, viewer, agentKey, content)
    \/ InsertSubmission(r)
    \/ \E viewer \in Viewers : reveal_blind_competition(r, viewer)
    \/ InsertReveal(r)
    \/ InsertRefused(r)
    \/ PostMessage(r)
    \/ PostFails(r)
    \/ \E viewer \in Viewers : get_blind_competition(r, viewer)
    \/ LoadSubmissions(r)
    \/ build_view(r)

CompetitionSpec == CompetitionInit /\ [][CompetitionNext]_competition_vars

-----------------------------------------------------------------------------
Request ==
    [pc: {"free", "create", "submit", "reveal", "post", "view", "loaded"},
     viewer: Viewers, asked: Plan \cup {None}, content: Drafts \cup {None},
     list: SUBSET Agents]

\* Every variable has its type; a plan is among registered agents, its reviewer no worker.
CompetitionTypeOK ==
    /\ plan \in Plan \cup {None}
    /\ submission \in [Agents -> Drafts \cup {None}]
    /\ reveal \in Agents \cup {None}
    /\ hand \in [BlindRequests -> Request]
    /\ seen \in [Viewers -> SUBSET Agents]
    /\ answered \in [Agents -> SUBSET Drafts]

\* Until the reviewer reveals, nobody is shown a candidate of somebody else, whatever is
\* submitted and revealed between the two reads of build_view.
BlindUntilRevealed ==
    reveal = None => \A v \in Viewers : seen[v] \subseteq {v}

\* The reveal is the reviewer's, and it comes after the last
\* candidate of the plan: submissions and reveals race between their checks and inserts.
RevealedIsComplete ==
    reveal # None =>
        /\ plan # None
        /\ Submitted = plan.workers
        /\ reveal = plan.reviewer

\* What a worker was told is taken is its candidate, and its only one, although clients
\* submit again after an error that came after the insertion.
AnswerIsKept ==
    \A w \in Agents : answered[w] \subseteq {submission[w]}

\* The set the reviewer revealed is final: a submission that passed its check before the
\* reveal and is inserted after it changes nothing.
ClosedAfterReveal ==
    [][reveal # None => submission' = submission /\ reveal' = reveal]_competition_vars

Sealed == INSTANCE SealedRound WITH lineup <- plan, sealed <- submission, opened <- reveal

\* The handlers, with their checks and insertions apart and any number of them in flight,
\* implement a sealed round: every step is one of its steps or changes nothing it knows.
ImplementsSealedRound == Sealed!Spec

=============================================================================
