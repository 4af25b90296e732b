----------------------------- MODULE PolicyEngine -----------------------------
(***************************************************************************)
(* The workflow policy: evaluate turns a request (risk, sensitivity, mode,  *)
(* protocol, required agents, budget, candidate providers) into a decision. *)
(* An absent field is None; agent keys and capabilities are already trimmed *)
(* and folded; explanations are left out.                                   *)
(***************************************************************************)
EXTENDS Optional, Integers, Sequences, SequencesExt, FiniteSets, FiniteSetsExt, Functions

RiskOrder == <<"low", "medium", "high", "critical">>
ModeOrder == <<"single", "sequential", "competitive", "consensus">>
Availabilities == <<"available", "degraded", "outage", "disabled">>
Behaviors == <<"reduce_provider_count", "fallback_to_single_with_human_approval",
               "queue_until_required_providers_are_available", "fail_closed">>
Sensitive == {"security", "secrets", "authentication", "authorization", "cryptography"}

Rank(order, x) == CHOOSE i \in DOMAIN order : order[i] = x
Higher(order, x, y) == IF Rank(order, x) >= Rank(order, y) THEN x ELSE y
AtMost(x, y) == IF x < y THEN x ELSE y
AtLeast(x, y) == IF x > y THEN x ELSE y

-----------------------------------------------------------------------------
(* What the request requires.                                               *)

MAX_PROVIDER_CANDIDATES == 32
MAX_REQUIRED_PROVIDER_KEYS == 8

\* Keys are unique, scores are basis points, what is required is a candidate.
validate_request(q) ==
    LET keys == {p.key : p \in ToSet(q.providers)}
    IN  /\ Len(q.providers) \in 1..MAX_PROVIDER_CANDIDATES
        /\ Len(q.required) <= MAX_REQUIRED_PROVIDER_KEYS
        /\ IsInjective(q.required)
        /\ Cardinality(keys) = Len(q.providers)
        /\ \A p \in ToSet(q.providers) : {p.quality, p.health, p.errors} \subseteq 0..10000
        /\ ToSet(q.required) \subseteq keys
        /\ q.reviewer # None => q.reviewer \in keys

effective_risk(q) ==
    LET r1 == IF q.capabilities \cap Sensitive # {} THEN Higher(RiskOrder, q.risk, "high") ELSE q.risk
        r2 == IF q.write THEN Higher(RiskOrder, r1, "medium") ELSE r1
    IN  IF q.sensitivity = "restricted" THEN "critical" ELSE r2

minimum_mode(risk, sensitivity, write) ==
    IF sensitivity = "restricted" \/ risk \in {"high", "critical"} THEN "consensus"
    ELSE IF risk = "medium" /\ write THEN "sequential"
    ELSE "single"

protocol_required_mode(protocol) ==
    CASE protocol = "direct"                 -> "single"
      [] protocol = "sequential_handoff"     -> "sequential"
      [] protocol = "independent_candidates" -> "competitive"
      [] OTHER                               -> "consensus"

default_protocol(mode) ==
    CASE mode = "single"      -> "direct"
      [] mode = "sequential"  -> "sequential_handoff"
      [] mode = "competitive" -> "independent_candidates"
      [] mode = "consensus"   -> "reviewer_consensus"

safer_mode(requested, required) == Higher(ModeOrder, requested, required)

selected_protocol(mode, requested) ==
    IF Rank(ModeOrder, protocol_required_mode(requested)) < Rank(ModeOrder, mode)
    THEN default_protocol(mode) ELSE requested

execution_target(protocol) ==
    CASE protocol = "blind_candidates_with_reviewer_reveal" -> "blind_competition"
      [] protocol = "adversarial_review_required"           -> "adversarial_review"
      [] OTHER                                              -> "standard_workflow"

minimum_provider_count(mode) ==
    CASE mode = "single" -> 1 [] mode = "consensus" -> 3 [] OTHER -> 2

desired_provider_count(mode, available) ==
    AtMost(available, CASE mode = "single" -> 1 [] mode = "consensus" -> 4 [] OTHER -> 3)

highest_feasible_mode(available) ==
    CASE available >= 3 -> "consensus"
      [] available = 2  -> "competitive"
      [] available = 1  -> "single"
      [] OTHER          -> None

default_degradation_behavior(risk, sensitivity, write) ==
    IF sensitivity = "restricted" \/ risk = "critical" THEN Behaviors[4]
    ELSE IF risk = "high" \/ write THEN Behaviors[3]
    ELSE IF risk = "medium" THEN Behaviors[2]
    ELSE Behaviors[1]

\* Mutant: the caller's choice replaces the default.
degradation_as_asked(default, requested, strict) ==
    IF requested = None THEN default ELSE requested

\* A request may only tighten; required agents and special executors queue at least.
effective_degradation_behavior(default, requested, strict) ==
    LET chosen == IF requested = None THEN default ELSE Higher(Behaviors, requested, default)
    IN  IF strict THEN Higher(Behaviors, chosen, Behaviors[3]) ELSE chosen

budget_profile(risk) ==
    CASE risk = "low"    -> [providers |-> 1, rounds |-> 1, wall_clock |-> 600000,
                             retries |-> 1, concurrency |-> 1, cost |-> 2000000]
      [] risk = "medium" -> [providers |-> 3, rounds |-> 2, wall_clock |-> 1800000,
                             retries |-> 2, concurrency |-> 3, cost |-> 10000000]
      [] risk = "high"   -> [providers |-> 4, rounds |-> 3, wall_clock |-> 2700000,
                             retries |-> 3, concurrency |-> 4, cost |-> 50000000]
      [] OTHER           -> [providers |-> 4, rounds |-> 3, wall_clock |-> 3600000,
                             retries |-> 3, concurrency |-> 4, cost |-> 100000000]
ABS_MAX == [providers |-> 8, rounds |-> 4, wall_clock |-> 3600000, retries |-> 5,
            concurrency |-> 8, cost |-> 200000000]

\* A request may lower a limit, never to zero and never above the profile.
clamp_budget(requested, profile) ==
    [k \in DOMAIN profile |->
        LET asked == IF requested[k] = None THEN profile[k] ELSE AtLeast(requested[k], 1)
        IN  AtMost(AtMost(asked, profile[k]), ABS_MAX[k])]

RequiredSelection(q) ==
    ToSet(q.required) \cup (IF q.reviewer = None THEN {} ELSE {q.reviewer})

\* What evaluate requires of a request of that risk, before it looks at providers.
RequirementsAt(q, risk) ==
    LET base       == minimum_mode(risk, q.sensitivity, q.write)
        asked      == IF q.mode = None THEN base ELSE q.mode
        protocol   == IF q.protocol = None THEN default_protocol(asked) ELSE q.protocol
        required   == safer_mode(safer_mode(base, protocol_required_mode(protocol)),
                                 IF q.reviewer = None THEN "single" ELSE "consensus")
        budgetRisk == CASE required = "single"     -> risk
                        [] required = "sequential" -> Higher(RiskOrder, risk, "medium")
                        [] OTHER                   -> Higher(RiskOrder, risk, "high")
        mode       == safer_mode(asked, required)
        selected   == selected_protocol(mode, protocol)
    IN  [risk |-> risk, mode |-> mode, protocol |-> selected,
         budget |-> clamp_budget(q.budget, budget_profile(budgetRisk)),
         behavior |-> effective_degradation_behavior(
                         default_degradation_behavior(risk, q.sensitivity, q.write),
                         q.degradation,
                         \/ RequiredSelection(q) # {}
                         \/ execution_target(selected) # "standard_workflow"),
         approval |-> \/ Rank(RiskOrder, risk) >= 3
                      \/ q.sensitivity = "restricted"
                      \/ q.write /\ Rank(RiskOrder, risk) >= 2]

Requirements(q) == RequirementsAt(q, effective_risk(q))

-----------------------------------------------------------------------------
(* The providers.                                                           *)

\* exclusion_reason = None.
Eligible(q, p) ==
    /\ p.available
    /\ p.availability \in {"available", "degraded"}
    /\ q.sensitivity = "restricted" => p.trusted
    /\ q.capabilities \subseteq p.capabilities

\* availability, quality and health downwards, latency, cost, key.
RankOf(p) == <<Rank(Availabilities, p.availability), 10000 - p.quality, 10000 - p.health,
               p.errors, p.latency, p.cost, p.order>>
Before(p, r) ==
    \E i \in 1..7 : /\ RankOf(p)[i] < RankOf(r)[i]
                    /\ \A j \in 1..(i - 1) : RankOf(p)[j] = RankOf(r)[j]
Ranked(q) ==
    LET all == ToSet(q.providers)
    IN  SetToSortSeq({p \in all : Eligible(q, p)}, Before)

\* Mutant: the best ones are taken, required or not.
selected_by_rank(q, ranked, desired) == SubSeq(ranked, 1, AtMost(desired, Len(ranked)))

\* The required ones by key, then the others by rank; the reviewer goes last.
Selected(q, ranked, desired) ==
    LET must       == RequiredSelection(q)
        first      == SetToSortSeq({p \in ToSet(ranked) : p.key \in must},
                                   LAMBDA p, r : p.order < r.order)
        others     == SelectSeq(ranked, LAMBDA p : p.key \notin must)
        room       == AtLeast(desired - Len(first), 0)
        chosen     == first \o SubSeq(others, 1, AtMost(room, Len(others)))
        reviews(p) == p.key = q.reviewer
    IN  SelectSeq(chosen, LAMBDA p : ~reviews(p)) \o SelectSeq(chosen, reviews)

\* s without the positions in gone.
RemoveAll(gone, s) ==
    LET kept == SetToSortSeq(DOMAIN s \ gone, <)
    IN  [i \in DOMAIN kept |-> s[kept[i]]]

total_estimated_cost(s) == FoldSeq(LAMBDA p, sum : p.cost + sum, 0, s)

\* The optional ones are dropped from the end while the set is too expensive.
CostReduced(q, s, minimum, limit) ==
    LET optional    == {i \in DOMAIN s : s[i].key \notin RequiredSelection(q)}
        dropped(k)  == {i \in optional : Cardinality({j \in optional : j >= i}) <= k}
        without(k)  == RemoveAll(dropped(k), s)
        enough(k)   == \/ total_estimated_cost(without(k)) <= limit
                       \/ Len(s) - k <= minimum
                       \/ k = Cardinality(optional)
    IN  without(Min({k \in 0..Cardinality(optional) : enough(k)}))

Decision(allowed, disposition, r, mode, protocol, chosen, approval) ==
    [allowed |-> allowed, disposition |-> disposition, mode |-> mode, protocol |-> protocol,
     target |-> execution_target(protocol), chosen |-> chosen, budget |-> r.budget,
     behavior |-> r.behavior, approval |-> approval]

NotExecuted(disposition, r, mode, protocol, approval) ==
    Decision(FALSE, disposition, r, mode, protocol, <<>>, approval)

\* The two behaviors that go on with fewer providers.
Degraded(r, selectable) ==
    IF r.behavior = Behaviors[2]
    THEN [mode |-> "single", protocol |-> "direct", approval |-> TRUE]
    ELSE LET feasible == highest_feasible_mode(selectable)
             mode     == IF Rank(ModeOrder, feasible) > Rank(ModeOrder, r.mode) THEN r.mode ELSE feasible
         IN  [mode |-> mode, protocol |-> default_protocol(mode), approval |-> r.approval]

\* How many a mode needs, and how many are taken of those that may be.
MinimumFor(q, mode) ==
    AtLeast(minimum_provider_count(mode), Cardinality(RequiredSelection(q)))
DesiredFor(q, mode, selectable) ==
    AtMost(AtLeast(desired_provider_count(mode, selectable), Cardinality(RequiredSelection(q))),
           selectable)

\* The size, the cost ceiling and the duration: the last part of evaluate.
Concluded(q, r, d, minimum, final) ==
    IF \/ Len(final) < minimum
       \/ total_estimated_cost(final) > r.budget.cost
       \/ q.duration > r.budget.wall_clock
    THEN NotExecuted("deny", r, d.mode, d.protocol, d.approval)
    ELSE Decision(TRUE, IF d.approval THEN "require_human_approval" ELSE "execute",
                  r, d.mode, d.protocol, final, d.approval)

\* The selection, reduced to the cost ceiling where fewer providers will do.
Execute(q, r, ranked, d, selectable) ==
    LET minimum == MinimumFor(q, d.mode)
        desired == DesiredFor(q, d.mode, selectable)
        chosen  == Selected(q, ranked, desired)
    IN  IF desired < minimum THEN NotExecuted("deny", r, d.mode, d.protocol, d.approval)
        ELSE Concluded(q, r, d, minimum,
                       IF r.behavior = Behaviors[1]
                       THEN CostReduced(q, chosen, minimum, r.budget.cost) ELSE chosen)

\* The providers that can be had decide what becomes of the requirements.
Weighed(q, r, ranked, selectable) ==
    LET missing    == RequiredSelection(q) \ {p.key : p \in ToSet(ranked)}
        as_asked   == [mode |-> r.mode, protocol |-> r.protocol, approval |-> r.approval]
        refuse(how, approval) == NotExecuted(how, r, r.mode, r.protocol, approval)
    IN  IF missing # {}
        THEN refuse(IF r.behavior = Behaviors[4] THEN "deny" ELSE "queue", r.approval)
        ELSE IF DesiredFor(q, r.mode, selectable) >= MinimumFor(q, r.mode)
        THEN Execute(q, r, ranked, as_asked, selectable)
        ELSE IF r.behavior = Behaviors[4] THEN refuse("deny", r.approval)
        ELSE IF r.behavior = Behaviors[3] THEN refuse("queue", r.approval)
        ELSE IF selectable = 0
        THEN refuse("deny", r.approval \/ r.behavior = Behaviors[2])
        ELSE Execute(q, r, ranked, Degraded(r, selectable), selectable)

Evaluated(q, r, ranked) == Weighed(q, r, ranked, AtMost(r.budget.providers, Len(ranked)))

evaluate(q) ==
    IF validate_request(q) THEN Evaluated(q, Requirements(q), Ranked(q)) ELSE None

-----------------------------------------------------------------------------
(* What a shortage of providers may do to a request.                         *)

\* Fewer providers than a request needs weaken it only below high risk, and a fall to one
\* provider needs approval; what a caller asks for never lowers what the risk demands.
SafeDegradation(q, d, r) ==
    d # None /\ d.allowed =>
        \/ Rank(ModeOrder, d.mode) >= Rank(ModeOrder, r.mode)
        \/ /\ Rank(RiskOrder, r.risk) <= 2 /\ ~q.write
           /\ RequiredSelection(q) = {}
           /\ d.target = "standard_workflow"
           /\ Rank(ModeOrder, d.mode) >= Rank(ModeOrder, minimum_mode(r.risk, q.sensitivity, q.write))
           /\ r.risk = "medium" => d.approval
=============================================================================
