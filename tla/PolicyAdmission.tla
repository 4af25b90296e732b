--------------------------- MODULE PolicyAdmission ---------------------------
(***************************************************************************)
(* The admission record of one workflow (src/src/policy_admission): the    *)
(* budget a policy decision grants, the usage charged against it, and its  *)
(* terminal states.                                                        *)
(*                                                                         *)
(* Every write happens under the admission lock.  A usage report, however, *)
(* checks its reporter against a record it loads before it takes the lock, *)
(* so other reports, terminal transitions and creations come in between.   *)
(***************************************************************************)
EXTENDS Integers, FiniteSets

CONSTANTS
    Actors,       \* names a request may carry: runner identities and agent keys
    Planned,      \* agent keys of the workflow plan's assignments
    PlanMode,     \* the mode of the plan
    Risks,        \* task risks
    Profile,      \* budget_profile: risk -> budget
    Absolute,     \* the ABS_MAX_* ceilings, one per budget field
    Requests,     \* policy requests, each with the decision evaluate takes on it
    Deltas,       \* usage deltas a reporter may send
    Handlers,     \* request handlers of the usage endpoint
    MaxU64,       \* largest value of a usage counter
    Unset,        \* a budget field the request leaves out
    NoAdmission   \* no record under workflow.admission.v1

Fields == {"max_providers", "max_rounds", "max_wall_clock_ms", "max_input_tokens",
           "max_output_tokens", "max_retries", "max_concurrency", "max_cost_micro_usd"}
Metrics == {"input_tokens", "output_tokens", "cost_micro_usd", "retries",
            "provider_calls", "elapsed_ms", "peak_concurrency"}
U64 == 0 .. MaxU64
Usage == [Metrics -> U64]
Budget == [Fields -> U64]

ASSUME AdmissionConstants ==
    /\ Planned \subseteq Actors
    /\ MaxU64 \in Nat \ {0}
    /\ Profile \in [Risks -> Budget]
    /\ Absolute \in Budget
    /\ Requests \subseteq
        [matches_plan: BOOLEAN, risk: Risks, budget: [Fields -> U64 \cup {Unset}],
         allowed: BOOLEAN, target: {"standard_workflow", "specialized"},
         mode: {"single", "sequential", "competitive", "consensus"},
         selected: SUBSET Actors, require_human_approval: BOOLEAN]
    /\ Unset \notin U64
    /\ Deltas \subseteq Usage
    /\ NoAdmission \notin [requested_by: Actors, selected: SUBSET Actors, budget: Budget,
                           status: {"active", "exhausted", "completed", "cancelled"},
                           usage: Usage, rejected: SUBSET Deltas]

VARIABLES
    admission,    \* the record, or NoAdmission
    report        \* handler -> the report it is about to record, or NoReport

admission_vars == <<admission, report>>

-----------------------------------------------------------------------------
(* Budgets *)

Lesser(a, b) == IF a < b THEN a ELSE b
Greater(a, b) == IF a > b THEN a ELSE b
Saturated(n) == Lesser(n, MaxU64)

clamp(requested, profile, absolute) ==
    Lesser(Lesser(Greater(IF requested = Unset THEN profile ELSE requested, 1), profile), absolute)

clamped(requested, profile) ==
    [f \in Fields |-> clamp(requested[f], profile[f], Absolute[f])]

\* The budget field that bounds a metric; calls are bounded by a product of fields.
CeilingField ==
    [input_tokens |-> "max_input_tokens", output_tokens |-> "max_output_tokens",
     cost_micro_usd |-> "max_cost_micro_usd", retries |-> "max_retries",
     elapsed_ms |-> "max_wall_clock_ms", peak_concurrency |-> "max_concurrency"]

\* The ceiling budget_violation compares a metric with.
Ceiling(budget, m) ==
    IF m = "provider_calls"
    THEN Saturated(Saturated(budget["max_providers"] * budget["max_rounds"])
                   * Saturated(budget["max_retries"] + 1))
    ELSE budget[CeilingField[m]]

\* Mutant: the sum is compared with the ceiling one unit late.
violation_off_by_one(budget, usage) ==
    \E m \in Metrics : usage[m] > Ceiling(budget, m) + 1

budget_violation(budget, usage) ==
    \E m \in Metrics : usage[m] > Ceiling(budget, m)

\* The totals after a delta.  A counter beyond MaxU64 is the None of checked_add.
attempted_totals(current, delta) ==
    [m \in Metrics |-> IF m = "peak_concurrency" THEN Greater(current[m], delta[m])
                       ELSE current[m] + delta[m]]

Overflows(attempted) == \E m \in Metrics : attempted[m] > MaxU64

-----------------------------------------------------------------------------
(* Operations *)

NoReport == [step |-> "idle"]

AdmissionInit ==
    /\ admission = NoAdmission
    /\ report = [h \in Handlers |-> NoReport]

require_active == admission # NoAdmission /\ admission.status = "active"

\* Mutant: a repeated creation replaces the record.
missing_always == TRUE

Missing == admission = NoAdmission

\* validate_request_matches_plan and what evaluate must have decided: a request that
\* is not about this plan, is denied, needs another executor or mode, selects other
\* providers than the plan, or lacks a required approval, is refused.
Admissible(request, approved) ==
    /\ request.matches_plan
    /\ request.allowed
    /\ request.target = "standard_workflow"
    /\ request.mode = PlanMode
    /\ request.selected = Planned
    /\ request.require_human_approval => approved

\* create_admission, under the lock.  An existing record is returned unchanged.
create_admission ==
    /\ Missing
    /\ \E actor \in Actors, request \in Requests, approved \in BOOLEAN :
        /\ Admissible(request, approved)
        /\ admission' = [requested_by |-> actor,
                         selected |-> request.selected,
                         budget |-> clamped(request.budget, Profile[request.risk]),
                         status |-> "active",
                         usage |-> [m \in Metrics |-> 0],
                         rejected |-> {}]
    /\ UNCHANGED report

\* report_usage up to its ownership check, against a record loaded without the lock.
report_usage(h) ==
    /\ report[h] = NoReport
    /\ admission # NoAdmission
    /\ \E actor \in Actors, provider \in Actors, delta \in Deltas :
        /\ actor = admission.requested_by
        /\ report' = [report EXCEPT ![h] =
                [step |-> "checked", updated_by |-> actor,
                 provider |-> provider, delta |-> delta]]
    /\ UNCHANGED admission

\* exhaust: the accepted totals stay, the rejected delta is kept.
exhaust(delta) == [admission EXCEPT !.status = "exhausted", !.rejected = {delta}]

\* The record after a delta of a selected provider.
Charged(delta) ==
    LET attempted == attempted_totals(admission.usage, delta)
    IN  IF Overflows(attempted) \/ budget_violation(admission.budget, attempted)
        THEN exhaust(delta)
        ELSE [admission EXCEPT !.usage = attempted, !.rejected = {}]

\* record_usage, under the lock; refused for a record that is not active and for a
\* provider the policy did not select.
record_usage(h) ==
    LET q == report[h]
    IN  /\ q.step = "checked"
        /\ report' = [report EXCEPT ![h] = NoReport]
        /\ \/ /\ require_active
              /\ q.provider \in admission.selected
              /\ admission' = Charged(q.delta)
           \/ /\ ~require_active \/ q.provider \notin admission.selected
              /\ UNCHANGED admission

\* complete_admission and cancel_admission; refused for a record that is not active
\* and for actors that neither requested the admission nor are selected.
transition ==
    /\ require_active
    /\ \E actor \in Actors, status \in {"completed", "cancelled"} :
        /\ actor = admission.requested_by \/ actor \in admission.selected
        /\ admission' = [admission EXCEPT !.status = status]
    /\ UNCHANGED report

AdmissionNext ==
    \/ create_admission
    \/ transition
    \/ \E h \in Handlers : report_usage(h) \/ record_usage(h)

AdmissionSpec == AdmissionInit /\ [][AdmissionNext]_admission_vars

-----------------------------------------------------------------------------
(* Properties *)

Status == {"active", "exhausted", "completed", "cancelled"}
Record == [requested_by: Actors, selected: SUBSET Actors, budget: Budget,
           status: Status, usage: Usage, rejected: SUBSET Deltas]

\* Every counter of the record stays in u64, and reports in flight are well formed.
AdmissionTypeOK ==
    /\ admission \in Record \cup {NoAdmission}
    /\ \A h \in Handlers :
        \/ report[h] = NoReport
        \/ report[h] \in [step: {"checked"}, updated_by: Actors, provider: Actors,
                          delta: Deltas]

\* docs/policy-admission-and-usage.md, "Hard usage accounting": accepted totals never
\* exceed any ceiling of the budget, in any status, however reports interleave.
WithinBudget ==
    admission # NoAdmission =>
        \A m \in Metrics : admission.usage[m] <= Ceiling(admission.budget, m)

\* "The rejected delta is recorded, and the admission becomes terminally exhausted":
\* an exhausted record keeps exactly one delta, and that delta could not be charged
\* on top of the totals it kept.
ExhaustedForCause ==
    admission # NoAdmission /\ admission.status = "exhausted" =>
        \E delta \in Deltas :
            /\ admission.rejected = {delta}
            /\ LET attempted == attempted_totals(admission.usage, delta)
               IN  Overflows(attempted) \/ budget_violation(admission.budget, attempted)

\* A report is recorded for the runner it was checked against: requested_by, read
\* without the lock, is still the owner of the record when the lock is taken.
ReporterStillOwns ==
    \A h \in Handlers :
        report[h].step = "checked" =>
            admission # NoAdmission /\ report[h].updated_by = admission.requested_by

\* Once it exists, a record never changes its owner, selection or budget; totals only
\* grow; and once terminal it never changes at all, so a late report, completion or
\* cancellation can neither revive nor relabel it.
OnlyForward ==
    [][admission # NoAdmission =>
        /\ admission' # NoAdmission
        /\ admission'.requested_by = admission.requested_by
        /\ admission'.selected = admission.selected
        /\ admission'.budget = admission.budget
        /\ \A m \in Metrics : admission.usage[m] <= admission'.usage[m]
        /\ admission.status # "active" => admission' = admission]_admission_vars
=============================================================================
