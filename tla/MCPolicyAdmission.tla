-------------------------- MODULE MCPolicyAdmission --------------------------
EXTENDS PolicyAdmission

\* A budget whose fields are all n.
Flat(n) == [f \in Fields |-> n]

MCProfile == [r \in Risks |-> IF r = "low" THEN Flat(1) ELSE Flat(2)]
MCAbsolute == Flat(2)

\* Nothing asked for; the least one can ask for, which is raised to one; the most.
MCBudgets == {[f \in Fields |-> Unset], Flat(0), Flat(MaxU64)}

Good == [matches_plan |-> TRUE, risk |-> "low", budget |-> Flat(0), allowed |-> TRUE,
         target |-> "standard_workflow", mode |-> PlanMode, selected |-> Planned,
         require_human_approval |-> FALSE]

\* Every risk and budget, with and without approval, and one request for each refusal.
MCRequests ==
    {[Good EXCEPT !.risk = r, !.budget = b, !.require_human_approval = h] :
        r \in Risks, b \in MCBudgets, h \in BOOLEAN}
    \cup {[Good EXCEPT !.matches_plan = FALSE], [Good EXCEPT !.allowed = FALSE],
          [Good EXCEPT !.target = "specialized"], [Good EXCEPT !.mode = "consensus"],
          [Good EXCEPT !.selected = {}]}

Delta(fields) == [m \in Metrics |-> IF m \in DOMAIN fields THEN fields[m] ELSE 0]

\* What the runner reports: the reservation of a call, of a retry, the overage and
\* time of an answer, the time of a failure; and a delta that overflows a counter.
MCDeltas == {
    Delta([cost_micro_usd |-> 1, provider_calls |-> 1, peak_concurrency |-> 2]),
    Delta([output_tokens |-> 1, provider_calls |-> 1, retries |-> 1,
           peak_concurrency |-> 1]),
    Delta([input_tokens |-> 1, elapsed_ms |-> 1]),
    Delta([elapsed_ms |-> 1]),
    Delta([output_tokens |-> MaxU64])}
=============================================================================
