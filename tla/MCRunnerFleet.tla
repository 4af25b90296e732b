--------------------------- MODULE MCRunnerFleet ---------------------------
(* RunnerFleet on a workflow of one or two assignments. *)
EXTENDS RunnerFleet, TLC

CONSTANTS a1, a2, a3, r1, r2

OneWorker == <<[ordinal |-> 0, role |-> "worker", agent_key |-> a1]>>
TwoWorkers == OneWorker \o <<[ordinal |-> 1, role |-> "worker", agent_key |-> a2]>>
Reviewed == TwoWorkers \o <<[ordinal |-> 2, role |-> "reviewer", agent_key |-> a3]>>

\* The default: every runner reports under its own name.
OwnNames == [r \in Runners |-> r]
\* AI_AGENT_RUNNER_ADMISSION_ACTOR set alike everywhere.
OneName == [r \in Runners |-> "fleet"]

Symmetry == Permutations(Runners)
=============================================================================
