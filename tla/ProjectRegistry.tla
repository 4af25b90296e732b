---------------------------- MODULE ProjectRegistry ---------------------------
(***************************************************************************)
(* The registry of channel-to-project bindings: what from_json accepts, and *)
(* what resolve allows a Slack user to run.  A repository is its folded     *)
(* name, the name that its first 150 bytes spell, whether it is spelled in  *)
(* lower case, and whether it is well formed; a Linear issue is a team key  *)
(* and the digits that follow it.                                           *)
(***************************************************************************)
EXTENDS Optional, Integers, Sequences, FiniteSets

CONSTANTS StableIds,       \* what validate_stable_identifier accepts
          TeamKeys,        \* what validate_team_key accepts
          MAX_BINDINGS,
          MAX_REPOSITORIES_PER_BINDING,
          MAX_PRINCIPALS_PER_BINDING

AgentModes == {"claude", "chatgpt", "both-parallel", "both-sequential", "review"}
WritePolicies == {"read_only", "linear_only", "draft_pull_request"}
Capabilities == {"read_only", "linear_write", "repository_write"}

\* WritePolicy::permits.
WritePolicy_permits(policy, requested) ==
    \/ requested = "read_only"
    \/ requested = "linear_write" /\ policy \in {"linear_only", "draft_pull_request"}
    \/ requested = "repository_write" /\ policy = "draft_pull_request"

normalize_repository(r) == IF r.wellformed THEN [r EXCEPT !.lower = TRUE] ELSE None

\* A decimal that starts with a zero or does not fit u64 is refused.
parse_linear_issue_identifier(i) ==
    IF i.team \in TeamKeys /\ i.digits \notin {"", "0", "07", "above u64"} THEN i ELSE None

validate_budget(b) ==
    /\ b.max_concurrent_runs \in 1..128
    /\ b.max_runtime_secs \in 5..3600
    /\ b.max_tokens \in 1..10000000
    /\ b.max_spend_cents \in 1..100000
    /\ b.max_retries \in 0..10
\* Mutant: the default is compared as it is spelled.
validate_binding_spelled(b) ==
    /\ {b.workspace, b.channel} \subseteq StableIds
    /\ b.default_repository \in b.repositories
    /\ \A r \in b.repositories : r.wellformed
    /\ b.users \cup b.groups # {}
    /\ validate_budget(b.budget)

\* The repositories and the default are compared after they are normalised.
validate_binding(b) ==
    LET normalized == {normalize_repository(r) : r \in b.repositories}
    IN  /\ {b.workspace, b.channel} \subseteq StableIds
        /\ b.team_key \in TeamKeys
        /\ b.repositories # {} /\ Cardinality(b.repositories) <= MAX_REPOSITORIES_PER_BINDING
        /\ None \notin normalized
        /\ b.default_repository.wellformed
        /\ normalize_repository(b.default_repository) \in normalized
        /\ b.modes # {}
        /\ b.default_mode \in b.modes
        /\ LET principals == Cardinality(b.users) + Cardinality(b.groups)
           IN  principals > 0 /\ principals <= MAX_PRINCIPALS_PER_BINDING
        /\ b.users \cup b.groups \subseteq StableIds
        /\ validate_budget(b.budget)

Normalized(b) ==
    [b EXCEPT !.repositories = {normalize_repository(r) : r \in @},
              !.default_repository = normalize_repository(@)]

Key(b) == <<b.workspace, b.channel>>

\* None, or the registry: the normalised bindings by workspace and channel.
from_json(document) ==
    LET bs   == document.bindings
        keys == {Key(bs[i]) : i \in DOMAIN bs}
    IN  IF /\ document.schema_version = 1
           /\ Len(bs) <= MAX_BINDINGS
           /\ \A i \in DOMAIN bs : validate_binding(bs[i])
           /\ Cardinality(keys) = Len(bs)
        THEN [k \in keys |-> Normalized(bs[CHOOSE i \in DOMAIN bs : Key(bs[i]) = k])]
        ELSE None

Refused(why) == [ok |-> FALSE, why |-> why]

\* SlackProjectRegistry::resolve: the first test that fails decides.
resolve(registry, req) ==
    IF ~({req.workspace, req.channel, req.user} \cup req.groups \subseteq StableIds)
    THEN Refused("identifier")
    ELSE IF <<req.workspace, req.channel>> \notin DOMAIN registry
    THEN Refused("unmapped")
    ELSE LET b    == registry[<<req.workspace, req.channel>>]
             repo == IF req.repository = None THEN b.default_repository
                     ELSE normalize_repository(req.repository)
             mode == IF req.mode = None THEN b.default_mode ELSE req.mode
             issue == IF req.issue = None THEN None
                      ELSE parse_linear_issue_identifier(req.issue)
         IN  IF req.user \notin b.users /\ req.groups \cap b.groups = {}
             THEN Refused("principal")
             ELSE IF repo \notin b.repositories THEN Refused("repository")
             ELSE IF mode \notin b.modes THEN Refused("mode")
             ELSE IF ~WritePolicy_permits(b.policy, req.capability) THEN Refused("write")
             ELSE IF req.issue # None /\ issue = None THEN Refused("issue")
             ELSE IF issue # None /\ issue.team # b.team_key THEN Refused("issue team")
             ELSE [ok |-> TRUE, repository |-> repo, mode |-> mode,
                   policy |-> b.policy, budget |-> b.budget, issue |-> issue]
=============================================================================
