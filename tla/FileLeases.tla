----------------------------- MODULE FileLeases -----------------------------
(***************************************************************************)
(* The in-memory repository-path leases of AppState (src/src/state.rs).    *)
(*                                                                         *)
(* Every lease operation reads the clock (Instant::now()) BEFORE it waits  *)
(* for the write lock on the lease table, so the body of an operation runs *)
(* with a `now' that may be stale: other requests, and time, can get in    *)
(* between.  An operation is therefore two steps: one that reads the clock *)
(* and parks the request in req, and one that runs the whole critical      *)
(* section.  Requests is the set of handler threads.                       *)
(*                                                                         *)
(* A normalised path is a non-empty sequence of segments; "p/" being a     *)
(* string prefix of q is p being a strict prefix of q.  A lease id         *)
(* (new_id(), a fresh UUID) and a fencing token are drawn together, once   *)
(* per inserted lease, so the token also stands for the id.                *)
(***************************************************************************)
EXTENDS Integers, FiniteSets, Sequences, SequencesExt

CONSTANTS
    Agents,         \* agent keys
    Repositories,   \* normalised repository names
    Paths,          \* normalised repository-relative paths
    Ttls,           \* accepted ttl_ms values, in clock ticks
    TicksPerMs,     \* clock ticks in the millisecond a reported expiry is cut to
    Requests,       \* handler threads
    MaxAgents,      \* config.max_agents
    MaxFileLeases,  \* config.max_file_leases
    MaxClock,       \* bound: the last clock value explored
    MaxTokens       \* bound: fencing tokens issued

ASSUME FileLeaseConstants ==
    /\ Paths \subseteq Seq(STRING) \ {<<>>}
    /\ Ttls \subseteq Nat \ {0}
    /\ TicksPerMs \in Nat \ {0}
    /\ MaxAgents \in Nat /\ MaxFileLeases \in Nat
    /\ MaxClock \in Nat /\ MaxTokens \in Nat

VARIABLES
    agents,                   \* registered agents (AppState.agents)
    file_leases,              \* the lease table, by lease id
    next_file_fencing_token,  \* tokens issued so far
    clock,                    \* the monotonic clock behind Instant::now()
    req                       \* the parked request of each handler thread

vars == <<agents, file_leases, next_file_fencing_token, clock, req>>

-----------------------------------------------------------------------------
(* Data *)

Idle == [op |-> "idle"]

\* deadline is FileLeaseState.expires_at (an Instant, what the table obeys);
\* expires_at is FileLease.expires_at (the wall-clock text a client is told, cut
\* to whole milliseconds).  One clock stands for Instant and for Utc.
FileLease ==
    [repository: Repositories, path: Paths, recursive: BOOLEAN,
     agent_key: Agents, fencing_token: Nat, deadline: Nat, expires_at: Nat]

AcquireReq ==
    [op: {"acquire"}, repository: Repositories, path: Paths, agent_key: Agents,
     ttl_ms: Ttls, recursive: BOOLEAN, now: Nat]
RenewReq ==
    [op: {"renew"}, lease_id: Nat, agent_key: Agents, fencing_token: Nat,
     ttl_ms: Ttls, now: Nat]
ReleaseReq ==
    [op: {"release"}, lease_id: Nat, agent_key: Agents, fencing_token: Nat,
     now: Nat]
HoldersReq == [op: {"holders"}, now: Nat]

Request == {Idle} \cup AcquireReq \cup RenewReq \cup ReleaseReq \cup HoldersReq

\* Mutant: only the existing lease's recursive flag is looked at.
overlap_one_sided(a_path, a_recursive, b_path, b_recursive) ==
    \/ a_path = b_path
    \/ a_recursive /\ IsStrictPrefix(a_path, b_path)

lease_scopes_overlap(a_path, a_recursive, b_path, b_recursive) ==
    \/ a_path = b_path
    \/ a_recursive /\ IsStrictPrefix(a_path, b_path)
    \/ b_recursive /\ IsStrictPrefix(b_path, a_path)

\* leases.retain(|_, value| value.expires_at > now), the first thing every
\* operation does under the lock.
Retained(now) ==
    [id \in {i \in DOMAIN file_leases : file_leases[i].deadline > now}
        |-> file_leases[id]]

-----------------------------------------------------------------------------
(* Operations *)

Init ==
    /\ agents = {}
    /\ file_leases = [id \in {} |-> Idle]
    /\ next_file_fencing_token = 0
    /\ clock = 0
    /\ req = [r \in Requests |-> Idle]

register_agent(a) ==
    /\ a \in agents \/ Cardinality(agents) < MaxAgents
    /\ agents' = agents \cup {a}
    /\ UNCHANGED <<file_leases, next_file_fencing_token, clock, req>>

Tick ==
    /\ clock < MaxClock
    /\ clock' = clock + 1
    /\ UNCHANGED <<agents, file_leases, next_file_fencing_token, req>>

Park(r, request) ==
    /\ req[r] = Idle
    /\ req' = [req EXCEPT ![r] = request]
    /\ UNCHANGED <<agents, file_leases, next_file_fencing_token, clock>>

\* An unregistered agent is turned away (AgentNotFound) before the clock is read.
StartAcquire(r) ==
    \E repo \in Repositories, p \in Paths, a \in agents, ttl \in Ttls,
       rec \in BOOLEAN :
        Park(r, [op |-> "acquire", repository |-> repo, path |-> p,
                 agent_key |-> a, ttl_ms |-> ttl, recursive |-> rec,
                 now |-> clock])

\* A client may name any lease ever granted, with its token or a forged one
\* (tokens are only compared for equality: 0, never issued, stands for them all).
StartRenew(r) ==
    \E id \in 1 .. next_file_fencing_token, a \in Agents, ttl \in Ttls :
    \E token \in {id, 0} :
        Park(r, [op |-> "renew", lease_id |-> id, agent_key |-> a,
                 fencing_token |-> token, ttl_ms |-> ttl, now |-> clock])

StartRelease(r) ==
    \E id \in 1 .. next_file_fencing_token, a \in Agents : \E token \in {id, 0} :
        Park(r, [op |-> "release", lease_id |-> id, agent_key |-> a,
                 fencing_token |-> token, now |-> clock])

StartHolders(r) == Park(r, [op |-> "holders", now |-> clock])

\* A live lease of another agent whose scope meets the requested one.
Conflicting(table, q) ==
    {id \in DOMAIN table :
        /\ table[id].repository = q.repository
        /\ table[id].agent_key # q.agent_key
        /\ lease_scopes_overlap(table[id].path, table[id].recursive,
                                q.path, q.recursive)}

\* The requester's own lease on exactly this path.
Existing(table, q) ==
    {id \in DOMAIN table :
        /\ table[id].repository = q.repository
        /\ table[id].path = q.path
        /\ table[id].agent_key = q.agent_key}

\* Mutant: the holder is told when the lease was granted.
expiry_without_ttl(ttl_ms) == clock - (clock % TicksPerMs)

\* The text has SecondsFormat::Millis, which drops what is below a millisecond.
file_lease_expiry_ts(ttl_ms) ==
    LET instant == clock + ttl_ms IN instant - (instant % TicksPerMs)

\* A lease with its two expiries set anew, token and scope owner unchanged.
Refreshed(lease, q, recursive) ==
    [repository |-> lease.repository, path |-> lease.path, recursive |-> recursive,
     agent_key |-> lease.agent_key, fencing_token |-> lease.fencing_token,
     deadline |-> q.now + q.ttl_ms, expires_at |-> file_lease_expiry_ts(q.ttl_ms)]

Extended(table, id, q) ==
    [table EXCEPT ![id] = Refreshed(table[id], q, q.recursive)]

NewLease(token, q) ==
    [repository |-> q.repository, path |-> q.path, recursive |-> q.recursive,
     agent_key |-> q.agent_key, fencing_token |-> token,
     deadline |-> q.now + q.ttl_ms, expires_at |-> file_lease_expiry_ts(q.ttl_ms)]

Granted(table, token, q) ==
    [id \in DOMAIN table \cup {token} |->
        IF id = token THEN NewLease(token, q) ELSE table[id]]

AtCapacity(table) == Cardinality(DOMAIN table) >= MaxFileLeases

\* FileLeaseConflict, or no lease to refresh and no room for another.
Refused(table, q) ==
    Conflicting(table, q) = {} => Existing(table, q) = {} /\ AtCapacity(table)

\* The critical section of acquire_file_lease: conflict, refresh of the own
\* lease in place (the token stays), capacity, grant.
acquire_file_lease(r) ==
    LET q == req[r]
        table == Retained(q.now)
        token == next_file_fencing_token + 1
    IN  /\ q.op = "acquire"
        /\ req' = [req EXCEPT ![r] = Idle]
        /\ UNCHANGED <<agents, clock>>
        /\ \/ /\ Refused(table, q)
              /\ file_leases' = table
              /\ UNCHANGED next_file_fencing_token
           \/ /\ Conflicting(table, q) = {}
              /\ \E id \in Existing(table, q) :
                    file_leases' = Extended(table, id, q)
              /\ UNCHANGED next_file_fencing_token
           \/ /\ Conflicting(table, q) = {}
              /\ Existing(table, q) = {}
              /\ ~AtCapacity(table)
              /\ token <= MaxTokens
              /\ file_leases' = Granted(table, token, q)
              /\ next_file_fencing_token' = token

\* Mutant: whoever knows the token may renew or release.
authorised_by_token(table, q) ==
    /\ q.lease_id \in DOMAIN table
    /\ table[q.lease_id].fencing_token = q.fencing_token

\* Owner and exact token, or FileLeaseNotFound / OwnerMismatch / StaleFencingToken.
Authorised(table, q) ==
    /\ q.lease_id \in DOMAIN table
    /\ table[q.lease_id].agent_key = q.agent_key
    /\ table[q.lease_id].fencing_token = q.fencing_token

Renewed(table, q) ==
    LET lease == table[q.lease_id]
    IN  [table EXCEPT ![q.lease_id] = Refreshed(lease, q, lease.recursive)]

renew_file_lease(r) ==
    LET q == req[r]
        table == Retained(q.now)
    IN  /\ q.op = "renew"
        /\ req' = [req EXCEPT ![r] = Idle]
        /\ file_leases' =
              IF Authorised(table, q)
              THEN Renewed(table, q)
              ELSE table
        /\ UNCHANGED <<agents, next_file_fencing_token, clock>>

release_file_lease(r) ==
    LET q == req[r]
        table == Retained(q.now)
    IN  /\ q.op = "release"
        /\ req' = [req EXCEPT ![r] = Idle]
        /\ file_leases' =
              IF Authorised(table, q)
              THEN [id \in DOMAIN table \ {q.lease_id} |-> table[id]]
              ELSE table
        /\ UNCHANGED <<agents, next_file_fencing_token, clock>>

\* The query itself only reads, but it prunes the table like the others.
file_lease_holders(r) ==
    /\ req[r].op = "holders"
    /\ req' = [req EXCEPT ![r] = Idle]
    /\ file_leases' = Retained(req[r].now)
    /\ UNCHANGED <<agents, next_file_fencing_token, clock>>

Start(r) == StartAcquire(r) \/ StartRenew(r) \/ StartRelease(r) \/ StartHolders(r)

Locked(r) ==
    \/ acquire_file_lease(r) \/ renew_file_lease(r)
    \/ release_file_lease(r) \/ file_lease_holders(r)

Next ==
    \/ Tick
    \/ \E a \in Agents : register_agent(a)
    \/ \E r \in Requests : Start(r) \/ Locked(r)

Spec == Init /\ [][Next]_vars

-----------------------------------------------------------------------------
(* Properties *)

\* Every variable stays in its domain; no token in the table or in flight is
\* one that was never issued, and no request carries a clock from the future.
TypeOK ==
    /\ agents \subseteq Agents
    /\ next_file_fencing_token \in Nat
    /\ clock \in Nat
    /\ DOMAIN file_leases \subseteq 1 .. next_file_fencing_token
    /\ file_leases \in [DOMAIN file_leases -> FileLease]
    /\ \A id \in DOMAIN file_leases : file_leases[id].fencing_token = id
    /\ req \in [Requests -> Request]
    /\ \A r \in Requests : req[r] # Idle => req[r].now <= clock

\* The files a lease gives the right to edit: its path and, if recursive,
\* everything below it.
Covers(lease, file) ==
    \/ file = lease.path
    \/ lease.recursive /\ IsStrictPrefix(lease.path, file)

\* README, "Repository-path leases": no file is covered by leases of two
\* different agents, whatever the order in which stale acquires, refreshes
\* that widen a scope, renewals and expiries take the lock.
ExclusiveCoverage ==
    \A i, j \in DOMAIN file_leases : \A file \in Paths :
        /\ file_leases[i].agent_key # file_leases[j].agent_key
        /\ file_leases[i].repository = file_leases[j].repository
        => ~(Covers(file_leases[i], file) /\ Covers(file_leases[j], file))

\* config.max_file_leases bounds the table after every operation.
WithinCapacity == Cardinality(DOMAIN file_leases) <= MaxFileLeases

\* What a holder was told binds it: an acquire whose clock was read a millisecond
\* or more after the expires_at of another agent's lease no longer meets that
\* lease, whoever refreshed it, however long either request waited for the lock,
\* and although pruning is lazy, the deadline comes from a clock read before the
\* lock and the told expiry, cut to milliseconds, from one read under it.
FreeAfterReportedExpiry ==
    \A r \in Requests : req[r].op = "acquire" =>
        \A id \in Conflicting(Retained(req[r].now), req[r]) :
            req[r].now < file_leases[id].expires_at + TicksPerMs

\* A lease that has not expired is removed, or changed in any field, only by a
\* request of its own agent that names its token or its exact path: pruning
\* with a stale `now', conflicts and foreign renewals or releases leave it alone.
LiveLeaseOnlyChangedByOwner ==
    [][\A id \in DOMAIN file_leases :
        file_leases[id].deadline > clock =>
            \/ id \in DOMAIN file_leases' /\ file_leases'[id] = file_leases[id]
            \/ \E r \in Requests :
                /\ req[r] # Idle /\ req'[r] = Idle
                /\ req[r].op # "holders"
                /\ req[r].agent_key = file_leases[id].agent_key
                /\ IF req[r].op = "acquire"
                   THEN req[r].path = file_leases[id].path
                   ELSE req[r].fencing_token = id]_vars
=============================================================================
