--------------------------- MODULE LeaseDescriptors ---------------------------
(***************************************************************************)
(* File leases with an external control plane. The compatibility routes     *)
(* (lease_descriptors.rs) keep a descriptor per grant and renew and release *)
(* through it under one mutation lock, held across the call; the canonical  *)
(* routes (http.rs, lease_renewal.rs) only forward. The control plane is    *)
(* modelled from how it is called. A call may be answered, or given up (the *)
(* HTTP timeout, or a client that goes away) before or after the control    *)
(* plane served it, and may still be served after that.                     *)
(*                                                                         *)
(* Agents are registered and paths normalised; a grant's fencing token also *)
(* stands for the lease id minted for it. Requests the code refuses without *)
(* a call change nothing and are left out.                                  *)
(***************************************************************************)
EXTENDS Naturals, FiniteSets, FiniteSetsExt

CONSTANTS
    Requests,          \* handlers of the bridge
    Canonical,         \* the ones that may also serve the canonical routes
    Agents, Paths,
    Ttls,              \* handler -> the ttls its clients ask for, in clock ticks
    MAX_CONTEXT_KEYS,  \* room of the registry channel; tombstones count
    None,
    MaxTokens, MaxClock, MaxStray  \* bounds

\* What the control plane keeps for a path, and what it answers.
Grant == [agent : Agents, token : Nat, expires : Nat]
Reply == [status : {200, 409}, done : BOOLEAN, token : Nat, expires : Nat \cup {None}]

ASSUME LeaseDescriptorAssumption ==
    /\ Ttls \in [Requests -> SUBSET (Nat \ {0})]
    /\ {MAX_CONTEXT_KEYS, MaxTokens, MaxClock, MaxStray} \subseteq Nat
    /\ Canonical \subseteq Requests
    /\ None \notin Requests /\ None \notin Nat /\ None \notin Grant /\ None \notin Reply

VARIABLES
    clock,
    grants,       \* control plane: path -> holder, token and expiry, or None
    next_token,
    req,          \* what each handler waits for
    lock,         \* who holds mutation_lock
    descriptors,  \* token -> descriptor
    stray,        \* calls nobody waits for that may still be served
    told,         \* token -> the expiry its holder was last told, or None when the
                  \* control plane had not stated one
    given_back,   \* tokens somebody asked to release
    untracked,    \* tokens no descriptor will name: forwarded, or lost on the way
    shortened     \* tokens a renewal for a shorter ttl took an expiry back from
                  \* that their holder may still believe in

bridge == <<lock, descriptors, told, given_back>>
vars == <<clock, grants, next_token, req, lock, descriptors, stray, told, given_back, untracked,
          shortened>>

Idle == [pc |-> "idle"]
Calling == {"acquire", "renew", "release", "cleanup", "forward"}
Held(p) == grants[p] # None /\ clock < grants[p].expires
Owns(b) == Held(b.path) /\ grants[b.path].token = b.token /\ grants[b.path].agent = b.agent
Put(f, k, v) == [x \in DOMAIN f \cup {k} |-> IF x = k THEN v ELSE f[x]]

Init ==
    /\ clock = 0 /\ next_token = 1 /\ lock = None
    /\ grants = [p \in Paths |-> None]
    /\ req = [r \in Requests |-> Idle]
    /\ descriptors = << >> /\ told = << >>
    /\ stray = {} /\ given_back = {} /\ untracked = {} /\ shortened = {}

-----------------------------------------------------------------------------
(* The control plane: one call, its effect and its reply.                   *)

Refused(status) == [status |-> status, done |-> FALSE, token |-> 0, expires |-> None]
\* The answer to a call that was carried out states the new expiry or not.
Granted(token, expires) ==
    [status |-> 200, done |-> TRUE, token |-> token, expires |-> expires]
Stating(ttl) == {clock + ttl, None}

\* A refusal is an error status, or a success that says acquired, renewed = false.
ServeAcquire(b, reply) ==
    /\ UNCHANGED shortened
    /\ IF Held(b.path)
       THEN reply \in {Refused(409), Refused(200)} /\ UNCHANGED <<grants, next_token>>
       ELSE /\ next_token <= MaxTokens /\ next_token' = next_token + 1
            /\ grants' = [grants EXCEPT ![b.path] =
                  [agent |-> b.agent, token |-> next_token, expires |-> clock + b.ttl]]
            /\ reply \in {Granted(next_token, e) : e \in Stating(b.ttl)}
\* The expiry is counted anew: a shorter ttl takes it back.
ServeRenew(b, reply) ==
    /\ UNCHANGED next_token
    /\ IF Owns(b)
       THEN /\ grants' = [grants EXCEPT ![b.path].expires = clock + b.ttl]
            /\ shortened' = IF clock + b.ttl < grants[b.path].expires
                            THEN shortened \cup {b.token} ELSE shortened
            /\ reply \in {Granted(b.token, e) : e \in Stating(b.ttl)}
       ELSE reply \in {Refused(409), Refused(200)} /\ UNCHANGED <<grants, shortened>>
ServeRelease(b, reply) ==
    /\ UNCHANGED <<next_token, shortened>>
    /\ IF Owns(b)
       THEN grants' = [grants EXCEPT ![b.path] = None] /\ reply = Granted(b.token, None)
       ELSE reply = Refused(409) /\ UNCHANGED grants
Serve(b, reply) ==
    \/ b.op = "acquire" /\ ServeAcquire(b, reply)
    \/ b.op = "renew" /\ ServeRenew(b, reply)
    \/ b.op = "release" /\ ServeRelease(b, reply)

Replies(b) ==
    {Refused(409), Refused(200)} \cup
    {Granted(IF b.op = "acquire" THEN next_token ELSE b.token, e) : e \in Stating(b.ttl)}

\* Served while its handler waits. One that only forwards the answer keeps
\* nothing of it: how a refusal is put and whether an expiry is stated are left out.
Answer(r) ==
    /\ req[r].pc \in Calling /\ req[r].reply = None
    /\ \E reply \in Replies(req[r].body) :
          /\ Serve(req[r].body, reply)
          /\ req[r].pc = "forward" => reply # Refused(200) /\ reply.expires = None
          /\ req' = [req EXCEPT ![r].reply = reply]
    /\ UNCHANGED <<clock, bridge, stray, untracked>>

\* Served after its handler gave up.
AnswerStray(b) ==
    /\ \E reply \in Replies(b) :
          /\ Serve(b, reply)
          /\ untracked' = IF b.op = "acquire" /\ reply.done THEN untracked \cup {reply.token}
                          ELSE untracked
    /\ stray' = stray \ {b}
    /\ UNCHANGED <<clock, req, bridge>>

\* A call that never arrives.
LoseStray(b) ==
    /\ stray' = stray \ {b}
    /\ UNCHANGED <<clock, grants, next_token, shortened, req, bridge, untracked>>

-----------------------------------------------------------------------------
(* The compatibility routes.                                                *)

Waiting(pc, op, a, p, t, d) ==
    [pc |-> pc, body |-> [op |-> op, agent |-> a, path |-> p, token |-> t, ttl |-> d],
     reply |-> None]
\* The token a finished call minted, if it was one that mints.
Minted(w) ==
    IF w.reply # None /\ w.body.op = "acquire" /\ w.reply.done THEN {w.reply.token} ELSE {}
success(reply) == reply.status \in 200..299
\* Mutant: the ttl is always counted from here.
expiry_from_here(reply, ttl) == clock + ttl
\* The control plane's expiry, or the ttl counted from here.
expiry_from_response(reply, ttl) ==
    IF reply.expires # None THEN reply.expires ELSE clock + ttl
\* What a holder is told counts when the control plane stated an expiry.
Told(reply, ttl) == IF reply.expires # None THEN expiry_from_response(reply, ttl) ELSE None

acquire(r, a, p, d) ==
    /\ req[r] = Idle
    /\ req' = [req EXCEPT ![r] = Waiting("acquire", "acquire", a, p, 0, d)]
    /\ UNCHANGED <<clock, grants, next_token, shortened, bridge, stray, untracked>>

\* An explicit acquired = true and a token go on to the registry.
Acquired(r) ==
    /\ req[r].pc = "acquire" /\ req[r].reply # None
    /\ LET w == req[r]
       IN  req' = [req EXCEPT ![r] =
             IF success(w.reply) /\ w.reply.done
             THEN [pc |-> "store", token |-> w.reply.token, agent |-> w.body.agent,
                   path |-> w.body.path, told |-> Told(w.reply, w.body.ttl),
                   expires |-> expiry_from_response(w.reply, w.body.ttl)]
             ELSE Idle]
    /\ UNCHANGED <<clock, grants, next_token, shortened, bridge, stray, untracked>>

\* Mutant: a full registry is only reported.
store_descriptor_reporting(r) ==
    /\ req[r].pc = "store" /\ lock = None
    /\ req' = [req EXCEPT ![r] = Idle]
    /\ LET s == req[r]
       IN  IF Cardinality(DOMAIN descriptors) < MAX_CONTEXT_KEYS
           THEN /\ descriptors' = Put(descriptors, s.token,
                      [agent |-> s.agent, path |-> s.path, expires |-> s.expires,
                       status |-> "active"])
                /\ told' = Put(told, s.token, s.told)
           ELSE UNCHANGED <<descriptors, told>>
    /\ UNCHANGED <<clock, grants, next_token, shortened, lock, stray, given_back, untracked>>

\* Under the lock; when the registry has no room the grant is given back.
store_descriptor(r) ==
    /\ req[r].pc = "store" /\ lock = None
    /\ LET s == req[r]
       IN  IF Cardinality(DOMAIN descriptors) < MAX_CONTEXT_KEYS
           THEN /\ descriptors' = Put(descriptors, s.token,
                      [agent |-> s.agent, path |-> s.path, expires |-> s.expires,
                       status |-> "active"])
                /\ told' = Put(told, s.token, s.told)
                /\ req' = [req EXCEPT ![r] = Idle]
           ELSE /\ req' = [req EXCEPT ![r] =
                      Waiting("cleanup", "release", s.agent, s.path, s.token, 0)]
                /\ UNCHANGED <<descriptors, told>>
    /\ UNCHANGED <<clock, grants, next_token, shortened, lock, stray, given_back, untracked>>

\* The result of that release is not looked at.
CleanedUp(r) ==
    /\ req[r].pc = "cleanup" /\ req[r].reply # None
    /\ req' = [req EXCEPT ![r] = Idle]
    /\ untracked' = untracked \cup {req[r].body.token}
    /\ UNCHANGED <<clock, grants, next_token, shortened, bridge, stray>>

load_active_descriptor(t) ==
    /\ t \in DOMAIN descriptors
    /\ descriptors[t].status = "active" /\ clock < descriptors[t].expires

\* Mutant: renew takes no lock.
renew_unlocked(r, t, d) ==
    /\ req[r] = Idle /\ lock = None /\ load_active_descriptor(t)
    /\ req' = [req EXCEPT ![r] =
          Waiting("renew", "renew", descriptors[t].agent, descriptors[t].path, t, d)]
    /\ UNCHANGED <<clock, grants, next_token, shortened, bridge, stray, untracked>>

\* validate_owner_and_fence passes the owner with the descriptor's token only.
renew(r, t, d) ==
    /\ req[r] = Idle /\ lock = None /\ load_active_descriptor(t)
    /\ lock' = r
    /\ req' = [req EXCEPT ![r] =
          Waiting("renew", "renew", descriptors[t].agent, descriptors[t].path, t, d)]
    /\ UNCHANGED <<clock, grants, next_token, shortened, descriptors, stray, told, given_back,
                   untracked>>

\* mutation_guard goes out of scope.
Unlock(r) == lock' = IF lock = r THEN None ELSE lock

\* What the holder is told now makes up for an earlier cut, when it still holds.
Heard(b, reply) ==
    IF reply.expires # None /\ Owns(b) /\ reply.expires <= grants[b.path].expires
    THEN shortened \ {b.token} ELSE shortened

\* renewed = true with the same token; the descriptor that was loaded before
\* the call is written back.
Renewed(r) ==
    /\ req[r].pc = "renew" /\ req[r].reply # None /\ Unlock(r)
    /\ req' = [req EXCEPT ![r] = Idle]
    /\ LET b == req[r].body
           reply == req[r].reply
           e == expiry_from_response(reply, b.ttl)
       IN  IF success(reply) /\ reply.done /\ reply.token = b.token
           THEN /\ descriptors' = [descriptors EXCEPT ![b.token] =
                       [@ EXCEPT !.expires = e, !.status = "active"]]
                /\ told' = Put(told, b.token, Told(reply, b.ttl))
                /\ shortened' = Heard(b, reply)
           ELSE UNCHANGED <<descriptors, told, shortened>>
    /\ UNCHANGED <<clock, grants, next_token, stray, given_back, untracked>>

release(r, t) ==
    /\ req[r] = Idle /\ lock = None /\ load_active_descriptor(t)
    /\ lock' = r /\ given_back' = given_back \cup {t}
    /\ req' = [req EXCEPT ![r] =
          Waiting("release", "release", descriptors[t].agent, descriptors[t].path, t, 0)]
    /\ UNCHANGED <<clock, grants, next_token, shortened, descriptors, stray, told, untracked>>

\* A success leaves a tombstone.
Released(r) ==
    /\ req[r].pc = "release" /\ req[r].reply # None /\ Unlock(r)
    /\ req' = [req EXCEPT ![r] = Idle]
    /\ descriptors' = IF success(req[r].reply)
          THEN [descriptors EXCEPT ![req[r].body.token] =
                   [@ EXCEPT !.status = "released", !.expires = clock]]
          ELSE descriptors
    /\ UNCHANGED <<clock, grants, next_token, shortened, stray, told, given_back, untracked>>

-----------------------------------------------------------------------------
(* The canonical routes forward and keep nothing.                           *)

ForwardAcquire(r, a, p, d) ==
    /\ req[r] = Idle
    /\ req' = [req EXCEPT ![r] = Waiting("forward", "acquire", a, p, 0, d)]
    /\ UNCHANGED <<clock, grants, next_token, shortened, bridge, stray, untracked>>
ForwardRenew(r, a, p, t, d) ==
    /\ req[r] = Idle
    /\ req' = [req EXCEPT ![r] = Waiting("forward", "renew", a, p, t, d)]
    /\ UNCHANGED <<clock, grants, next_token, shortened, bridge, stray, untracked>>
ForwardRelease(r, a, p, t) ==
    /\ req[r] = Idle
    /\ req' = [req EXCEPT ![r] = Waiting("forward", "release", a, p, t, 0)]
    /\ given_back' = given_back \cup {t}
    /\ UNCHANGED <<clock, grants, next_token, shortened, lock, descriptors, told, stray, untracked>>
Forwarded(r) ==
    /\ req[r].pc = "forward" /\ req[r].reply # None
    /\ req' = [req EXCEPT ![r] = Idle]
    /\ untracked' = untracked \cup Minted(req[r])
    /\ UNCHANGED <<clock, grants, next_token, shortened, bridge, stray>>

-----------------------------------------------------------------------------
\* Mutant: a renewal has no timeout.
give_up_elsewhere(r) ==
    /\ req[r].pc \in Calling \ {"renew"} /\ Unlock(r)
    /\ req' = [req EXCEPT ![r] = Idle]
    /\ stray' = IF req[r].reply = None /\ Cardinality(stray) < MaxStray
                THEN stray \cup {req[r].body} ELSE stray
    /\ untracked' = untracked \cup Minted(req[r])
          \cup (IF req[r].pc = "cleanup" THEN {req[r].body.token} ELSE {})
    /\ UNCHANGED <<clock, grants, next_token, shortened, descriptors, told, given_back>>

\* The client's timeout, or a handler that is dropped with its connection:
\* the guard goes with it.
GiveUp(r) ==
    /\ req[r].pc \in Calling /\ Unlock(r)
    /\ req' = [req EXCEPT ![r] = Idle]
    /\ stray' = IF req[r].reply = None /\ Cardinality(stray) < MaxStray
                THEN stray \cup {req[r].body} ELSE stray
    /\ untracked' = untracked \cup Minted(req[r])
          \cup (IF req[r].pc = "cleanup" THEN {req[r].body.token} ELSE {})
    /\ UNCHANGED <<clock, grants, next_token, shortened, descriptors, told, given_back>>

\* Dropped while it waits for the lock.
DropStore(r) ==
    /\ req[r].pc = "store"
    /\ req' = [req EXCEPT ![r] = Idle]
    /\ untracked' = untracked \cup {req[r].token}
    /\ UNCHANGED <<clock, grants, next_token, shortened, bridge, stray>>

Tick ==
    /\ clock < MaxClock /\ clock' = clock + 1
    /\ UNCHANGED <<grants, next_token, shortened, req, bridge, stray, untracked>>

Next ==
    \/ \E r \in Requests :
          \/ Answer(r) \/ Acquired(r) \/ store_descriptor(r) \/ CleanedUp(r)
          \/ Renewed(r) \/ Released(r) \/ Forwarded(r) \/ GiveUp(r) \/ DropStore(r)
          \/ \E t \in DOMAIN descriptors : release(r, t)
          \/ \E t \in DOMAIN descriptors, d \in Ttls[r] : renew(r, t, d)
          \/ \E a \in Agents, p \in Paths, d \in Ttls[r] : acquire(r, a, p, d)
    \/ \E r \in Canonical, a \in Agents, p \in Paths :
          \/ \E d \in Ttls[r] : ForwardAcquire(r, a, p, d)
          \/ \E t \in 1..(next_token - 1) : ForwardRelease(r, a, p, t)
          \/ \E t \in 1..(next_token - 1), d \in Ttls[r] : ForwardRenew(r, a, p, t, d)
    \/ \E b \in stray : AnswerStray(b) \/ LoseStray(b)
    \/ Tick

Spec == Init /\ [][Next]_vars

\* Handlers run on, a call ends at the latest with the client's timeout, and
\* the mutation lock is handed over in the order it was asked for.
Fairness ==
    \A r \in Requests :
        /\ WF_vars(GiveUp(r))
        /\ SF_vars(store_descriptor(r))
FairSpec == Spec /\ Fairness

-----------------------------------------------------------------------------
\* Every variable has its type; only a renewal or a release holds the lock.
TypeOK ==
    /\ clock \in 0..MaxClock /\ next_token \in 1..(MaxTokens + 1)
    /\ lock \in Requests \cup {None}
    /\ lock # None => req[lock].pc \in {"renew", "release"}
    /\ DOMAIN descriptors \subseteq 1..MaxTokens /\ DOMAIN told = DOMAIN descriptors
    /\ Cardinality(DOMAIN descriptors) <= MAX_CONTEXT_KEYS

\* docs, "Safety invariant": until the expiry an agent was last told, when the
\* control plane had stated it, the control plane still has the grant for the
\* same path and token, whatever was lost, late or given up; unless somebody
\* asked to release it, or a renewal for a shorter ttl that the agent has not
\* heard of took the expiry back.
WriteAuthority ==
    \A t \in DOMAIN told \ (given_back \cup shortened) :
        told[t] # None /\ clock < told[t] =>
            LET g == grants[descriptors[t].path]
            IN  g # None /\ g.token = t /\ g.agent = descriptors[t].agent /\ g.expires >= told[t]

\* A released descriptor is a tombstone: a renewal that was in flight when the
\* release was asked for cannot bring it back.
ReleasedIsFinal ==
    [][\A t \in DOMAIN descriptors :
          descriptors[t].status = "released" => descriptors'[t] = descriptors[t]]_vars

\* A live grant is named by a descriptor, is in the hands of a handler, or was
\* forwarded or lost with its call: a failed acquisition does not keep it.
GrantAccounted ==
    \A p \in Paths : Held(p) =>
        \/ grants[p].token \in DOMAIN descriptors \cup untracked
        \/ \E r \in Requests :
              \/ req[r].pc = "store" /\ req[r].token = grants[p].token
              \/ req[r].pc = "cleanup" /\ req[r].body.token = grants[p].token
              \/ req[r].pc \in Calling /\ req[r].reply # None
                 /\ req[r].reply.token = grants[p].token

\* The lock is held across a call: every request ends all the same.
RequestsEnd == \A r \in Requests : req[r].pc # "idle" ~> req[r].pc = "idle"

=============================================================================
