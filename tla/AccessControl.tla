----------------------------- MODULE AccessControl ----------------------------
(***************************************************************************)
(* Who may do what: the credentials of workflow_security, its HTTP          *)
(* middleware with the bearer check behind it, and the principal of a TCP   *)
(* connection.  A path is the sequence of its segments; a body is the       *)
(* function from its fields to their trimmed values (<<>>: no JSON object); *)
(* a context key is <<namespace, name>>.                                    *)
(***************************************************************************)
EXTENDS Optional, Integers, Sequences, SequencesExt, FiniteSets, Functions

CONSTANTS Texts             \* what validate_text accepts

MAX_CREDENTIALS == 1000
MAX_SCOPES == 32
RESERVED_CONTEXT_PREFIXES == {"workflow", "internal"}
KNOWN_SCOPES ==
    {"workflow:create", "workflow:read", "workflow:submit", "workflow:admit",
     "workflow:usage", "agent:register", "agent:read", "channel:create", "channel:join",
     "channel:post", "channel:read", "context:read", "context:write", "lease:operate"}

is_reserved_context_key(key) == key[1] \in RESERVED_CONTEXT_PREFIXES

-----------------------------------------------------------------------------
(* WorkflowSecurity: the bearer of the operator and the scoped credentials. *)

\* Mutant: tokens may be shared by credentials with different ids.
credentials_accepted_by_id(bearer, enabled) ==
    /\ \A c \in ToSet(enabled) : {c.token_id, c.agent_key, c.token} \subseteq Texts
    /\ IsInjective([i \in DOMAIN enabled |-> enabled[i].token_id])
    /\ \A c \in ToSet(enabled) : c.scopes # {} /\ c.scopes \subseteq KNOWN_SCOPES

\* Ids and tokens are unique among what is enabled; none is the operator's.
CredentialsAccepted(bearer, enabled) ==
    /\ \A c \in ToSet(enabled) : {c.token_id, c.agent_key, c.token} \subseteq Texts
    /\ \A c \in ToSet(enabled) : c.token # bearer
    /\ IsInjective([i \in DOMAIN enabled |-> enabled[i].token_id])
    /\ IsInjective([i \in DOMAIN enabled |-> enabled[i].token])
    /\ \A c \in ToSet(enabled) :
          /\ Cardinality(c.scopes) \in 1..MAX_SCOPES
          /\ c.scopes \subseteq KNOWN_SCOPES

\* None when the process refuses to start.
from_optional_json(bearer, document) ==
    LET listed  == IF document = None THEN <<>> ELSE document
        enabled == SelectSeq(listed, LAMBDA c : c.enabled)
    IN  IF Len(listed) <= MAX_CREDENTIALS /\ CredentialsAccepted(bearer, enabled)
        THEN [global_bearer |-> bearer, credentials |-> enabled]
        ELSE None

scoped_mode(s) == s.credentials # <<>>
authentication_required(s) == s.global_bearer # None \/ scoped_mode(s)
is_admin_token(s, token) == s.global_bearer # None /\ token = s.global_bearer

\* The first credential with the token, or None.
authenticate(s, token) ==
    LET matched == {i \in DOMAIN s.credentials : s.credentials[i].token = token}
        first   == s.credentials[Min(matched)]
    IN  IF matched = {} THEN None
        ELSE [kind |-> "adapter", token_id |-> first.token_id, agent_key |-> first.agent_key, scopes |-> first.scopes]

Operator == [kind |-> "operator"]
authenticate_principal(s, token) ==
    IF is_admin_token(s, token) THEN Operator ELSE authenticate(s, token)

-----------------------------------------------------------------------------
(* The HTTP middleware.                                                     *)

Rule(scope, field) == [scope |-> scope, identity_field |-> field]
Under(path, root) == Len(path) >= 2 /\ path[1] = root
EndsWith(path, suffix) == IsSuffix(suffix, path)

WorkflowRule(method, path) ==
    IF method = "POST" /\ path \in {<<"blind-workflows">>, <<"workflows">>}
    THEN Rule("workflow:create", "created_by")
    ELSE IF method = "POST" /\ Under(path, "blind-workflows") /\ EndsWith(path, <<"submissions">>)
    THEN Rule("workflow:submit", "agent_key")
    ELSE IF method = "POST" /\ Under(path, "blind-workflows") /\ EndsWith(path, <<"reveal">>)
    THEN Rule("workflow:read", None)
    ELSE IF method = "GET" /\ (Under(path, "blind-workflows") \/ path[1] = "workflows")
    THEN Rule("workflow:read", None)
    ELSE IF method = "POST" /\ Under(path, "workflows")
            /\ \E how \in {"usage", "complete", "cancel"} : EndsWith(path, <<"admission", how>>)
    THEN Rule("workflow:usage", "updated_by")
    ELSE IF method = "POST" /\ Under(path, "workflows") /\ EndsWith(path, <<"admission">>)
    THEN Rule("workflow:admit", "requested_by")
    ELSE IF method = "POST" /\ Under(path, "workflows") /\ EndsWith(path, <<"submissions">>)
    THEN Rule("workflow:submit", "agent_key")
    ELSE None

is_context_write(method, path) ==
    method \in {"POST", "PUT"} /\ Under(path, "channels") /\ EndsWith(path, <<"context">>)

ChannelRule(method, path) ==
    IF method = "POST" /\ path \in {<<"channels">>, <<"channels", "resolve">>}
    THEN Rule("channel:create", "created_by")
    ELSE IF <<method, path>> \in {<<"GET", <<"channels">>>>, <<"POST", <<"channels", "search">>>>}
    THEN Rule("channel:read", None)
    ELSE IF method = "GET" /\ Under(path, "channels") /\ EndsWith(path, <<"context">>)
    THEN Rule("context:read", None)
    ELSE IF method = "GET" /\ Under(path, "channels") THEN Rule("channel:read", None)
    ELSE IF is_context_write(method, path) THEN Rule("context:write", "updated_by")
    ELSE IF method = "POST" /\ Under(path, "channels") /\ EndsWith(path, <<"messages">>)
    THEN Rule("channel:post", "from")
    ELSE IF method = "POST" /\ Under(path, "channels")
            /\ \E how \in {"join", "leave"} : EndsWith(path, <<how>>)
    THEN Rule("channel:join", "agent_key")
    ELSE None

\* The scope a request needs and the field that must name the adapter; None is denied.
access_rule(method, path) ==
    IF path[1] \in {"blind-workflows", "workflows"} THEN WorkflowRule(method, path)
    ELSE IF path[1] = "channels" THEN ChannelRule(method, path)
    ELSE IF method = "POST" /\ path = <<"agents", "register">>
    THEN Rule("agent:register", "agent_key")
    ELSE IF method = "GET" /\ path \in {<<"agents">>, <<"agents", "by-file">>}
    THEN Rule("agent:read", None)
    ELSE IF method = "POST" /\ path[1] = "file-leases"
    THEN Rule("lease:operate", "agent_key")
    ELSE None

is_public_path(path) ==
    path \in {<<"">>, <<"health">>, <<"healthz">>, <<"readyz">>, <<"metrics">>,
              <<".well-known", "agent-pontifex">>}

FieldOf(body, field) ==
    IF field \in DOMAIN body THEN body[field] ELSE None
contains_reserved_context_key(body) ==
    FieldOf(body, "key") # None /\ is_reserved_context_key(body["key"])

Denied(why) == [passed |-> FALSE, why |-> why]
\* The handler sees an identity only for a scoped token, and the operator's bearer then.
Passed(identity, bearer) == [passed |-> TRUE, identity |-> identity, bearer |-> bearer]

enforce(s, q) ==
    LET rule     == access_rule(q.method, q.path)
        identity == IF q.token = None THEN None ELSE authenticate(s, q.token)
    IN  IF q.too_large THEN Denied("payload_too_large")
        ELSE IF is_context_write(q.method, q.path) /\ contains_reserved_context_key(q.body)
        THEN Denied("reserved_context_namespace")
        ELSE IF ~scoped_mode(s) \/ is_public_path(q.path) THEN Passed(None, q.token)
        ELSE IF q.token # None /\ is_admin_token(s, q.token) THEN Passed(None, q.token)
        ELSE IF rule = None THEN Denied("scope_denied")
        ELSE IF identity = None THEN Denied("unauthorized")
        ELSE IF rule.scope \notin identity.scopes THEN Denied("scope_denied")
        ELSE IF rule.identity_field # None
                /\ FieldOf(q.body, rule.identity_field) # identity.agent_key
        THEN Denied("adapter_identity_mismatch")
        ELSE Passed(identity, s.global_bearer)

\* auth, the inner layer of every router but the public and the policy routes.
auth(s, passed) == s.global_bearer # None => passed.bearer = s.global_bearer

\* The field of the body by which the handler behind a route knows who acts, for the
\* operations that TCP has too; None when there is none.  The handler of the stream knows
\* it, too, but from the query, at which no rule looks: see HttpOf.
HandlerField(op) ==
    CASE op \in {"register", "join", "leave"}    -> "agent_key"
      [] op \in {"create_channel", "resolve"}    -> "created_by"
      [] op = "post"                             -> "from"
      [] op = "set_context"                      -> "updated_by"
      [] OTHER                                   -> None

\* What a protected route lets through.
HttpAllows(s, q) == LET p == enforce(s, q) IN p.passed /\ auth(s, p)

-----------------------------------------------------------------------------
(* The TCP connection: Unauthenticated and Open are principals of their own. *)

Unauthenticated == [kind |-> "unauthenticated"]
Open == [kind |-> "open"]

initial(s) == IF authentication_required(s) THEN Unauthenticated ELSE Open

\* What the token says, or None.
Candidate(s, token) ==
    IF authentication_required(s) THEN authenticate_principal(s, token) ELSE Open

\* Mutant: a connection may authenticate again as somebody else.
tcp_authenticate_again(s, principal, token) ==
    IF Candidate(s, token) = None THEN principal ELSE Candidate(s, token)

\* A refused token leaves the principal as it is.
TcpPrincipal_authenticate(s, principal, token) ==
    LET candidate == Candidate(s, token)
    IN  IF candidate = None \/ principal \notin {Unauthenticated, candidate}
        THEN principal ELSE candidate

\* The scope and the named agent of a request line.
TcpRule(q) ==
    CASE q.op = "register"                            -> Rule("agent:register", q.agent)
      [] q.op \in {"list_channels", "search", "members", "history"}
                                                      -> Rule("channel:read", None)
      [] q.op \in {"create_channel", "resolve"}       -> Rule("channel:create", q.agent)
      [] q.op \in {"join", "leave"}                   -> Rule("channel:join", q.agent)
      [] q.op = "post"                                -> Rule("channel:post", q.agent)
      [] q.op = "subscribe"                           -> Rule("channel:read", q.agent)
      [] q.op = "get_context"                         -> Rule("context:read", None)
      [] q.op = "set_context"                         -> Rule("context:write", q.agent)
\* Mutant: posting only takes the scope to read.
authorize_adapter_reading(adapter, q) ==
    /\ (IF q.op = "post" THEN "channel:read" ELSE TcpRule(q).scope) \in adapter.scopes
    /\ TcpRule(q).identity_field \in {None, adapter.agent_key}

authorize_adapter(adapter, q) ==
    /\ TcpRule(q).scope \in adapter.scopes
    /\ TcpRule(q).identity_field \in {None, adapter.agent_key}

authorize(principal, q) ==
    CASE principal = Unauthenticated        -> FALSE
      [] principal \in {Open, Operator}     -> TRUE
      [] OTHER                              -> authorize_adapter(principal, q)

\* handle_conn on one request line, then set_context's own check of the key.
TcpAllows(principal, q) ==
    /\ authorize(principal, q)
    /\ q.op = "set_context" => ~is_reserved_context_key(q.key)

-----------------------------------------------------------------------------
(* The two transports side by side.                                         *)

Fields == {"agent_key", "created_by", "updated_by", "from", "requested_by"}
\* What names an agent in its body.
NamingOps == {"register", "join", "leave", "create_channel", "resolve", "post", "set_context"}
TcpOps == NamingOps \cup {"list_channels", "search", "members", "history", "subscribe", "get_context"}

\* An absent value is no field and no rule.
ASSUME NoneAssumption ==
    /\ None \notin Fields
    /\ \A scope \in KNOWN_SCOPES, field \in Fields \cup {None} : Rule(scope, field) # None

\* The agent that a line names, whom its handler seats, records or quotes.
Names(q) == IF q.op \in NamingOps \cup {"subscribe"} THEN q.agent ELSE None

\* The HTTP request that does what a TCP line does; only the field, or the query, that the
\* handler reads names the agent of the line.
MethodOf(op) ==
    CASE op = "set_context" -> "PUT"
      [] op \in {"list_channels", "members", "history", "subscribe", "get_context"} -> "GET"
      [] OTHER -> "POST"
PathOf(q) ==
    CASE q.op = "register"                          -> <<"agents", "register">>
      [] q.op \in {"list_channels", "create_channel"} -> <<"channels">>
      [] q.op \in {"search", "resolve"}             -> <<"channels", q.op>>
      [] q.op \in {"history", "post"}               -> <<"channels", q.channel, "messages">>
      [] q.op = "subscribe"                         -> <<"channels", q.channel, "stream">>
      [] q.op \in {"get_context", "set_context"}    -> <<"channels", q.channel, "context">>
      [] OTHER                                      -> <<"channels", q.channel, q.op>>
HttpOf(q, token) ==
    [method |-> MethodOf(q.op), path |-> PathOf(q), token |-> token, too_large |-> FALSE,
     body |-> [f \in Fields \cup {"key"} |->
                  IF f = "key" THEN q.key
                  ELSE IF f = HandlerField(q.op) THEN q.agent ELSE "nobody"],
     query |-> IF q.op = "subscribe" THEN q.agent ELSE None]

\* What a connection may do with a token over TCP, the token may do over HTTP.
TcpWithinHttp(s, q, token) ==
    TcpAllows(TcpPrincipal_authenticate(s, initial(s), token), q) => HttpAllows(s, HttpOf(q, token))

\* The token of a credential is taken for its agent.  Over TCP nothing passes with it that
\* names another one, and over HTTP only a stream does.
StandsForOne(s, c, lines) ==
    /\ authenticate_principal(s, c.token).agent_key = c.agent_key
    /\ \A q \in lines :
          /\ TcpAllows(TcpPrincipal_authenticate(s, initial(s), c.token), q) =>
                Names(q) \in {None, c.agent_key}
          /\ HttpAllows(s, HttpOf(q, c.token)) =>
                Names(q) \in {None, c.agent_key} \/ q.op = "subscribe"
=============================================================================
