------------------------------- MODULE Decisions ------------------------------
(***************************************************************************)
(* What the pure decisions of the system promise, over chosen inputs: the   *)
(* Slack adapters, the project registry, the policy engine, access control  *)
(* and provider calls.  A state is one input; nothing changes.              *)
(***************************************************************************)
EXTENDS SlackIngress, SlackCommandIntake, PolicyEngine, AccessControl, ProviderCalls

CONSTANTS
    Events,       \* [settings, env]
    Modals,       \* [settings, form]
    Transcripts,  \* [settings, messages, depth]
    Registries,   \* [document, binding, user, groups]
    Commands,     \* [config, payload]
    Histories,    \* [messages, count]
    Policies,     \* policy requests
    Credentials,  \* [bearer, document]
    Lines,        \* TCP request lines
    Frames,       \* sequences of tokens a TCP client authenticates with
    Calls,        \* [policy, exchanges, bps]
    Origins       \* [url, bearer, hosts]

VARIABLES input, about

vars == <<input, about>>

Init ==
    \/ about = "event" /\ input \in Events
    \/ about = "modal" /\ input \in Modals
    \/ about = "transcript" /\ input \in Transcripts
    \/ about = "registry" /\ input \in Registries
    \/ about = "command" /\ input \in Commands
    \/ about = "history" /\ input \in Histories
    \/ about = "policy" /\ input \in Policies
    \/ about = "access" /\ input \in Credentials
    \/ about = "call" /\ input \in Calls
    \/ about = "origin" /\ input \in Origins

Next == UNCHANGED vars
Spec == Init /\ [][Next]_vars

-----------------------------------------------------------------------------
(* The Slack adapter.                                                       *)

\* Work starts only for a person of an allowed team and channel, through the expected app,
\* and never for the adapter's own messages (which repeat commands) or for a control verb.
WorkIsAuthorised == about = "event" =>
    LET c == SlackConfig_from_env(input.settings)
        d == classify_event(c, input.env)
    IN  c # None /\ d.kind = "accept" =>
            /\ AuthorisedEvent(c, input.env)
            /\ \E i \in 1..2 : /\ i < Len(input.env.text) /\ input.env.text[i] = "PREFIX"
                             /\ i = 2 => input.env.text[1] = "MENTION"
                             /\ input.env.text[i + 1] \notin ControlVerbs

\* Whatever the settings are, every choice the modal offers (no key being cut) is accepted
\* when it comes back, goes to an agent of the provider that was invoked and to none of the
\* other's, and asks for no more messages than the settings allow.
ModalRoundTrip == about = "modal" =>
    LET c         == SlackConfig_from_env(input.settings)
        view      == build_modal(c, input.form)
        back(model, target, depth) ==
            [wellformed |-> TRUE, kind |-> "view_submission", has_view |-> TRUE,
             callback |-> "agent_dispatch", team |-> None, meta |-> view.meta,
             prompt |-> <<"work">>, model |-> model, target |-> target,
             view |-> "V1", depth |-> depth]
        other     == IF view.meta.provider = "claude" THEN "chatgpt" ELSE "claude"
    IN  c # None /\ slack_commands(c, input.form) = "open_modal" =>
            \A model \in ToSet(view.models) \ {"long, cut"},
               target \in (ToSet(view.targets) \ {"long, cut"}) \cup {None},
               depth \in ToSet(view.depths) \cup {None, view.initial_depth, 25} :
                LET d == DispatchDecision(c, back(model, target, depth))
                IN  /\ d.kind = "dispatch"
                    /\ d.agent \notin ToSet(ProviderChoices(c, other))
                    /\ d.depth \in 0..c.context_message_max

\* Of the messages Slack returns, newest first, the transcript is made of the newest ones
\* of people, as many as were asked for if there are so many, oldest first and nothing of
\* a bot; it stays within its limit, and loses something only when they do not fit, from
\* its end.  (So it is the newest messages that a full block lacks.)
TranscriptFromNewest == about = "transcript" =>
    LET c       == SlackConfig_from_env(input.settings)
        t       == render_context(c, input.messages, input.depth)
        human   == {i \in DOMAIN input.messages : HumanMessage(c, input.messages[i])}
        newer(i) == {j \in human : input.messages[j].at > input.messages[i].at}
        wanted  == {i \in human : Cardinality(newer(i)) < input.depth}
        heard   == {t[k].said.at : k \in DOMAIN t}
        bytes   == FoldSet(LAMBDA i, n : n + 1 + Least(input.messages[i].size,
                                MAX_SINGLE_CONTEXT_MESSAGE_BYTES), 0, wanted)
    IN  c # None =>
        /\ gather_channel_context(input.depth) >= input.depth
        /\ heard \subseteq {input.messages[i].at : i \in wanted}
        /\ \A k, l \in DOMAIN t : k < l => t[k].said.at < t[l].said.at
        /\ BlockBytes(t) <= MAX_CONTEXT_BLOCK_BYTES
        /\ bytes <= MAX_CONTEXT_BLOCK_BYTES => heard = {input.messages[i].at : i \in wanted}
        /\ \A i \in wanted : input.messages[i].at \notin heard =>
              /\ \A at \in heard : at < input.messages[i].at
              /\ BlockBytes(t) = MAX_CONTEXT_BLOCK_BYTES - SUFFIX_BYTES

-----------------------------------------------------------------------------
(* The slash commands and the project registry.                             *)

\* In an accepted registry the defaults of a binding, and every repository and write scope
\* that its modal offers, resolve for its users and groups, however they are spelled, and
\* to the repository that was picked.  Only a name that had to be cut to fit an option may
\* be refused, or be taken for a listed repository with just that shorter name.
OffersResolve == about = "registry" =>
    LET b        == input.binding
        registry == from_json([schema_version |-> 1, bindings |-> <<b>>])
        view     == modal(b.default_mode, b, 5)
        ask(repository, capability) ==
            resolve(registry, [workspace |-> b.workspace, channel |-> b.channel,
                user |-> input.user, groups |-> input.groups, repository |-> repository,
                mode |-> None, capability |-> capability, issue |-> None])
        known    == input.user \in b.users \/ input.groups \cap b.groups # {}
    IN  registry # None /\ {input.user} \cup input.groups \subseteq StableIds =>
            /\ view.initial_repository = option(b.default_repository)
            /\ \A picked \in b.repositories \cup {b.default_repository}, scope \in view.write_scopes :
                LET r       == ask(option(picked), CapabilityOf(scope))
                    default == ask(None, CapabilityOf(scope))
                IN  /\ option(picked) \in view.repositories \cup {view.initial_repository}
                    /\ default.ok = known
                    /\ known => default.repository = normalize_repository(b.default_repository)
                    /\ IF ~known THEN ~r.ok
                       ELSE IF picked.cut = picked.name
                       THEN r.ok /\ r.repository = normalize_repository(picked)
                       ELSE r.ok => r.repository.name = picked.cut

\* A Socket Mode frame is taken for exactly the command that the signed form with the same
\* fields is, the identity and the fields being checked alike on both transports; only a
\* form that is longer than a frame may be is taken from a request and not from a frame.
TransportsAgree == about = "command" =>
    LET strings == StringFields(input.payload)
        named   == SelectSeq(strings, LAMBDA p : p[1] = "command")
        path    == IF named # <<>> /\ from_command(named[1][2]) = "chatgpt"
                   THEN "ores-chatgpt" ELSE "ores-claude"
        taken   == SocketCommand(input.config, input.payload)
    IN  IF encoded_len(strings) <= SOCKET_MODE_MAX_FRAME_BYTES
        THEN taken = HttpCommand(input.config, path, strings)
        ELSE taken = None

\* The context of a run is a run of consecutive kept messages that ends with the newest,
\* oldest first, within both limits, and the next one would not have fitted.
ContextIsNewestRun == about = "history" =>
    LET kept  == SelectSeq(input.messages, Kept)
        taken == Reverse(context(input.messages, input.count))
        size(s) == FoldLeft(LAMBDA sum, m : sum + truncate(m.size), 0, s)
    IN  /\ IsPrefix(taken, kept)
        /\ Len(taken) <= input.count
        /\ size(taken) <= MAX_CONTEXT_TOTAL_BYTES
        /\ Len(taken) < Least(input.count, Len(kept)) =>
              size(SubSeq(kept, 1, Len(taken) + 1)) > MAX_CONTEXT_TOTAL_BYTES

-----------------------------------------------------------------------------
(* The policy engine.                                                       *)

\* A shortage of providers degrades a request only where that is safe.
DegradesOnlyWhenSafe ==
    about = "policy" => SafeDegradation(input, evaluate(input), Requirements(input))

\* An execution has every required provider and the reviewer last, each eligible and once,
\* enough of them for its mode, and stays within the budget it was given.
HonouredBy(q, d) ==
    LET keys == {p.key : p \in ToSet(d.chosen)}
    IN  d # None /\ d.allowed =>
        /\ RequiredSelection(q) \subseteq keys
        /\ Cardinality(keys) = Len(d.chosen)
        /\ \A p \in ToSet(d.chosen) : Eligible(q, p)
        /\ q.reviewer # None => Last(d.chosen).key = q.reviewer /\ d.mode = "consensus"
        /\ Len(d.chosen) \in minimum_provider_count(d.mode)..d.budget.providers
        /\ total_estimated_cost(d.chosen) <= d.budget.cost
        /\ protocol_required_mode(d.protocol) = d.mode
SelectionHonoursRequest == about = "policy" => HonouredBy(input, evaluate(input))

-----------------------------------------------------------------------------
(* Access control.                                                          *)

\* A credential that may do something over TCP may do the same over HTTP.
TcpGrantsWithinHttp == about = "access" =>
    LET s == from_optional_json(input.bearer, input.document)
    IN  s # None => \A q \in Lines, token \in Texts : TcpWithinHttp(s, q, token)

\* A token stands for one agent: a request that names another one does not pass with it,
\* over TCP none and over HTTP none but the stream of a channel, whose agent_key the
\* middleware does not look at although the handler seats whom it names.
ActsAsItself == about = "access" =>
    LET s == from_optional_json(input.bearer, input.document)
    IN  s # None => \A c \in {d \in ToSet(input.document) : d.enabled} :
            /\ c \in ToSet(s.credentials)
            /\ StandsForOne(s, c, Lines)

\* Once a TCP connection has a principal, no sequence of further tokens gives it another.
PrincipalIsFixed == about = "access" =>
    LET s == from_optional_json(input.bearer, input.document)
        after(tokens) == FoldLeft(LAMBDA p, t : TcpPrincipal_authenticate(s, p, t),
                                  initial(s), tokens)
    IN  s # None => \A f \in Frames : \A i \in 1..Len(f) :
            after(SubSeq(f, 1, i)) # Unauthenticated => after(f) = after(SubSeq(f, 1, i))

-----------------------------------------------------------------------------
(* Provider calls.                                                          *)

\* Whatever a provider answers, the retries and their delays stay within the policy.
RetryBudgetKept == about = "call" =>
    LET p   == RetryPolicy_validate(input.policy)
        run == execute_with_retries(p, input.exchanges, input.bps)
    IN  p # None => run.spent <= p.max_total_delay_ms /\ run.made <= p.max_retries

\* What is repeated never got through, or was answered in full with a failure that may be
\* repeated (which a gateway may give although the provider did the work), or timed out
\* where the policy allows it; a call whose answer was lost or broke off is not repeated.
NoRepeatOfAnswered == about = "call" =>
    LET p   == RetryPolicy_validate(input.policy)
        run == execute_with_retries(p, input.exchanges, input.bps)
    IN  p # None => \A x \in ToSet(run.repeated) :
            \/ x.sent = "connect"
            \/ x.sent = "timeout" /\ p.retry_timeout_errors
            \/ x.sent = "complete" /\ status_may_be_retried(x.status)

\* A bearer or a provider key leaves the host only over HTTPS, or in the cluster to a host
\* that was listed; and a service on another host always gets a bearer.
OriginsAreProtected == about = "origin" =>
    /\ validate_service_origin(input.url, input.bearer, input.hosts) =>
          /\ input.url.host \in LoopbackHosts \/ input.bearer # None
          /\ input.url.scheme = "http" => input.url.host \in LoopbackHosts \cup ClusterHosts
    /\ parse_provider_configs(<<[name |-> "p", model |-> "m", api_key_env |-> "KEY",
            timeout_secs |-> 1, connect_timeout_secs |-> 1, max_response_bytes |-> 1,
            base_url |-> [scheme |-> input.url.scheme, host |-> input.url.host, plain |-> TRUE],
            allowed_hosts |-> {}]>>) =>
          (input.url.scheme = "http" => input.url.host \in LoopbackHosts)

-----------------------------------------------------------------------------
(* The promises of each part together, as the run checks them.              *)

\* The event adapter acts only on what an allowed member asked for, offers in a modal
\* what it takes back, and takes its transcript from the newest part of a channel.
SlackIntakeSound == WorkIsAuthorised /\ ModalRoundTrip /\ TranscriptFromNewest

\* The command adapter offers what it resolves, takes one command from either
\* transport, and reads the newest run of the channel.
CommandIntakeSound == OffersResolve /\ TransportsAgree /\ ContextIsNewestRun

\* The policy engine neither weakens what the risk demands nor loses what was required.
PolicyIsKept == DegradesOnlyWhenSafe /\ SelectionHonoursRequest

\* A credential acts for its own agent (on a stream, only over TCP), may do over HTTP what
\* it may do over TCP, and is sent only where it is protected.
CredentialsAreKept ==
    /\ TcpGrantsWithinHttp
    /\ ActsAsItself
    /\ PrincipalIsFixed
    /\ OriginsAreProtected

\* Retries stay within their policy and repeat no call whose answer was lost or broke off.
RetriesAreSafe == RetryBudgetKept /\ NoRepeatOfAnswered
=============================================================================
