------------------------------ MODULE MCDecisions -----------------------------
(* Inputs for Decisions: small sets that reach each side of every test.     *)
EXTENDS Decisions

-----------------------------------------------------------------------------
(* The Slack adapter.                                                       *)

BaseSettings ==
    [host |-> "loopback", signing_secret |-> "long enough", dry_run |-> FALSE,
     bot_token |-> "xoxb", allowed_team_ids |-> {"T"}, allowed_channel_ids |-> {"C"},
     allowed_thread_ts |-> {}, bot_user_id |-> "B", expected_app_id |-> "A",
     command_prefix |-> "PREFIX", bridge |-> "loopback", bridge_bearer |-> None,
     claude_agent_key |-> "claude", openai_agent_key |-> "gpt",
     idempotency_path |-> "absolute", max_request_age_secs |-> 300,
     workflow_timeout_secs |-> 120, poll_interval_ms |-> 1000, max_body_bytes |-> 262144,
     max_concurrent_workflows |-> 1, claude_command |-> "/my-claude",
     openai_command |-> "/my-chatgpt", claude_model_choices |-> None,
     openai_model_choices |-> None, target_choices |-> None, context_message_max |-> None,
     context_message_default |-> None, linear_api_key |-> None, linear_team_id |-> None]

Texts1 == {None, <<>>, <<"hello">>, <<"PREFIX">>, <<"PREFIX", "work">>,
           <<"MENTION", "PREFIX", "work">>, <<"MENTION", "PREFIX", "cancel">>,
           <<"PREFIX", "cancel", "E1">>, <<"PREFIX", "status", "work">>,
           <<"PREFIX", "--model", "gpt", "work">>, <<"PREFIX", "--model", "cancel">>,
           <<"PREFIX", "work", "cancel">>, <<"PREFIX", "--modelclaude", "work">>,
           <<"PREFIX", "--models", "work">>, <<"PREFIX", "work", "OVERLONG">>}
MCEvents ==
    [settings: {BaseSettings, [BaseSettings EXCEPT !.expected_app_id = None],
                [BaseSettings EXCEPT !.bot_user_id = None, !.allowed_thread_ts = {"t2"}]},
     env: [kind: {"event_callback"}, challenge: {None}, team: {"T", "X"}, app: {"A", "Z"},
           id: {"E1"}, event: {"message", "reaction"}, automated: BOOLEAN,
           user: {"U", "B", None}, channel: {"C", "D", None}, ts: {"t1", None},
           thread: {None, "t2", "malformed"}, text: Texts1]]

MCModals ==
    {[settings |-> [BaseSettings EXCEPT !.claude_model_choices = claude,
                        !.openai_model_choices = openai, !.target_choices = targets,
                        !.context_message_max = most, !.context_message_default = usual],
      form |-> [command |-> command, team |-> "T", channel |-> channel, trigger |-> "t"]] :
        claude \in {None, <<"claude", "opus">>, <<"gpt">>, <<"long">>, <<"opus", "opus">>},
        openai \in {None, <<"gpt", "mini">>, <<"opus">>}, targets \in {None, <<"web">>, <<"long", "web">>},
        most \in {None, 0, 3, 12, 26}, usual \in {None, 0, 4, 10},
        command \in {"/my-claude", "/my-chatgpt", "/other"}, channel \in {"C", "D"}}

Said(kind) ==
    [subtype |-> FALSE, blank |-> kind = "blank", bot |-> kind = "bot",
     user |-> IF kind = "own" THEN "B" ELSE "U",
     size |-> CASE kind = "blank" -> 0 [] kind = "long" -> 9 [] OTHER -> 1]
MCTranscripts ==
    UNION {{[settings |-> BaseSettings, depth |-> depth,
             messages |-> [i \in 1..n |->
                LET m == Said(kinds[i]) IN [subtype |-> m.subtype, blank |-> m.blank,
                    bot |-> m.bot, user |-> m.user, size |-> m.size, at |-> n - i]]] :
                kinds \in [1..n -> {"human", "long", "bot", "own", "blank"}], depth \in {0, 1, 2, 25}} :
            n \in 0..4}

-----------------------------------------------------------------------------
(* The slash commands and the registry.                                     *)

Repo(name, lower) ==
    [name |-> name, lower |-> lower, wellformed |-> name # "malformed",
     cut |-> IF name = "o/r, long" THEN "o/r" ELSE name]
MCRegistries ==
    {[binding |-> [workspace |-> "T", channel |-> "C", team_key |-> "DEN",
                   repositories |-> repositories, default_repository |-> default,
                   modes |-> modes, default_mode |-> mode, users |-> users, groups |-> groups,
                   policy |-> policy,
                   budget |-> [max_concurrent_runs |-> 1, max_runtime_secs |-> 60,
                               max_tokens |-> 1000, max_spend_cents |-> 100, max_retries |-> 0]],
      user |-> user, groups |-> asked] :
        repositories \in {{Repo("o/r", TRUE)}, {Repo("o/r", FALSE), Repo("o/s", TRUE)},
                          {Repo("o/r, long", TRUE)}, {Repo("o/r, long", FALSE), Repo("o/r", TRUE)},
                          {Repo("malformed", TRUE)}},
        default \in {Repo("o/r, long", TRUE), Repo("o/r", TRUE), Repo("o/r", FALSE), Repo("o/s", FALSE)},
        modes \in {{"claude"}, {"claude", "chatgpt"}}, mode \in {"claude", "chatgpt"},
        users \in {{}, {"U"}}, groups \in {{}, {"G"}}, policy \in WritePolicies,
        user \in {"U", "W", "bad"}, asked \in {{}, {"G"}}}

CommandConfig(app, team, open) ==
    [app_id |-> app, team_id |-> team, allow_unpinned_identity |-> open]
Given(key, value) == IF value = None THEN <<>> ELSE <<<<key, value>>>>
MCCommands ==
    {[config |-> config,
      payload |-> Given("command", command) \o Given("api_app_id", app) \o Given("team_id", team)
                  \o Given("channel_id", channel) \o Given("user_id", "U")
                  \o Given("trigger_id", trigger) \o Given(other[1], other[2])] :
        config \in {CommandConfig("A", "T", FALSE), CommandConfig(None, None, TRUE),
                    CommandConfig("A", None, TRUE)},
        command \in {None, "/ores-claude", "/x-chatgpt", "/bogus", "not a string"},
        app \in {None, "A", "B", "!"}, team \in {None, "T", "X"}, channel \in {None, "C", "not a string"},
        trigger \in {"t", ""},
        other \in {<<"text", text>> : text \in {None, "wordy", "over a frame", "over a body"}}
                  \cup {<<"is_enterprise_install", "not a string">>}}
\* With the six other fields "wordy" just fills a frame and "over a frame" a body.
MCEncodedBytes(value) ==
    CASE value = "wordy"        -> 10
      [] value = "over a frame" -> 16
      [] value = "over a body"  -> 17
      [] OTHER                  -> 1

Read(kind) == [bot |-> kind = "bot", subtype |-> FALSE, size |-> IF kind = "long" THEN 3 ELSE 1]
MCHistories ==
    UNION {{[messages |-> [i \in 1..n |-> Read(kinds[i])], count |-> count] :
                kinds \in [1..n -> {"bot", "short", "long"}], count \in {0, 5}} : n \in {1, 3, 7}}

-----------------------------------------------------------------------------
(* The policy engine.                                                       *)

Provider(key, order, availability, cost, capabilities) ==
    [key |-> key, order |-> order, available |-> TRUE, availability |-> availability,
     trusted |-> key # "p4", capabilities |-> capabilities, quality |-> 9000 - order,
     health |-> 9000, errors |-> 0, latency |-> 10, cost |-> cost]
Security == {"security"}
ProviderLists ==
    LET p1 == Provider("p1", 1, "degraded", 3000000, Security)
        p2 == Provider("p2", 2, "available", 1000000, Security)
        p3 == Provider("p3", 3, "available", 4000000, Security)
        p4 == Provider("p4", 4, "available", 30000000, Security)
        down(p) == [p EXCEPT !.availability = "outage"]
    IN  {<<p1>>, <<p1, p2>>, <<p1, p2, p3, p4>>, <<p1, p2, down(p3), p4>>,
         <<p1, down(p2), down(p3), [p4 EXCEPT !.cost = 1]>>}
NoLimits == [k \in {"providers", "rounds", "wall_clock", "retries", "concurrency", "cost"} |-> None]
MCPolicies ==
    [risk: {"low", "medium", "high"}, sensitivity: {"internal", "restricted"}, write: BOOLEAN,
     capabilities: {{}, Security}, mode: {None, "competitive", "consensus"},
     protocol: {None, "direct", "blind_candidates_with_reviewer_reveal"},
     required: {<<>>, <<"p1">>, <<"p1", "p2">>}, reviewer: {None, "p3"},
     degradation: {None, "reduce_provider_count", "queue_until_required_providers_are_available"},
     budget: {NoLimits, [NoLimits EXCEPT !.providers = 2, !.cost = 5000000]},
     providers: ProviderLists, duration: {1000}]

-----------------------------------------------------------------------------
(* Access control.                                                          *)

Credential(id, token, agent, scopes, enabled) ==
    [token_id |-> id, token |-> token, agent_key |-> agent, scopes |-> scopes, enabled |-> enabled]
ReadOnly == {"channel:read", "context:read"}
Writes == {"channel:post", "channel:join", "channel:create", "context:write", "agent:register"}
Holders ==
    {Credential("i1", "t1", "a", ReadOnly, TRUE), Credential("i1", "t1", "a", Writes, TRUE),
     Credential("i1", "t2", "b", Writes, TRUE), Credential("i2", "t1", "b", Writes, TRUE),
     Credential("i2", "t2", "b", ReadOnly \cup Writes, TRUE),
     Credential("i1", "t1", "b", ReadOnly \cup Writes, TRUE),
     Credential("i2", "t2", "b", {"workflow:everything"}, TRUE),
     Credential("i2", "bearer", "b", ReadOnly, TRUE), Credential("i2", "t1", "b", Writes, FALSE)}
MCCredentials ==
    [bearer: {None, "bearer"},
     document: {<<>>} \cup {<<h>> : h \in Holders} \cup {<<g, h>> : g, h \in Holders}]
MCLines ==
    [op: {"list_channels", "search", "members", "history", "get_context"}, channel: {"room"},
     agent: {None}, key: {<<"", "k">>}]
    \cup [op: {"register", "create_channel", "resolve", "join", "leave", "post"},
          channel: {"room"}, agent: {"a", "b", ""}, key: {<<"", "k">>}]
    \cup [op: {"subscribe"}, channel: {"room"}, agent: {None, "a", "b"}, key: {<<"", "k">>}]
    \cup [op: {"set_context"}, channel: {"room"}, agent: {"a", "b"},
          key: {<<"", "k">>, <<"workflow", "plan">>}]
MCFrames == {<<x, y, z>> : x, y, z \in {"t1", "t2", "bearer", "wrong"}}

-----------------------------------------------------------------------------
(* Provider calls.                                                          *)

Exchange(sent, status, body, after) ==
    [sent |-> sent, status |-> status, body |-> body, code |-> "overloaded", retry_after |-> after]
Exchanges ==
    {Exchange("connect", None, None, None), Exchange("timeout", None, None, None),
     Exchange("reset", None, None, None), Exchange("complete", 504, "text", None),
     Exchange("complete", 200, "text", None), Exchange("complete", 200, "broken", None),
     Exchange("complete", 200, "junk", None), Exchange("complete", 503, "text", None),
     Exchange("complete", 503, "too_long", None), Exchange("complete", 429, "junk", 90),
     Exchange("complete", 429, "junk", 4000), Exchange("complete", 401, "text", 0)}
MCCalls ==
    [policy: [max_retries: {2, 6}, base_delay_ms: {10, 60}, max_delay_ms: {50, 100},
              max_total_delay_ms: {150}, retryable_statuses: {{429, 503, 504}, {401}},
              retry_connect_errors: {TRUE}, retry_timeout_errors: BOOLEAN],
     exchanges: [1..3 -> Exchanges], bps: {5000, 10000}]

MCOrigins ==
    [url: [scheme: {"http", "https", "ftp"}, host: {"localhost", "bridge.svc", "remote"}],
     bearer: {None, "secret"},
     hosts: {None, <<"bridge.svc">>, <<"remote">>, <<"bridge.svc", "remote">>}]
=============================================================================
