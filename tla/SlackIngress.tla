----------------------------- MODULE SlackIngress -----------------------------
(***************************************************************************)
(* What the Slack adapter decides about one request before it changes any  *)
(* state: the signature window, classify_event and parse_command for       *)
(* /slack/events, the checks of /slack/commands and /slack/interactions,   *)
(* and the transcript a dispatch carries.  A text is the sequence of its   *)
(* whitespace-separated tokens, "OVERLONG" one that takes it over           *)
(* MAX_PROMPT_BYTES; an absent field is None.                               *)
(***************************************************************************)
EXTENDS Optional, Integers, Sequences, SequencesExt, Functions

CONSTANTS ValidIds,   \* what valid_event_id accepts
          MAX_SINGLE_CONTEXT_MESSAGE_BYTES,
          MAX_CONTEXT_BLOCK_BYTES,
          SUFFIX_BYTES   \* of the mark that truncate_utf8 ends a cut text with

-----------------------------------------------------------------------------
(* SlackConfig::from_env: the settings, or None when the process refuses to *)
(* start.  "bad" is an identifier or a token that is not accepted.          *)

AbsentOr(value, default) == IF value = None THEN default ELSE value

\* optional_csv_list: repeated entries are refused, not collapsed.
optional_csv_list(values) == values # None =>
    values # <<>> /\ IsInjective(values) /\ "bad" \notin ToSet(values)

\* https, or anything on a loopback host; a remote bridge needs a bearer.
bridge_url_allowed(e) ==
    /\ e.bridge \in {"loopback", "https"}
    /\ e.bridge # "loopback" => e.bridge_bearer # None

NumbersInRange(e) ==
    /\ e.max_request_age_secs \in 1..300
    /\ e.workflow_timeout_secs \in 5..900
    /\ e.poll_interval_ms \in 100..10000
    /\ e.max_body_bytes \in 1024..1048576
    /\ e.max_concurrent_workflows \in 1..128

SlackConfig_from_env(e) ==
    LET claude == AbsentOr(e.claude_model_choices, <<e.claude_agent_key>>)
        openai == AbsentOr(e.openai_model_choices, <<e.openai_agent_key>>)
        most   == AbsentOr(e.context_message_max, 25)
        usual  == AbsentOr(e.context_message_default, IF most < 5 THEN most ELSE 5)
    IN  IF /\ e.signing_secret = "long enough"
           /\ ~e.dry_run => e.bot_token # None
           /\ e.allowed_team_ids # {} /\ e.allowed_channel_ids # {}
           /\ "bad" \notin e.allowed_team_ids \cup e.allowed_channel_ids
                  \cup e.allowed_thread_ts \cup {e.bot_user_id, e.expected_app_id}
           /\ e.expected_app_id = None => e.host = "loopback"
           /\ "bad" \notin {e.command_prefix, e.claude_command, e.openai_command}
           /\ bridge_url_allowed(e)
           /\ "bad" \notin {e.claude_agent_key, e.openai_agent_key}
           /\ e.claude_agent_key # e.openai_agent_key
           /\ e.idempotency_path = "absolute"
           /\ NumbersInRange(e)
           /\ e.claude_command # e.openai_command
           /\ optional_csv_list(e.claude_model_choices)
           /\ optional_csv_list(e.openai_model_choices)
           /\ ToSet(claude) \cap ToSet(openai) = {}
           /\ optional_csv_list(e.target_choices)
           /\ most \in 0..25 /\ usual \in 0..most
           /\ e.linear_team_id # None => e.linear_api_key # None
        THEN [e EXCEPT !.claude_model_choices = claude, !.openai_model_choices = openai,
                       !.target_choices = AbsentOr(@, <<>>),
                       !.context_message_max = most, !.context_message_default = usual]
        ELSE None

-----------------------------------------------------------------------------
(* The signed timestamp may be off by maxAge in either direction; the age   *)
(* is tested before the signature is compared.                              *)

verify_slack_signature(timestamp, now, signature, maxAge) ==
    LET age == IF now >= timestamp THEN now - timestamp ELSE timestamp - now
    IN  IF timestamp = None THEN "missing"
        ELSE IF age > maxAge THEN "stale"
        ELSE IF signature = None THEN "missing"
        ELSE IF signature # "authentic" THEN "invalid"
        ELSE "ok"

-----------------------------------------------------------------------------
(* `<prefix> ...` in a message.                                             *)

ControlVerbs == {"status", "cancel"}

NotCommand == [kind |-> "not_command"]
Invalid == [kind |-> "invalid"]

strip_leading_mention(text) ==
    IF text # <<>> /\ Head(text) = "MENTION" THEN Tail(text) ELSE text

ModelSelection_parse(value) ==
    CASE value = "claude"                       -> "claude"
      [] value \in {"chatgpt", "openai", "gpt"} -> "chatgpt"
      [] value = "both"                         -> "both"
      [] OTHER                                  -> None

ControlCommand(words) ==
    IF Len(words) = 2 /\ words[2] \in ValidIds
    THEN [kind |-> words[1], target |-> words[2]]
    ELSE Invalid

\* strip_prefix("--model"): what is left of a word, which need not end with the flag.
AfterModelFlag(word) ==
    CASE word = "--model"       -> ""
      [] word = "--modelclaude" -> "claude"
      [] word = "--models"      -> "s"
      [] OTHER                  -> None

PromptCommand(words) ==
    LET glued == AfterModelFlag(Head(words))
        rest  == (IF glued = "" THEN <<>> ELSE <<glued>>) \o Tail(words)
    IN  IF glued = None
        THEN [kind |-> "prompt", prompt |-> words, selection |-> "both"]
        ELSE IF Len(rest) < 2 \/ ModelSelection_parse(rest[1]) = None THEN Invalid
        ELSE [kind |-> "prompt", prompt |-> Tail(rest),
              selection |-> ModelSelection_parse(rest[1])]

parse_command(raw) ==
    LET text  == strip_leading_mention(raw)
        words == Tail(text)
    IN  IF text = <<>> \/ Head(text) # "PREFIX" THEN NotCommand
        ELSE IF words = <<>> THEN Invalid
        ELSE IF ToSet(words) \cap {"NUL", "OVERLONG"} # {} THEN Invalid
        ELSE IF Head(words) \in ControlVerbs THEN ControlCommand(words)
        ELSE PromptCommand(words)

-----------------------------------------------------------------------------
(* classify_event: the first test that fails decides.                       *)

TimestampOk(ts) == ts \notin {None, "malformed"}

ClassifyHandshake(c, env) ==
    IF env.team # None /\ env.team \notin c.allowed_team_ids THEN [kind |-> "ignore"]
    ELSE IF env.challenge = "good" THEN [kind |-> "challenge"]
    ELSE [kind |-> "reject"]

\* Mutant: only messages that carry a bot id are taken for the adapter's own.
classify_message_by_bot_id(c, env) ==
    LET parsed == parse_command(env.text)
    IN  IF \/ env.event \notin {"message", "app_mention"} \/ env.automated \/ env.user = None
           \/ env.channel \notin c.allowed_channel_ids \/ ~TimestampOk(env.ts)
           \/ env.text = None \/ parsed.kind # "prompt"
        THEN [kind |-> "ignore"]
        ELSE [kind |-> "accept", id |-> env.id, thread |-> env.ts, selection |-> parsed.selection]

ClassifyMessage(c, env) ==
    LET thread == IF env.thread = None THEN env.ts ELSE env.thread
        parsed == parse_command(env.text)
    IN  IF env.event \notin {"message", "app_mention"} THEN [kind |-> "ignore"]
        ELSE IF env.automated THEN [kind |-> "ignore"]
        ELSE IF env.user = None THEN [kind |-> "ignore"]
        ELSE IF c.bot_user_id # None /\ env.user = c.bot_user_id THEN [kind |-> "ignore"]
        ELSE IF env.channel = None THEN [kind |-> "reject"]
        ELSE IF env.channel \notin c.allowed_channel_ids THEN [kind |-> "ignore"]
        ELSE IF ~TimestampOk(env.ts) \/ ~TimestampOk(thread) THEN [kind |-> "reject"]
        ELSE IF c.allowed_thread_ts # {} /\ thread \notin c.allowed_thread_ts
        THEN [kind |-> "ignore"]
        ELSE IF env.text = None THEN [kind |-> "ignore"]
        ELSE IF parsed = NotCommand THEN [kind |-> "ignore"]
        ELSE IF parsed = Invalid THEN [kind |-> "reject"]
        ELSE IF parsed.kind \in ControlVerbs THEN parsed
        ELSE [kind |-> "accept", id |-> env.id, thread |-> thread,
              selection |-> parsed.selection]

classify_event(c, env) ==
    IF env.kind = "url_verification" THEN ClassifyHandshake(c, env)
    ELSE IF env.kind # "event_callback" THEN [kind |-> "ignore"]
    ELSE IF env.team = None THEN [kind |-> "reject"]
    ELSE IF env.team \notin c.allowed_team_ids THEN [kind |-> "ignore"]
    ELSE IF c.expected_app_id # None /\ env.app # c.expected_app_id
    THEN [kind |-> "reject_foreign_app"]
    ELSE IF env.id \notin ValidIds THEN [kind |-> "reject"]
    ELSE IF env.event = None THEN [kind |-> "reject"]
    ELSE ClassifyMessage(c, env)

-----------------------------------------------------------------------------
(* The slash command and the modal it opens.                                *)

channel_is_allowed(c, team, channel) ==
    team \in c.allowed_team_ids /\ channel \in c.allowed_channel_ids

ProviderChoices(c, provider) ==
    IF provider = "claude" THEN c.claude_model_choices ELSE c.openai_model_choices

ProviderOf(c, command) ==
    IF command = c.claude_command THEN "claude"
    ELSE IF command = c.openai_command THEN "chatgpt"
    ELSE None

slack_commands(c, form) ==
    IF ProviderOf(c, form.command) = None THEN "unknown"
    ELSE IF ~channel_is_allowed(c, form.team, form.channel) THEN "policy"
    ELSE IF form.trigger = None THEN "malformed"
    ELSE IF c.dry_run THEN "dry_run"
    ELSE "open_modal"

\* Slack takes at most 150 bytes for the value of an option.
option_value(choice) == IF choice = "long" THEN "long, cut" ELSE choice

\* The choices the modal offers; Slack echoes back one of them, or anything.
build_modal(c, form) ==
    LET provider  == ProviderOf(c, form.command)
        cut(list) == [i \in DOMAIN list |-> option_value(list[i])]
        depths    == SelectSeq(<<0, 5, 10, 25>>, LAMBDA d : d <= c.context_message_max)
    IN  [meta |-> [provider |-> provider, team |-> form.team, channel |-> form.channel],
         models |-> cut(ProviderChoices(c, provider)),
         targets |-> cut(c.target_choices),
         depths |-> depths,
         initial_depth |-> IF Contains(depths, c.context_message_default)
                           THEN c.context_message_default ELSE depths[1]]

\* Mutant: the depth that comes back is used as it is.
context_depth_unbounded(c, selected) == AbsentOr(selected, c.context_message_default)

ContextDepth(c, selected) ==
    LET depth == AbsentOr(selected, c.context_message_default)
    IN  IF depth > c.context_message_max THEN c.context_message_max ELSE depth

\* slack_interactions up to the permit: what a submission is turned into.
DispatchDecision(c, p) ==
    LET team     == IF p.team # None THEN p.team ELSE p.meta.team
        rejected == [kind |-> "rejected"]
    IN  IF ~p.wellformed THEN rejected
        ELSE IF p.kind # "view_submission" THEN [kind |-> "ignored"]
        ELSE IF ~p.has_view THEN rejected
        ELSE IF p.callback # "agent_dispatch" THEN [kind |-> "ignored"]
        ELSE IF p.meta = None THEN rejected
        ELSE IF ~channel_is_allowed(c, team, p.meta.channel) THEN rejected
        ELSE IF p.meta.provider \notin {"claude", "chatgpt"} THEN rejected
        ELSE IF p.prompt = <<>> \/ Contains(p.prompt, "OVERLONG") THEN rejected
        ELSE IF ~Contains(ProviderChoices(c, p.meta.provider), p.model) THEN rejected
        ELSE IF p.target # None /\ ~Contains(c.target_choices, p.target) THEN rejected
        ELSE IF p.view \notin ValidIds THEN rejected
        ELSE [kind |-> "dispatch", id |-> <<p.meta.provider, p.view>>,
              agent |-> p.model, team |-> team, channel |-> p.meta.channel,
              depth |-> ContextDepth(c, p.depth)]

-----------------------------------------------------------------------------
(* What whoever is served must be: a member of an allowed team who writes in *)
(* an allowed channel through the expected app.                              *)

AuthorisedEvent(c, env) ==
    /\ channel_is_allowed(c, env.team, env.channel)
    /\ c.expected_app_id \in {None, env.app}
    /\ ~env.automated /\ env.user \notin {None, c.bot_user_id}
    /\ c.allowed_thread_ts # {} =>
          {env.thread, env.ts} \cap c.allowed_thread_ts # {}

AuthorisedSubmission(c, p) ==
    /\ channel_is_allowed(c, IF p.team # None THEN p.team ELSE p.meta.team, p.meta.channel)
    /\ Contains(ProviderChoices(c, p.meta.provider), p.model)
    /\ p.prompt # <<>>

-----------------------------------------------------------------------------
(* The transcript: Slack answers newest first, the agent reads oldest first. *)
(* It is the sequence of its lines, each with the message and the bytes that *)
(* are left of it.                                                           *)

MAX_HISTORY_FETCH == 100

gather_channel_context(depth) ==
    LET wanted == depth * 4
    IN  IF wanted < depth THEN depth
        ELSE IF wanted > MAX_HISTORY_FETCH THEN MAX_HISTORY_FETCH ELSE wanted

HumanMessage(c, m) ==
    /\ ~m.subtype /\ ~m.blank /\ ~m.bot
    /\ m.user # None
    /\ c.bot_user_id = None \/ m.user # c.bot_user_id

Fewer(a, b) == IF a < b THEN a ELSE b

\* The bytes a message takes in the block, the line's end included.
Line(m) == [said |-> m, bytes |-> Fewer(m.size, MAX_SINGLE_CONTEXT_MESSAGE_BYTES) + 1]
BlockBytes(lines) == FoldLeft(LAMBDA n, line : n + line.bytes, 0, lines)

\* truncate_utf8 of the joined lines: the end is cut, which is the newest.
truncate_utf8(lines) ==
    LET limit   == MAX_CONTEXT_BLOCK_BYTES - SUFFIX_BYTES
        left(i) == limit - BlockBytes(SubSeq(lines, 1, i - 1))
        begun   == SelectSeq([i \in DOMAIN lines |-> i], LAMBDA i : left(i) > 0)
    IN  IF BlockBytes(lines) <= MAX_CONTEXT_BLOCK_BYTES THEN lines
        ELSE [i \in DOMAIN begun |-> [lines[i] EXCEPT !.bytes = Fewer(@, left(i))]]

\* Mutant: the messages are put in order before they are picked.
picked_oldest(c, messages, depth) ==
    LET human == Reverse(SelectSeq(messages, LAMBDA m : HumanMessage(c, m)))
    IN  SubSeq(human, 1, Fewer(Len(human), depth))

\* The newest messages of people, oldest first.
Picked(c, messages, depth) ==
    LET human == SelectSeq(messages, LAMBDA m : HumanMessage(c, m))
    IN  Reverse(SubSeq(human, 1, Fewer(Len(human), depth)))

\* Mutant: only a line is cut, never the block.
render_context_uncut(c, messages, depth) ==
    LET picked == Picked(c, messages, depth) IN [i \in DOMAIN picked |-> Line(picked[i])]

render_context(c, messages, depth) ==
    LET picked == Picked(c, messages, depth)
    IN  truncate_utf8([i \in DOMAIN picked |-> Line(picked[i])])

=============================================================================
