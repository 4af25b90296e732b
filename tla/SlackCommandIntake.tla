-------------------------- MODULE SlackCommandIntake --------------------------
(***************************************************************************)
(* What fiducia-slack-command decides without changing state: its settings, *)
(* the pinned identity, the two encodings of a slash command (a signed form *)
(* or a Socket Mode frame), the run a command or a modal asks for, the      *)
(* channel context it carries, readiness and the reconnect delay.  A form   *)
(* is a sequence of <<key, value>>; a prompt is the sequence of its tokens, *)
(* each with the team key and the digits around its first hyphen.           *)
(***************************************************************************)
EXTENDS ProjectRegistry, ServiceOrigin, FiniteSetsExt

CONSTANTS UpperKeys,           \* 2 to 10 upper-case letters
          Identifiers,         \* what identifier() accepts
          MAX_FORM_FIELDS,
          EncodedBytes(_),     \* the length of a field in a form, as its value makes it
          MAX_BODY_BYTES,
          SOCKET_MODE_MAX_FRAME_BYTES,
          MAX_PROMPT_BYTES,    \* of a prompt, a token counting as one
          MAX_CONTEXT_MESSAGE_BYTES,
          MAX_CONTEXT_TOTAL_BYTES

ContextChoices == {0, 5, 10, 20}

-----------------------------------------------------------------------------
(* Settings.                                                                *)

validate_app_token(socketMode, token) ==
    /\ token # None => token = "xapp"
    /\ socketMode => token # None

\* Config::from_env: a remote service needs its bearer.
from_env(c) ==
    /\ c.signing_secret # None /\ c.bot_token # None
    /\ c.absolute_paths
    /\ \A s \in {c.bridge, c.coordinator} :
          validate_service_origin(s.url, s.bearer, c.internal_http_hosts)
    /\ c.slack_api \in {"slack.com", "loopback"}
    /\ c.context_messages \in ContextChoices
    /\ validate_app_token(c.socket_mode, c.app_token)
    /\ {c.claude_agent, c.chatgpt_agent} \subseteq Identifiers
    /\ c.max_concurrent_runs \in 1..128

agent_key(c, provider) == IF provider = "claude" THEN c.claude_agent ELSE c.chatgpt_agent

\* Both identifiers, or neither and an explicit opt-out; "error" otherwise.
configured_slack_identity(c) ==
    CASE c.app_id # None /\ c.team_id # None /\ {c.app_id, c.team_id} \subseteq Identifiers
                                    -> [pinned |-> TRUE, app |-> c.app_id, team |-> c.team_id]
      [] c.app_id = None /\ c.team_id = None /\ c.allow_unpinned_identity
                                    -> [pinned |-> FALSE]
      [] OTHER                      -> None

-----------------------------------------------------------------------------
(* Slash commands.                                                          *)

ClaudeCommands == {"/ores-claude", "/x-claude", "/my-claude", "/x-ores-claude"}
ChatgptCommands == {"/ores-chatgpt", "/x-chatgpt", "/my-chatgpt", "/x-ores-chatgpt"}

from_command(c) ==
    CASE c \in ClaudeCommands  -> "claude"
      [] c \in ChatgptCommands -> "chatgpt"
      [] OTHER                 -> None

from_request_path(path) ==
    CASE path \in {"ores-claude", "x-ores-claude"}   -> "claude"
      [] path \in {"ores-chatgpt", "x-ores-chatgpt"} -> "chatgpt"
      [] OTHER                                       -> None

\* Too many fields, a repeated key or a bad escape refuse the whole form.
parse_form(pairs) ==
    LET keys == {p[1] : p \in ToSet(pairs)}
    IN  IF /\ Len(pairs) <= MAX_FORM_FIELDS
           /\ Cardinality(keys) = Len(pairs)
           /\ \A p \in ToSet(pairs) : p[2] # "bad escape"
        THEN [k \in keys |-> (CHOOSE p \in ToSet(pairs) : p[1] = k)[2]]
        ELSE None

encoded_len(pairs) == FoldLeft(LAMBDA n, p : n + EncodedBytes(p[2]), 0, pairs)

field(form, key) == IF key \in DOMAIN form /\ form[key] # "" THEN form[key] ELSE None
id_field(form, key) == IF field(form, key) \in Identifiers THEN form[key] ELSE None

\* validate_slash_envelope: "ok", or the error that is answered.
validate_slash_envelope(c, pairs, expected) ==
    LET form     == parse_form(pairs)
        identity == configured_slack_identity(c)
    IN  IF form = None THEN "request"
        ELSE IF from_command(field(form, "command")) # expected THEN "request"
        ELSE IF identity = None THEN "config"
        ELSE IF ~identity.pinned THEN "ok"
        ELSE IF id_field(form, "api_app_id") = None THEN "request"
        ELSE IF id_field(form, "api_app_id") # identity.app THEN "policy"
        ELSE IF id_field(form, "team_id") = None THEN "request"
        ELSE IF id_field(form, "team_id") # identity.team THEN "policy"
        ELSE "ok"

\* SlashCommand::parse of a form that passed the envelope check.
SlashCommand_parse(pairs) ==
    LET form == parse_form(pairs)
        ids  == {id_field(form, k) : k \in {"team_id", "channel_id", "user_id"}}
    IN  IF form = None \/ None \in ids \/ field(form, "trigger_id") = None
           \/ from_command(field(form, "command")) = None
        THEN None
        ELSE [team |-> form["team_id"], channel |-> form["channel_id"],
              user |-> form["user_id"], trigger |-> form["trigger_id"],
              provider |-> from_command(form["command"]),
              text |-> IF "text" \in DOMAIN form THEN form["text"] ELSE ""]

\* command(): what the Request URL makes of a signed form, a command or an error.
HttpCommand(c, path, pairs) ==
    LET expected == from_request_path(path)
    IN  IF encoded_len(pairs) > MAX_BODY_BYTES \/ expected = None THEN None
        ELSE IF validate_slash_envelope(c, pairs, expected) # "ok" THEN None
        ELSE SlashCommand_parse(pairs)

\* The JSON object of a frame: only its strings are carried, encoded as a form that may
\* be no longer than a frame.
StringFields(payload) == SelectSeq(payload, LAMBDA p : p[2] # "not a string")
socket_payload_to_form(payload) ==
    LET pairs == StringFields(payload)
    IN  IF pairs = <<>> \/ encoded_len(pairs) > SOCKET_MODE_MAX_FRAME_BYTES THEN None ELSE pairs

\* Mutant: the frame's identity is taken on trust.
socket_command_unpinned(c, payload) ==
    LET pairs == socket_payload_to_form(payload)
    IN  IF pairs = None THEN None ELSE SlashCommand_parse(pairs)

SocketCommand(c, payload) ==
    LET named    == SelectSeq(payload, LAMBDA p : p[1] = "command")
        expected == IF named = <<>> THEN None ELSE from_command(named[1][2])
        pairs    == socket_payload_to_form(payload)
    IN  IF expected = None \/ pairs = None THEN None
        ELSE IF validate_slash_envelope(c, pairs, expected) # "ok" THEN None
        ELSE SlashCommand_parse(pairs)

-----------------------------------------------------------------------------
(* The run that is asked for.                                               *)

find_issue(text) ==
    LET found == SelectSeq(text, LAMBDA t : t.team \in UpperKeys /\ t.digits # "")
    IN  IF found = <<>> THEN None ELSE found[1]

\* An empty prompt, one that is too long and one with a NUL are refused.
prompt(text) ==
    IF text = <<>> \/ Len(text) > MAX_PROMPT_BYTES \/ \E t \in ToSet(text) : t.team = "NUL"
    THEN None ELSE text

\* RunRequest::direct.  The run id is the digest of the source key.
direct(command, text, contextMessages) ==
    IF prompt(text) = None THEN None ELSE
    [run |-> <<"slash", command.team, command.channel, command.user, command.trigger>>,
     provider |-> command.provider, team |-> command.team, channel |-> command.channel,
     user |-> command.user, repository |-> None, issue |-> find_issue(text),
     capability |-> "repository_write", context |-> contextMessages]

CapabilityOf(scope) ==
    CASE scope = "read_only"          -> "read_only"
      [] scope = "linear_write"       -> "linear_write"
      [] scope = "draft_pull_request" -> "repository_write"
      [] OTHER                        -> None

\* The inputs of the modal's state: each must be there, the issue's may be blank.
ModalBlocks == {"task", "action", "repository", "issue", "write_scope", "context_messages"}

\* interaction_payload and RunRequest::interaction: None refuses the form.
interaction(c, p) ==
    LET identity == configured_slack_identity(c)
    IN  IF \/ identity = None
           \/ identity.pinned /\ (p.app # identity.app \/ p.team # identity.team)
           \/ p.kind # "view_submission" \/ p.callback # "ores-agent-run-v1"
           \/ p.meta = None
        THEN None
        ELSE IF \/ p.meta.team # p.team \/ p.meta.user # p.user
                \/ ~(ModalBlocks \subseteq p.blocks)
                \/ prompt(p.task) = None
                \/ CapabilityOf(p.write_scope) = None
                \/ p.context_messages \notin ContextChoices
                \/ p.action = None \/ p.repository = None
        THEN None
        ELSE [run |-> <<"view", p.meta.team, p.meta.channel, p.meta.user, p.view>>,
              provider |-> p.meta.provider, team |-> p.meta.team,
              channel |-> p.meta.channel, user |-> p.meta.user,
              repository |-> p.repository, issue |-> p.issue,
              capability |-> CapabilityOf(p.write_scope), context |-> p.context_messages]

\* option(): the value of a choice is cut, and comes back as that.  (A cut that leaves no
\* well-formed name is refused like one that leaves a name nobody listed.)
option(r) == [r EXCEPT !.name = r.cut]

\* modal: what it offers, from the binding as it is written in the document.
modal(provider, b, contextMessages) ==
    [provider |-> provider, repositories |-> {option(r) : r \in b.repositories},
     initial_repository |-> option(b.default_repository),
     write_scopes |-> {"read_only"}
        \cup (IF b.policy = "read_only" THEN {} ELSE {"linear_write"})
        \cup (IF b.policy = "draft_pull_request" THEN {"draft_pull_request"} ELSE {}),
     contexts |-> ContextChoices, initial_context |-> contextMessages]

\* App::groups asks Slack only when the groups can matter.
AsksGroups(b, user) == user \notin b.users /\ b.groups # {}

\* App::resolve, given the groups Slack says the user is in.
ResolveRun(registry, r, groupsOfUser) ==
    IF <<r.team, r.channel>> \notin DOMAIN registry THEN Refused("unmapped")
    ELSE resolve(registry,
            [workspace |-> r.team, channel |-> r.channel, user |-> r.user,
             groups |-> IF AsksGroups(registry[<<r.team, r.channel>>], r.user)
                        THEN groupsOfUser ELSE {},
             repository |-> r.repository, mode |-> r.provider,
             capability |-> r.capability, issue |-> r.issue])

-----------------------------------------------------------------------------
(* The context: newest first from Slack, oldest first to the agent.         *)

Kept(m) == ~m.bot /\ ~m.subtype /\ m.size > 0

truncate(size) == IF size <= MAX_CONTEXT_MESSAGE_BYTES THEN size ELSE MAX_CONTEXT_MESSAGE_BYTES

\* Mutant: a message that does not fit is skipped and older ones are taken.
take_message_skipping(s, m, count) ==
    IF ~s.open \/ ~Kept(m) \/ s.total + truncate(m.size) > MAX_CONTEXT_TOTAL_BYTES THEN s
    ELSE [taken |-> Append(s.taken, m), total |-> s.total + truncate(m.size),
          open |-> Len(s.taken) + 1 < count]

\* The loop of App::context over the messages, as the state (taken, total, open).
TakeMessage(s, m, count) ==
    IF ~s.open \/ ~Kept(m) THEN s
    ELSE IF s.total + truncate(m.size) > MAX_CONTEXT_TOTAL_BYTES THEN [s EXCEPT !.open = FALSE]
    ELSE [taken |-> Append(s.taken, m), total |-> s.total + truncate(m.size),
          open |-> Len(s.taken) + 1 < count]

context(messages, count) ==
    IF count = 0 THEN <<>>
    ELSE Reverse(FoldLeft(LAMBDA s, m : TakeMessage(s, m, count),
                          [taken |-> <<>>, total |-> 0, open |-> TRUE], messages).taken)

-----------------------------------------------------------------------------
(* Readiness and reconnection.                                              *)

socket_mode_ready(socketMode, connected, lastFrame, now, stale) ==
    \/ ~socketMode
    \/ /\ connected /\ lastFrame # 0
       /\ (IF now >= lastFrame THEN now - lastFrame ELSE 0) <= stale

reconnect_base_secs(attempt) ==
    LET shift == IF attempt < 5 THEN attempt ELSE 5
    IN  IF 2 ^ shift < 30 THEN 2 ^ shift ELSE 30

\* jitter is a percentage, clamped to 25 either way; the product is rounded.
reconnect_delay_jittered(attempt, jitter) ==
    LET j       == IF jitter > 25 THEN 25 ELSE IF jitter < -25 THEN -25 ELSE jitter
        seconds == (reconnect_base_secs(attempt) * (100 + j) + 50) \div 100
    IN  CASE seconds < 1  -> 1
          [] seconds > 30 -> 30
          [] OTHER        -> seconds
=============================================================================
