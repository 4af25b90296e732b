---------------------------- MODULE MCSlackBridge ----------------------------
(* SlackBridge with messages that address both models or one, a modal, and  *)
(* cancellations of both.                                                   *)
EXTENDS SlackBridge

CONSTANTS m1, m2, v1

MCEnvironment ==
    [host |-> "loopback", signing_secret |-> "long enough", dry_run |-> FALSE,
     bot_token |-> "xoxb", allowed_team_ids |-> {"T"}, allowed_channel_ids |-> {"C"},
     allowed_thread_ts |-> {}, bot_user_id |-> "B", expected_app_id |-> "A",
     command_prefix |-> "PREFIX", bridge |-> "loopback", bridge_bearer |-> None,
     claude_agent_key |-> "claude", openai_agent_key |-> "chatgpt",
     idempotency_path |-> "absolute", max_request_age_secs |-> 300,
     workflow_timeout_secs |-> 120, poll_interval_ms |-> 1000, max_body_bytes |-> 262144,
     max_concurrent_workflows |-> 1, claude_command |-> "/my-claude",
     openai_command |-> "/my-chatgpt", claude_model_choices |-> None,
     openai_model_choices |-> None, target_choices |-> None, context_message_max |-> None,
     context_message_default |-> None, linear_api_key |-> "key", linear_team_id |-> "L"]

MCDispatches == {<<"claude", v1>>}
MCChosen == [d \in MCDispatches |-> "claude"]

Envelope(id, text) ==
    [kind |-> "event_callback", challenge |-> None, team |-> "T", app |-> "A",
     id |-> id, event |-> "message", automated |-> FALSE, user |-> "U",
     channel |-> "C", ts |-> "t1", thread |-> None, text |-> text]

Ask(id) == Envelope(id, <<"MENTION", "PREFIX", "work">>)
AskOne(id) == Envelope(id, <<"PREFIX", "--model", "gpt", "work">>)
CancelOf(id) == Envelope("c1", <<"PREFIX", "cancel", id>>)

\* A message of the adapter's own bot repeats a command and starts nothing.
Echo(id) == [Ask(id) EXCEPT !.automated = TRUE]

MCEnvelopes == {Ask(m1), AskOne(m2), Echo(m2), CancelOf(m1)}
MCSubmissions ==
    {[wellformed |-> TRUE, kind |-> "view_submission", has_view |-> TRUE,
      callback |-> "agent_dispatch", team |-> None,
      meta |-> [team |-> "T", channel |-> "C", provider |-> "claude"],
      prompt |-> <<"work">>, model |-> "claude", target |-> None,
      view |-> v1, depth |-> None]}
=============================================================================
