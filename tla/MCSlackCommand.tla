---------------------------- MODULE MCSlackCommand ----------------------------
(* SlackCommand with one channel, a slash command that comes over both      *)
(* transports, and a modal.                                                 *)
EXTENDS SlackCommand

Repo(name) == [name |-> name, cut |-> name, lower |-> TRUE, wellformed |-> TRUE]
MCEncodedBytes(value) == 1

MCBinding ==
    [workspace |-> "T", channel |-> "C", team_key |-> "DEN",
     repositories |-> {Repo("o/r")}, default_repository |-> Repo("o/r"),
     modes |-> {"claude"}, default_mode |-> "claude", users |-> {}, groups |-> {"G"},
     policy |-> "draft_pull_request",
     budget |-> [max_concurrent_runs |-> 1, max_runtime_secs |-> 60, max_tokens |-> 1000,
                 max_spend_cents |-> 100, max_retries |-> 0]]
MCDocument == [schema_version |-> 1, bindings |-> <<MCBinding>>]

MCConfig(dry) ==
    [signing_secret |-> "s", bot_token |-> "b", absolute_paths |-> TRUE,
     bridge |-> [url |-> [scheme |-> "http", host |-> "localhost"], bearer |-> None],
     coordinator |-> [url |-> [scheme |-> "https", host |-> "remote"], bearer |-> "c"],
     internal_http_hosts |-> None, slack_api |-> "slack.com",
     context_messages |-> 5, socket_mode |-> TRUE, app_token |-> "xapp",
     claude_agent |-> "claude-fable-5", chatgpt_agent |-> "gpt-5.6-sol", dry_run |-> dry,
     max_concurrent_runs |-> 1, app_id |-> "A", team_id |-> "T",
     allow_unpinned_identity |-> FALSE]
\* The settings without a token for the socket do not start.
MCConfigs == {MCConfig(FALSE), MCConfig(TRUE), [MCConfig(FALSE) EXCEPT !.app_token = None]}

Pairs(app, trigger) ==
    <<<<"command", "/ores-claude">>, <<"api_app_id", app>>, <<"team_id", "T">>,
      <<"channel_id", "C">>, <<"user_id", "U">>, <<"trigger_id", trigger>>>>
Word == [team |-> "", digits |-> ""]

Slash(via, trigger, text) ==
    [via |-> via, kind |-> "slash", path |-> "ores-claude", pairs |-> Pairs("A", trigger),
     text |-> text]
\* The registry has no such mode for the channel.
Unbound == [Slash("http", "t4", <<Word>>) EXCEPT !.path = "ores-chatgpt",
               !.pairs = [Pairs("A", "t4") EXCEPT ![1] = <<"command", "/ores-chatgpt">>]]
\* A request of another app is refused, and one with too long a prompt.
Wordy == Slash("http", "t2", <<Word, Word, Word>>)
Foreign == [Slash("http", "t2", <<Word>>) EXCEPT !.pairs = Pairs("B", "t2")]

View(via) ==
    [via |-> via, kind |-> "view",
     payload |-> [app |-> "A", team |-> "T", user |-> "U", kind |-> "view_submission",
                  callback |-> "ores-agent-run-v1", view |-> "v1",
                  meta |-> [provider |-> "claude", team |-> "T", channel |-> "C", user |-> "U"],
                  blocks |-> ModalBlocks, task |-> <<Word>>, action |-> "plan", write_scope |-> "linear_write", context_messages |-> 0,
                  repository |-> Repo("o/r"), issue |-> None]]

MCRequests == {Slash("http", "t1", <<Word>>), Slash("socket", "t1", <<Word>>), Foreign, Wordy, Unbound,
               Slash("http", "t3", <<>>), Slash("socket", "t3", <<>>), View("socket")}
MCRuns == {<<"slash", "T", "C", "U", "t1">>, <<"slash", "T", "C", "U", "t4">>,
           <<"view", "T", "C", "U", "v1">>}
=============================================================================
