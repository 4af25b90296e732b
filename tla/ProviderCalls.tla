----------------------------- MODULE ProviderCalls ----------------------------
(***************************************************************************)
(* One call of a provider and the decision to repeat it: the configuration  *)
(* that is accepted, what ProviderClient::execute makes of an exchange, and *)
(* RetryPolicy::plan with the loop of retry_execution around it.  An        *)
(* exchange is how far it got (sent), the status, how the body arrives, the *)
(* failure code in it and Retry-After; durations are milliseconds.          *)
(***************************************************************************)
EXTENDS Optional, Integers, Sequences, SequencesExt, ServiceOrigin

MAX_CONFIGURED_RESPONSE_BYTES == 32 * 1024 * 1024
ABS_MAX_RETRIES == 5
MIN_DELAY_MS == 10
ABS_MAX_DELAY_MS == 300000
ABS_MAX_TOTAL_DELAY_MS == 900000

-----------------------------------------------------------------------------
(* ProviderConfig.                                                          *)

\* HTTPS, or a loopback host; the host is one of the allowed ones, itself by default.
ProviderConfig_validate(c) ==
    LET allowed == IF c.allowed_hosts = {} THEN {c.base_url.host} ELSE c.allowed_hosts
    IN  /\ "bad" \notin {c.name, c.model, c.api_key_env}
        /\ c.timeout_secs > 0 /\ c.connect_timeout_secs > 0
        /\ c.max_response_bytes \in 1..MAX_CONFIGURED_RESPONSE_BYTES
        /\ c.base_url.plain
        /\ c.base_url.scheme = "https" \/ c.base_url.host \in LoopbackHosts
        /\ "" \notin allowed /\ c.base_url.host \in allowed

parse_provider_configs(cs) ==
    /\ cs # <<>>
    /\ \A i, j \in DOMAIN cs : cs[i].name = cs[j].name => i = j
    /\ \A i \in DOMAIN cs : ProviderConfig_validate(cs[i])

-----------------------------------------------------------------------------
(* ProviderClient::execute.                                                 *)

Transport(kind) == [error |-> "transport", kind |-> kind]
Failed(what) == [error |-> what]
Answered == [error |-> None]

classify_transport(sent) ==
    IF sent \in {"timeout", "connect"} THEN sent ELSE "request"

\* read_bounded: what reading the body fails with, or None.
BodyError(x) ==
    CASE x.body = "too_long" -> Failed("response_too_large")
      [] x.body = "broken"   -> Transport("response_body")
      [] OTHER               -> None

\* The code in the body of a failure; anything else says nothing.
parse_provider_failure(code) ==
    CASE code \in {"rate_limit", "resource_exhausted"} -> "rate_limited"
      [] code = "overloaded"                           -> "overloaded"
      [] code = "unavailable"                          -> "temporarily_unavailable"
      [] code \in {"server_error", "internal"}         -> "server_error"
      [] OTHER                                         -> None

execute(x) ==
    IF x.sent # "complete" THEN Transport(classify_transport(x.sent))
    ELSE IF BodyError(x) # None THEN BodyError(x)
    ELSE IF x.status \notin 200..299
    THEN [error |-> "http_status", status |-> x.status,
          retry_after |-> x.retry_after, kind |-> parse_provider_failure(x.code)]
    ELSE IF x.body # "text" THEN Failed("invalid_response")
    ELSE Answered

-----------------------------------------------------------------------------
(* RetryPolicy.                                                             *)

status_may_be_retried(status) ==
    status \in {408, 409, 425, 429, 500, 502, 503, 504, 529}

\* RetryPolicyInput::validate: None, or the policy.
RetryPolicy_validate(p) ==
    IF /\ p.max_retries <= ABS_MAX_RETRIES
       /\ p.base_delay_ms \in MIN_DELAY_MS..ABS_MAX_DELAY_MS
       /\ p.max_delay_ms \in p.base_delay_ms..ABS_MAX_DELAY_MS
       /\ p.max_total_delay_ms \in p.base_delay_ms..ABS_MAX_TOTAL_DELAY_MS
       /\ \A s \in p.retryable_statuses : status_may_be_retried(s)
    THEN p ELSE None

\* The reason, or None when the failure is not of a kind to repeat.
retry_reason(p, e) ==
    CASE e.error = "transport" /\ e.kind = "connect" /\ p.retry_connect_errors -> "connect"
      [] e.error = "transport" /\ e.kind = "timeout" /\ p.retry_timeout_errors -> "timeout"
      [] e.error = "http_status" ->
            IF e.status \notin p.retryable_statuses THEN None
            ELSE IF e.kind = None THEN "http_status" ELSE e.kind
      [] OTHER -> None

Least(x, y) == IF x < y THEN x ELSE y

\* bps, 5000 to 10000, is what the digest of the seed and the ordinal gives.
deterministic_backoff(p, ordinal, bps) ==
    LET exponential == Least(p.base_delay_ms * 2 ^ Least(ordinal - 1, 20), p.max_delay_ms)
        jittered    == (exponential * bps + 9999) \div 10000
    IN  Least(IF jittered < 1 THEN 1 ELSE jittered, p.max_delay_ms)

DelayOf(p, e, ordinal, bps) ==
    IF e.error = "http_status" /\ e.retry_after # None /\ e.retry_after # 0
    THEN Least(e.retry_after, p.max_delay_ms)
    ELSE deterministic_backoff(p, ordinal, bps)

\* Mutants: the wait that is planned is not counted yet; a body that broke off is a
\* failed connection.
plan_counting_spent(p, e, ordinal, spent, bps) ==
    IF \/ ordinal = 0 \/ ordinal > p.max_retries
       \/ retry_reason(p, e) = None
       \/ spent > p.max_total_delay_ms
    THEN None ELSE DelayOf(p, e, ordinal, bps)
plan_after_broken_body(p, e, ordinal, spent, bps) ==
    IF \/ ordinal = 0 \/ ordinal > p.max_retries
       \/ retry_reason(p, e) = None /\ e # Transport("response_body")
       \/ spent + DelayOf(p, e, ordinal, bps) > p.max_total_delay_ms
    THEN None ELSE DelayOf(p, e, ordinal, bps)

\* RetryPolicy::plan: the delay before the next attempt, or None.
plan(p, e, ordinal, spent, bps) ==
    IF \/ ordinal = 0 \/ ordinal > p.max_retries
       \/ retry_reason(p, e) = None
       \/ spent + DelayOf(p, e, ordinal, bps) > p.max_total_delay_ms
    THEN None ELSE DelayOf(p, e, ordinal, bps)

\* One turn of the loop with no guard interfering: made counts the retries.
Attempted(p, run, x, bps) ==
    LET e     == execute(x)
        delay == plan(p, e, run.made + 1, run.spent, bps)
    IN  IF ~run.open THEN run
        ELSE IF e = Answered \/ delay = None
        THEN [run EXCEPT !.open = FALSE]
        ELSE [run EXCEPT !.made = @ + 1, !.spent = @ + delay, !.repeated = Append(@, x)]

execute_with_retries(p, exchanges, bps) ==
    FoldLeft(LAMBDA run, x : Attempted(p, run, x, bps),
             [open |-> TRUE, made |-> 0, spent |-> 0, repeated |-> <<>>], exchanges)
=============================================================================
