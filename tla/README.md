# A TLA+ model of the ai-agent-bridge

The bridge (`src/src`, Rust, tokio) lets AI agents and people share channels: they
register, join rooms of limited size, post and stream messages, take advisory
leases on repository paths, and run *workflows*, in which a plan assigns a task to
agents whose results are submitted to the bridge. A separate process, the
*provider runner*, polls the bridge for assignments, pays for vendor calls out of
an *admission budget* and submits the answers. Everything the bridge knows is in
memory behind `RwLock`s; the database is a best-effort copy. Two more processes bring
Slack to it: the *Slack bridge* turns channel messages and modal submissions into
workflows and posts their results, the *Slack command service* turns slash commands into
workflows and coordinator jobs.

This directory holds TLA+ modules for its parts, TLC configurations that check them
on small instances, and TLAPS proofs for every instance. `PROJECT.json` maps each
definition to the lines it models, lists hazards, runs, mutants and theorems.

## Inventory

| Component | State it keeps | Operations | What is hard | What makes it correct |
|---|---|---|---|---|
| Path leases (`state.rs` 300-540, `http.rs`) | lease table, fencing counter | acquire, renew, release, holders | the clock is read before the lock is waited for; scopes nest | exclusion, capacity, free soon after the expiry told, only the owner touches a live lease, tokens grow across a handover |
| Channels (`state.rs` 850-1110) | members, history, next seq, broadcast ring | join, leave, post, history, subscribe | posting is two critical sections; the ring overruns; history evicts | seats, gapless history, presence = membership |
| TCP / SSE streams (`tcp.rs`, `http.rs`) | receiver position, what a client was sent | subscribe + replay, forward, disconnect | receiver captured before history is read; slow clients | order, no duplicates, signalled gaps, a client that reads catches up |
| Workflows (`orchestration/`) | plan and submissions, as context entries; messages | create, submit, status | validated against a snapshot, recorded later, announced later still | turn order, immutability, one announcement, status = turn |
| Admission (`policy_admission/`, `policy/budgets.rs`) | one record per workflow | create, usage, complete, cancel | ownership checked outside the lock; u64 counters; late reports | budget never exceeded, terminal states final, exhaustion has a cause |
| Policy engine (`policy/`) | none | evaluate | many rules in one function | pure guarantees of a decision |
| Provider runner (`runner/`) | permits, assignments in flight, one task each | poll, claim, reserve, call, retry, report, submit | several replicas, lost answers, retries, heartbeats, crashes | no call without a reservation, no submission without accepted usage, calls in turn and prompted with what went before, a drain ends; a crash should not leave a workflow pending |
| Claims and descriptors (`assignment_claims.rs`, `lease_descriptors.rs`, `lease_renewal.rs`, `control_plane.rs`) | descriptors in context; leases in an external control plane | claim, renew, release | the authority is remote: answers are late, lost or given up | fencing of assignments; a stated expiry is backed by a grant; no grant lost from sight |
| Blind competition (`blind_competition/`) | plan, sealed submissions, reveal | create, submit, reveal, view | checked on one snapshot, inserted later; views read twice | nobody reads before the reveal, the reveal is complete and final |
| Channel directory (`state.rs` 560-850, `embed.rs`) | slug index, embeddings | create, resolve, search | an embedding is awaited between check and insert | one channel per slug, within the cap |
| Shared context (`state.rs`, `context_access.rs`) | key/value entries per channel | put, get | reserved keys, key cap, versions | workflow keys only written by workflows, versions only grow |
| Persistence (`state.rs` 1190-1290, `db.rs`, `main.rs`) | database rows | spawned upserts, flush, restore | writes shed, failing and overtaking; crash; a restore that fails | memory leads its mirror, what was written is found again, one message per number, for the channels a restore reads |
| Slack bridge (`slack_bridge.rs`, `slack_bridge/commands.rs`) | event journal, records, permits, one worker per event | events, modal, cancel, status, process | redelivery, torn journal lines, crash, deadline, cancellation | one workflow per event, acknowledged = durable, completed = answered |
| Slack command service (`slack_commands_parts/`, `slack_project_bindings.rs`) | run journal, permits, socket | slash command, modal, dispatch, Socket Mode loop | the acknowledgement deadline drops a handler whose claim goes on; reconnects | a run is dispatched once, started = on disk, the socket comes back |
| Providers (`providers*`, `runner/retry*.rs`) | none | call, classify, plan a retry | clamps of delays and totals, broken bodies | budgets of retries, nothing repeated once a success was announced |
| Access (`workflow_security/`, `tcp_security.rs`, `bridge_origin_policy.rs`) | credentials; the principal of a connection | enforce, authenticate, authorize | two transports, two tables | TCP grants no more than HTTP; a token acts as its agent (but see observation 3) |
| Metrics, health, configuration, binaries | counters, settings | | | not modelled: nothing reads them back |

Interactions: workflow plans and submissions and the admission record are context
entries of the workflow's channel; creation and submission post through the channel;
the runner reaches all of them only over HTTP; claims go through the bridge to the
control plane.

## Modules

| Module | Models | Its variables |
|---|---|---|
| `FileLeases` | the lease operations of `AppState` | `file_leases` (by lease id), `next_file_fencing_token`, `agents`, `clock`, and `req`, what each handler thread carries while it waits for the lock |
| `ChannelBus` | one channel with its streams | `members`, `messages`, `next_seq`, `sent` (everything ever broadcast; the ring is its tail), `post` (between join and append), `conn` (phase, receiver position, frames written) |
| `Workflow` | one workflow from creation to its last submission | `phase`, `mode`, `assignments`, `submissions`, `announced`, `req` |
| `PolicyAdmission` | one admission record | `admission`, `report` (between the ownership check and the lock) |
| `RunnerFleet` | replicas of the provider runner on one workflow, with the bridge's submission endpoint; status and turn come from `Workflow` | `up`, `poll` (what a pass has seen), `task` (where each assignment's task is, and the earlier results its prompt shows), `claim` (at the control plane), `posts` (submissions under way), `admission`, `submissions`, `spent` |
| `Persistence` | the channel directory, messages, context and agents with their database | `channels`, `agents`, `calls` (creators between check and insertion), `tasks` (writes with a permit), `db`, `phase`; `unseen` (slugs whose rows the restore did not ask for) is a ghost |
| `LeaseDescriptors` | the lease routes in front of an external control plane | `descriptors`, `lock` (`mutation_lock`), `req`, and the control plane's `grants`, `next_token`, `stray` (calls nobody waits for); `told`, `given_back` and `shortened` are ghosts: the expiry an agent was last told, the tokens somebody gave back, and those a shorter renewal took an expiry back from |
| `BlindCompetition` | one blind competition | `plan`, `submission`, `reveal`, `hand` (what each handler carries), `seen`, `answered` |
| `SealedRound` | the abstract specification of it: convene, seal, open, look | `lineup`, `sealed`, `opened`, `seen` |
| `SlackBridge` | the Slack bridge process with its journal file | `rec` (records), `disk` and `tail` (the file), `permits`, `checked`, `holding`, `cancelling`, `work`, `flow`, `thread`, `acked`, `up` |
| `SlackCommand` | the Slack command process | `journal`, `permits`, `call` (deliveries), `detached`, `work` (dispatches), `made`, `jobs`, `posted`, `socket`, `connected` |
| `SlackIngress`, `SlackCommandIntake`, `ProjectRegistry` | what the two processes decide about one request before they change anything | none |
| `PolicyEngine` | `policy::evaluate` and its helpers | none |
| `AccessControl`, `ServiceOrigin` | credentials, access rules, the TCP principal; origins | none |
| `ProviderCalls` | one vendor call and the retry loop | none |
| `Decisions` | the statements about the stateless modules; a state is one input | `about`, `input` |
| `Optional` | the absent value | |
| `OrchestrationProofs` | theorems about `Workflow`, `PolicyAdmission`, `BlindCompetition` and `PolicyEngine` | |
| `ChannelBusProofs` | theorems about `ChannelBus` and `AccessControl` | |
| the other `*Proofs` | theorems about the module they are named after | |
| `MC*` | instances for TLC | |

An operation is one action wherever the code holds one lock throughout, and one
action per critical section (or await) otherwise. The correspondence:

* **FileLeases.** `StartX` reads `Instant::now()` and parks the request; the action
  named after the Rust method is its whole critical section, beginning with the
  pruning `retain`. Paths are sequences of segments, so the string test
  `starts_with(p + "/")` is a strict prefix. A lease has the deadline the table obeys
    and the expiry its holder is told, because the code computes them from two clocks; the
  second is cut to whole milliseconds (`file_lease_expiry_ts`), so a tick is a fraction of
  a millisecond and `TicksPerMs` says which.
* **ChannelBus.** `PostJoin` and `PostAppend` are the two sections of `post_message`;
  `SubscribeJoin`, `SubscribeCapture` and `Replay` those of a TCP subscribe (an SSE
  request has no replay); `Forward` is one `recv` of the forwarder task with the write
  of its frame, on a receiver that the ring may have overtaken. `Readers` are the
  connections whose clients go on reading. Message bodies are a
  size, since history is evicted by bytes and by count.
* **Workflow.** `CreateChannel`, `InsertPlan`, `AnnounceCreated` are the three places
  where `create_workflow` changes shared state; `SubmitValidate`, `SubmitRecord`,
  `SubmitAnnounce` those of `submit_workflow`. Candidate selection and the four
  planners are operators on sequences of agents. Registered agents are fixed, which is
  the snapshot `create_workflow` takes.
* **PolicyAdmission.** `report_usage` is the handler up to its ownership check,
  `record_usage` the rest under the lock. A request carries the decision the policy
  engine takes on it; the engine is a pure function of the request and is left to a
  module of its own. `MaxU64` stands for 2^64-1: the sums are checked additions.
* **RunnerFleet.** `PollList` and `PollSpawn`/`PollSkip` are `poll_once` before and after
  it asks for the admission; a task's `pc` runs through `execute_assignment`: `claim`,
  `reserve`, the attempts (`guard`, `start`, `call`, `backoff`, `retry`), `finished`
  (to be accounted), `accounted`, `submitting`, `complete` or `cancel`, `release`. The task
  carries what its prompt shows: `PollSpawn` fixes it from the view of the pass, the call
  uses it much later. A report charges what the vendor says it produced, which may be more
  than was reserved (`Overages`). A request
  has an action for being carried out, with its answer received or lost, and one for
  failing; only submissions may be carried out after the runner gave them up (a late
  reservation or cancellation would only spend or end more). `Fence` and
  `Record` are the claim middleware and `submit_workflow`, which the code runs one after
  the other without holding the claim; a claim may expire at any time, between the two as
  well. `Workflow` proves that recording against a stale
  validation changes nothing, so here it is one step. Claims and their expiry belong to
  the external control plane. Providers are configured in plan order, the policy selects
  all of them, and distributed claims are on (without them there is one replica).
* **Persistence.** An accepted change is one action: the change in memory and the spawned
  write, or its loss when no permit is free. `Apply` and `Fail` are the end of a write, in
  any order; `save_context` has the version guard of the SQL, `insert_message` its
  `ON CONFLICT DO NOTHING`. `create_or_get_channel` and `resolve_channel` are the check
  before the awaited embedding, `insert_channel` the critical section after it. The external
  `SetStatus`
  archives a channel by hand, or brings it back; `load_channels` leaves archived ones out.
  `Stop` ends the process with or without a flush, `Boot` and `load_state` restore,
  `LoadStateFails` keeps what was loaded so
  far, as `build_state` does.
* **LeaseDescriptors.** `acquire`, `renew`, `release` are a handler up to its call (for the
  last two with the lock), `Acquired`, `Renewed`, `Released` what it does with the answer,
  `store_descriptor` the insertion under the lock and `CleanedUp` the give-back when it
  fails. A request brings its own ttl (`Ttls`), and an answer states the grant's expiry or
  does not (`Stating`): the handler then counts the ttl from when the answer came.
  A call nobody waits for any more is *stray*: it may still be served. The control
  plane is external and modelled by what its callers rely on.
* **BlindCompetition.** Each handler is cut at its reads and its insertion:
  `submit_blind_competition` and `reveal_blind_competition` end with the checks,
  `InsertSubmission` and `InsertReveal` are `insert_blind_context`, `LoadSubmissions` and
  `build_view` the two reads of a view. Answers are model values. `InsertBlindPlan` is the
  insertion of the plan; specification, type invariant and variables of this module and of
  `PolicyAdmission` have prefixed names (`CompetitionSpec`, `AdmissionSpec`), so that one
  proof module can extend both, and `PolicyAdmission!clamped` is `clamp_budget` on all the
  fields an admission has.
* **SlackBridge.** `slack_events` is the handler up to the duplicate check, then
  `AcquirePermit` and `Claim`; a modal submission (`slack_interactions`) has no duplicate
  check before its permit. Every update of a record goes through `Journaled`: it is
  appended, or fails with nothing, a part of the line or the whole line written, and then
  memory is rolled back. `Restart` is `EventStore::open`, which refuses a journal with a
  line it cannot read. `process_event` and `process_dispatch` are the two workers, one
  action per stage. Which request is accepted is decided by `SlackIngress` in the model,
  as by its functions in the code. A delivery in hand is a record of its number, its id and
  the models it addresses (`selected_models`, a set: whoever visits it goes by the order of
  `models`).
* **SlackCommand.** A delivery goes through `ResolveCall`, `Probe`, `TryAcquire`, `claim`
  and `SpawnDispatch`; `AckTimeout` may drop it at every await, and a claim handed to
  `spawn_blocking` then ends as `DetachedClaim`. `dispatch` is the spawned task, one
  action per remote write, each of which may fail after it took effect. What a request asks
  for is computed from the settings, the form and the transport (`RunRequest`), and
  `ResolveCall` asks the registry; one request of the instance names a mode that its channel
  is not bound to, and is refused. The socket loop is
  `open_socket_connection`, `Connect`, frames through `Deliver` and `SocketAck`,
  `ReadFails`, `Recycle` (which asks for the next URL with the old connection still marked)
  and `Recycled`, `Sleep`. An empty slash command opens the modal on either transport.
* **The stateless modules** are operators with the names of the Rust functions. A chain of
  early returns is a chain of `IF ... ELSE IF`: the first test that fails decides. `Decisions`
  enumerates inputs as initial states and states about each what a reader expects, in
  other words than the code's. Sizes are small numbers: a repository name is what it is and
  what an option of 150 bytes keeps of it, a form has an encoded length.

## Runs

| Run | Shows | Bounds |
|---|---|---|
| `file_leases` | exclusion, free after the reported expiry, ownership | two agents, two handler threads, a directory and a file in it, two tokens, four instants half a millisecond apart, TTL of two of them |
| `channel_bus` | seats, history, order, signalled gaps, presence; the stream of a client that reads catches up or ends | two agents for one seat, a poster, one TCP stream that is read and one SSE stream that may not be, three messages of size 1 or 2 in a history of 2 messages and 3 bytes, a ring of 2 |
| `workflow` | plans, order, announcements and status as recorded | five agents (a human, one not capable), five candidate lists, all four modes, two threads and two contents |
| `policy_admission` | budgets, ownership of what is reported | two runners, two providers, two reports in flight, counters up to 3, ceilings 1 and 2, five deltas, one of them overflowing |
| `runner_fleet` | spending is covered, results are accounted before they are submitted, the vendor is called in turn and with all results it should see; a drain ends | one runner, two workers and a reviewer with a file lease, one retry each, requests of one token out of three, reports of up to one more, prompts with room for one earlier result |
| `runner_settles` | expects the violation of `WorkflowSettles` (finding, observation 1) | two runners with the default admission identities, one assignment, no retries, one token |
| `slack_bridge` | one workflow per event, acknowledged is durable, completed is answered, cancelled is silent, terminal is final, permits conserved, workers return | two messages and a modal for one permit, two deliveries, one cancel, two polls to the deadline, two failures, dry run and not |
| `slack_command` | one dispatch per run and only of what the registry permits, started is on disk, remote writes in order, permits conserved, one frame at a time, deliveries end, the socket comes back unless a handshake never ends | two deliveries over both transports for one permit, three runs, one of them not permitted, two failures |
| `persistence` | memory leads its mirror, what was written is found again, one message per number, one creator per channel, the directory cap, context versions grow | two creators, two slugs of one topic in a directory for one channel, two agents for one place, two permits for writes, four changes, one failed write, two starts, channels archived and brought back |
| `decisions` | the pure decisions against independent statements | the input sets of `MCDecisions` |
| `lease_descriptors` | descriptors within their grants, released is final, grants accounted for, requests end | two handlers, one of them also on the canonical routes, the other of a client that asks for half the ttl, answers with and without an expiry, one agent, one path, two tokens, two instants, room for one descriptor, one stray call |
| `blind_competition` | blindness, the refinement of `SealedRound` (a complete and final reveal, kept answers) | three registered agents and a stranger, two handlers, two answers, up to two workers |

A run checks what is said of one part as one property where its parts belong together:
`StreamFaithful`, `MembershipSound` (ChannelBus), `ToldAsRecorded` (Workflow),
`JournalTellsTruth`, `EndIsFinal` (SlackBridge), `CapacityKept`, `RunUnderClaim`,
`SocketLives` (SlackCommand), `MirrorConsistent`, `DirectorySound` (Persistence) and the
five of `Decisions` are conjunctions of named statements, each with a comment of its own
at its definition. There is a mutant for almost every conjunct, and two for some
(`EndIsFinal`: a worker that goes on after a cancellation, and a cancellation that writes
the record back as its check saw it). What a theorem
establishes for every value of the constants and a run would repeat is left to the
theorem: the type invariants of `FileLeases`, `PolicyAdmission` and `BlindCompetition`,
`WithinCapacity`, `SubmissionsImmutable`, `ExhaustedForCause`, `OnlyForward`,
`RevealedIsComplete`, `AnswerIsKept` and `ClosedAfterReveal`. The type invariants of
`ChannelBus`, `Workflow`, `RunnerFleet`, `Persistence`, `LeaseDescriptors`, `SlackBridge`
and `SlackCommand` are theorems as well and not repeated by the runs.

**Why the bounds suffice.** Each limit of the code (seats, history, ring, u64,
assignments, tokens) is small enough to be hit and exceeded. Two threads are enough for every race
found: all shared state is changed under a lock, so a race needs one operation with a
stale value and one that changes it; the third party is time. Two
nested paths give every relation of scopes but unrelated ones, where nothing happens; they
have no room for a third lease, so the limit of the lease table is left to its theorem.
For the safety of everything but the stateless decisions the theorems below remove the
bounds. For the liveness of the Slack processes two deliveries give every duplicate, one
permit makes each refused
path a candidate for a lost permit, and two failures are one for an operation and one for
what handles it. Four operations suffice for `persistence` because a message number is
reused, or a context version overtaken, with two writes and a restart between them. In
`lease_descriptors` one tick is enough for a promise to be broken: the short ttl has run
out after it, the long one has not.

**Bounds that are not the code's**: `MaxClock`, `MaxTokens`, `MaxSeq`, `MaxPresence`,
`MaxU64`, `MaxDeliveries`,
`MaxCancels`, `MaxPolls`, `MaxTroubles`, `MaxAttempt`, `MaxOps`, `MaxFailures`, `MaxBoots`,
`MaxStray`. They only disable further steps, which is why most configurations say
`CHECK_DEADLOCK FALSE`: the system also legitimately stops there, clients may simply
stay away. `policy_admission`, `runner_fleet`, `runner_settles`, `decisions` and
`blind_competition` keep the deadlock check on.

**Symmetry** is used over agents and threads, which the modules only compare, in runs
that have no liveness property.

**Fairness** (`ChannelBus!Fairness`): weak fairness of `SubscribeCapture` for every
connection, which is code of the handler that waits for nobody, and of `Replay` and
`Forward` only for `Readers`. A frame is awaited into the client's socket without a timeout
(`write_line`, `tcp.rs:123`) and an SSE event is pulled by the client, so a peer that stops
reading leaves its stream where it is, neither caught up nor ended; `LiveCatchesUp` speaks
of the others. Nothing forces clients to post, join, leave, read or disconnect.

`RunnerFleet!DrainFairness`, for `DrainCompletes`: the tasks of a runner take their next
step, since every request and vendor call they make has a timeout, and its main loop ends
the drain. `RunnerFleet!Fairness`, for `WorkflowSettles`: in addition runners go on
polling, bridge handlers run on, and a claim nobody renews expires: weak fairness, as each
waits for nobody. Strong fairness says that a
request which is repeated for ever gets through once: passes (`PollSpawn`), claims that
are free again and again, and cancellations the bridge would accept. Without it a network
that loses every request would refute everything, and the violation would say nothing
about the code. Reports, releases, the vendor, crashes
and restarts are not assumed to do anything; `WorkflowSettles` itself asks that crashes
stop at some time and leave a runner.

`SlackBridge!Fairness`: weak fairness of the spawned workers and of the restart of the
process (its service manager). Their HTTP calls have timeouts, so a worker waits for
nobody.

`SlackCommand!Fairness`: the same of handlers, dispatches, blocking threads, the timed
request for a socket URL and the pause before the next one. Not of the waits without a
timeout: the handshake (`connect_async`, `part15.rs:384`) and the writes to the socket
(`stream.send`, 462 and 488). `SocketLives` therefore allows a handshake that never ends,
and says of a frame that its answer is given to the socket, not that it is written. Slack,
the agents and the clients are not assumed to do anything. Failures are bounded by
`MaxTroubles`, which `SocketComesBack` needs: a network that fails for ever is not excluded
by the code.

`LeaseDescriptors!Fairness`: a call ends at the latest with the client's timeout (weak
fairness of `GiveUp`), and a handler that waits for the mutation lock gets it among others
that take it again and again (strong fairness of `store_descriptor`: tokio's mutex is
fair, in order of arrival).

### Findings and observations

Where comments or documents of the repository say more than the code does. The first six
are the findings of `PROJECT.json`. Statements are kept in the modules where a name is
given: added to `MCChannelBus.cfg`, `MCRunnerFleet.cfg`, `MCPersistence.cfg` or
`MCSlackCommand.cfg`, TLC finds the behaviour.

1. *Takeover* (`runner_settles`). `docs/distributed-assignment-claims.md:85` says that a
   successor restarts the assignment of a crashed runner. It gets the claim, but the
   admission belongs to the crashed instance, as the default actor of a runner is its own
   name (`runner/admission.rs:140`), and the bridge refuses its reservations and its
   cancellation (`policy_admission/http.rs:91`): the workflow stays pending. With
   `ActorOf <- OneName`, that is `AI_AGENT_RUNNER_ADMISSION_ACTOR` set alike on all of
   them, TLC finds `WorkflowSettles` satisfied.
2. *Transports.* "Both transports must accept and refuse exactly the same commands"
   (`part15.rs:612`). A form whose encoding is longer than a socket frame may be
   (`part15.rs:137`) is taken from a request, which may have 1 MiB. `TransportsAgree` is
   the statement up to that length.
3. *Identity on streams.* Identity fields "must equal the authenticated adapter identity"
   (`docs/workflow-adapter-auth.md:37`). `GET /channels/{slug}/stream` has no such field in
   its rule (`middleware.rs:179`), while its handler seats the `agent_key` of the query
   (`http.rs:771`, `state.rs:1101`). Over TCP the same is refused. `StandsForOne` has this
   one exception.
4. *Transcript.* "The most recent channel messages" (`slack_bridge/commands.rs:752`). They
   are chosen so, but put oldest first and then cut at the end to 12,000 bytes
   (`commands.rs:838`): a full block lacks the newest messages. `TranscriptFromNewest`
   states what is kept.
5. *Sequence numbers* (`Persistence!NoSeqReuse`). README and `state.rs:770` say that a
   restart keeps the high water. It keeps the largest number in the rows that it reads.
   Numbers of shed or cut writes are used again, for clients that have seen them. An
   archived channel is not restored (`db.rs:166`), nor are the rows of a channel that has
   no row because its write was shed, failed or is still to come; such a slug, created
   again, counts from 1 over existing rows, and `on conflict do nothing` reports success
   for messages that are not stored. The same after a restore that failed (`main.rs:187`).
   `MirrorConsistent` excludes these slugs (`unseen`) and a process whose restore failed.
6. *Cancel and metrics of the Slack bridge.* `request_cancel` checks and updates in two
   critical sections (`slack_bridge.rs:761`), so a cancel can be recorded on a run that has
   just ended and be answered as requested, against the comment at `slack_bridge.rs:653`.
   The run's end stays: one flag of the current record is written (`EndIsFinal`).
   `METRIC_OUTCOMES` (`slack_bridge.rs:1734`) is said to list every outcome, and
   `emit_metric` asserts it in debug builds; the `command_*`, `interaction_*` and
   `dispatch_*` outcomes of `slack_bridge/commands.rs` are missing, so that a debug build
   panics in these handlers. The model is of the release build.
7. *Fencing tokens of leases.* The README says tokens are monotonic. An agent that holds
   `src` and acquires it again as recursive keeps its old token (`state.rs:397`), so after
   another agent used and released `src/lib` under a larger one, `src/lib` is covered by
   the smaller token.
8. *Replay* (`ChannelBus!ReplayHasNoGap`). `subscribe` promises an exact split between
   replay and live stream. It is exact for the receiver, but history is read afterwards
   (`tcp.rs:392`) and posts in between may have evicted a message that was due.
9. *Claims* (`RunnerFleet!StaleCannotPublish`). "A stale replica therefore cannot publish
   after another replica has acquired a newer grant" (`assignment_claims.rs:5`). Renewal
   and record are two steps, and the runner that gave up its request releases the claim
   itself (`runner/mod.rs:734`).
10. *Admission and acceptance* (`RunnerFleet!AcceptedWhileActive`). Cancellation and
    exhaustion are said to prevent the acceptance of results
    (`docs/policy-admission-and-usage.md:138`); nothing between the accounting and the
    record looks at the admission.
11. *Shutdown* (`Persistence!GracefulExitCutsNothing`). The flush waits for all permits and
    then returns; handlers that were not tasks of the server set can still spawn a write
    between the flush and the exit.
12. *Slack bridge.* `validate_workflow_response` insists on both agents
    (`slack_bridge.rs:1497`), so a run for a single model is answered with a failure, and
    `posted_agents.len() == 2` (`slack_bridge.rs:1931`) leaves its record uncompleted.
    No worker resumes after a crash, although the comment on `cancel_requested` speaks of
    one. `process_dispatch` looks neither at `cancel_requested` nor at the dry run, and
    `slack_interactions` does not look at the dry run either: a modal that is submitted is
    carried out.
13. *Slack commands* (`SlackCommand!DuplicateIsTruthful`). "Answer a duplicate truthfully"
    (`slack_commands_parts/part6.rs:374`): after a claim that outlived its
    acknowledgement deadline, whose record could not be written, or whose process crashed,
    the retry is told that the run was accepted, and no run exists. The flag of the socket
    stays set while a recycle waits for the next URL and while a write waits, when nothing
    is received.
14. *Long repository names.* A registry takes names of up to 255 bytes; the modal's option
    cuts its value to 150 (`part5.rs:96`). Such an offer is refused when it is picked, or
    taken for a listed repository that has just the shorter name (`OffersResolve`).
15. *Policy engine.* A request of medium risk with two required agents executes as
    `single` and `direct` with two providers.
16. *Lease descriptors.* Released descriptors stay in the registry as tombstones and count
    against its key cap, so that it fills up. An answer without an expiry makes the stored
    expiry count from when the answer came, later than the grant's. A renewal with a
    shorter ttl, when its answer is lost or it is served late, takes back an expiry that
    the descriptor still shows.
17. *Blind competition.* A view may list the submissions of before a reveal as revealed
    ones (too few, never too many), and a submission that was recorded may be answered
    with an error when its announcement fails.

## Proofs

All for every value of the constants that satisfies the modules' named assumptions, which
TLC evaluates in the runs.

* **FileLeasesProofs.** Assumption `FileLeaseConstants` (paths are non-empty sequences,
  TTLs positive, limits naturals). `OverlapIsSharedFile` first: `lease_scopes_overlap`,
  two prefix tests, holds exactly when some file lies in both scopes. `ExclusiveCoverage`
  speaks of files and is not inductive over an arbitrary set `Paths`; the inductive
  invariant `IInv` speaks of overlapping scopes (`NoConflict`) together with `TypeOK`,
  capacity and the order of the two expiries. Every critical section first prunes and then does
  one of: nothing, put one lease that meets no foreign one, remove one
  (`LockedIsTableStep`), so one lemma about putting a lease (`PutKeepsNoConflict`)
  carries the proof. `ReportedExpiry` follows from a bound between the two expiries: the
  deadline, from a clock read before the lock, is less than a millisecond after the
  reported one, read under it and cut. `OwnerOnly` uses that a request's clock is never ahead
  of the real
  one, so pruning with a stale `now` only removes what has expired.
* **ChannelBusProofs.** Assumption `ChannelBusConstants`. *History*: eviction takes the
  largest suffix within both limits; one message always is, so history is a non-empty run
  that ends with the newest number (`HistoryIsARun`). *Seats*: the last presence event of
  an agent says whether it has a seat (`SeatsAndPresenceAgree`). *Streams*: `StreamFaithful`
  is not inductive, since it does not say what a receiver still has before it.
  `LogComplete` says that the broadcast events carry all numbers given out, ascending;
  `Waits` that between capture and replay the receiver's position cuts them exactly at the
  high-water mark, whatever is posted meanwhile; `Streams` that what lies behind the
  position is newer than anything written, and what lies before it was written, is not
  above the mark, or was signalled as a lag. From these `StreamsAreFaithful`: order, no
  duplicate, no silent live gap, for any ring and any number of posters.
* **ChannelBusProofs, access.** Assumption `NoneAssumption` of `AccessControl` (the absent
  value is neither a field nor a rule). `TwinRoute` evaluates the two tables side by side:
  the route that does what a TCP operation does asks for the same scope, names the agent by
  the field its handler reads, and is not public. From it `TcpIsWithinHttp`, for every state
  of the credentials, every token and every operation (a line that must name an agent names
  one, which parsing ensures), and `TokenStandsForOne`: over TCP a token passes no request
  that names another agent, over HTTP none but the stream of a channel (observation 3). It
  rests on the uniqueness of tokens that `from_optional_json` checks. `PrincipalStays` is the
  step of
  `PrincipalIsFixed`; the induction over a sequence of tokens is left to TLC.
* **OrchestrationProofs, workflow.** The order of submissions, although validation and
  recording are
  separate. `SequentialOrder` is not inductive: a recording step needs to know what was
  validated earlier. `StillInTurn` says that what a parked request was validated for is
  still so; it is stable because recorded submissions are never removed. The second
  invariant `Told` adds types, the plan's shape and which announcements are still to come
  (`Announcing`). `PlansAreWellFormed` holds for every list of candidates: `Ranks` and
  `PlacesDistinct` describe what a filtered list holds, `BuiltWell` what the four planners
  make of it. `ToldIsRecorded` needs the plan's shape too: `StatusIsTurn` shows that
  `workflow_status` and `validate_submission_turn`, written separately, agree on every
  well-formed plan and every set of recorded submissions the order allows.
* **OrchestrationProofs, admission.** Assumption `AdmissionConstants`. `AdmissionTypeCorrect`
  is already
  the strong part: a counter that overflowed would leave u64. `ChargeOutcome` describes a
  charge as one of two outcomes, from which `BudgetHolds`, `ExhaustedForCauseHolds` and
  `OnlyForwardHolds` follow; `ReporterStillOwnsHolds` uses `OnlyForward`.
* **RunnerFleetProofs.** Assumptions `FleetConstants` and `PlanConstants`; the latter is
  what `PlansAreWellFormed` proves of every plan the bridge makes. Nothing is assumed about
  the network, the vendor or when claims expire. `SpendingCovered` compares two counters
  and is not inductive: `Covered` also counts the reservations a task holds for a call it
  has not made. A sum over tasks is stated as the size of the set `Reserved` of pairs
  (task, token), so that the cardinality theorems apply. `Accounted` counts as well the
  results whose report was accepted but which are not sent yet. A task that crashes takes
  its reservation or its result with it, which leaves both inequalities true; that is why
  they are inequalities. `InTurn` says that
  what a pass saw stays recorded, hence what made a task eligible remains true until its
  call, however many claims were lost in between, and that its prompt was made of a view
  that already had everything before it.
* **PersistenceProofs.** Assumption `PersistenceAssumption`. *Directory*: the second look
  at slug and cap and the insertion are one section, so `DirectoryIsSound` needs only that
  a slug whose creation was reported stays. *Mirror*: `MirrorConsistent` is not inductive,
  since a write in hand may fall on a row that is already there. The invariant (`Ahead`) says
  that a process that restored everything it had room for starts above every row it asked
  for, that each write in hand has a number or version above every row of an earlier
  process, and that a channel or key left behind for want of room is never given room later
  (`load_state` fills the directory to the cap). So a row in the way of a write is that
  write's own. The rows it did not ask for belong to the slugs in `unseen`, of which nothing
  is claimed (observation 5); no hypothesis about the schema is needed.
* **LeaseDescriptorsProofs.** Assumption `LeaseDescriptorAssumption`. Two arguments: the
  mutation lock, by which a descriptor loaded by a renewal or a release is still the active
  one when it is written back (`LockDiscipline`), and the ownership of a token, which is in
  one pair of hands (a handler's, a descriptor's, a stray call's) from the moment it is
  minted, so that nobody else can end the grant an agent was told of. From the first,
  `ReleasedStaysReleased`; from the second, `GrantsAccounted` and, with clocks,
  `WritesAreAuthorised`, for any ttls and whether or not answers state an expiry: a stated
  expiry in a handler's hands, in an answer or told to an agent is backed by the grant of
  that token, unless the token was given back or a shorter renewal is in `shortened`.
  An unstated one promises nothing (observation 16).
* **OrchestrationProofs, blind competition.** Assumptions `NoneAssumption` and
  `RegisteredAssumption`. Neither a
  submission nor a reveal looks again at what it checked, so the inductive invariant
  carries each parked request's check to its insertion: a parked submission is of a worker of the
  plan, and for a parked reveal the set of answers is the set of workers. It stays so
  because answers are inserted once and only by workers, and a complete set admits no
  further one; that is also why nothing can be inserted after a reveal although submissions
  test it
  without the lock. `Refinement` maps `plan`, `submission` and `reveal` to the abstract
  variables; it needs in addition that the list a view has read is one of stored answers
  (`ListsStored`). The reads and checks stutter, the insertions are `Convene`, `Seal` and `Open`,
  and the end of a view is `Look`.
* **OrchestrationProofs, policy.** `DegradationIsSafe` is about `Evaluated`, the part of
  `evaluate` behind the validation and the ranking, for every request of the accepted types
  and every ranked list of providers, so that it does not matter what the ranking does.
  `BehaviorFacts` carries it: the default behaviour and the caller's are combined upwards
  in the order of `Behaviors`, so only a request whose default is one of the two lenient
  ones, with nothing required and no special executor, can end at one of them.
* **SlackBridgeProofs.** Assumption `SlackBridgeAssumption` (the settings were accepted; an
  event id comes back only with the same message). *Permits*: the workers and the
  deliveries past the semaphore are finite sets whose sizes add up with the free permits
  (`PermitsFollow`, `PermitsCounted`); `Numbered` keeps the deliveries apart, or two equal
  ones would count as one. *One workflow per event* is not inductive, as it does not say
  who may still make one. `Known` says that what became known of an id stays known to the
  process and to the journal: only the claimer of an unknown id makes a worker, a worker
  makes its workflow in its first stage (`Made`), and after a crash the id is found in the
  journal, or the journal cannot be opened (`tail = "corrupt"`), in which case no process
  starts. *Truth of the journal*: `Carries` relates what a worker remembers as posted to
  its record; `Truthful` is claimed of the record in memory and of the last line on disk,
  because a restart makes the second the first. `EndStaysEnd` follows since a worker runs
  only on a record that has not ended, and a cancellation writes no state.
  `WorkIsRequested` adds authorisation: `AcceptedIsAuthorised` and `DispatchedIsAuthorised`
  read off `classify_event` and `DispatchDecision` who may ask, and `OnlyRequested` carries
  it through deliveries in hand, journal, restart, workflow and thread.
* **SlackCommandProofs.** Assumption `SlackCommandAssumption` (what is asked for is a run of
  the finite set `Runs`). `CapacityKept` counts claims, dispatches and frames as sets. A
  claim whose delivery was dropped at its deadline goes on without a permit, and holds
  none: that is why only `claim` counts. `ByRun` says that the file of a run comes first and
  its remote writes follow one another, `ByCall` what a delivery in hand has reached; with
  them `RunsAreClaimed` holds over any number of redeliveries, failures and crashes.
  `PermissionInv` is its last part: a delivery past `ResolveCall` asks for something the
  registry grants, and so does every file and every detached claim; `PinnedTeam` shows that
  both transports admit only the pinned workspace. `ConnectedIsExact`: the flag is
  set exactly while a running process drives a connection, waits included (observation 13).

Induction over data is avoided: where a list is filtered or evicted, the definition names
the result by what it is (the largest suffix that fits, the element of a given rank), and
its existence comes from the least-number principle, proved once per module from the
well-foundedness of the naturals.

**Only model-checked.** `LiveCatchesUp`, `DrainCompletes`, `WorkerReturns`,
`RequestsEnd` and the liveness in `SocketLives` (liveness under fairness is out of the
prover's reach; the safety part of `SocketLives` is `ConnectedIsExact`). The five statements
of `Decisions` as wholes: each has a part that speaks of a fold, of `SelectSeq` or of a
sorted sequence (transcripts, the context of a run, the fields of a form, the selected
providers, the loop of retries, a sequence of tokens), and what those compute for every
input needs induction over data. The parts that do not are theorems about the same
predicates: `TcpWithinHttp` and `StandsForOne` of `CredentialsAreKept`, `SafeDegradation` of
`PolicyIsKept`, `AuthorisedEvent` of `SlackIntakeSound`.

## Not modelled

`PROJECT.json` lists every part with its status. Out of scope for good: wire formats and
texts, metrics and health (`runner_metrics.rs`, `metrics.rs`, `runner_health.rs`: counters
and their rendering, read by nothing in the program), configuration, command lines and
start-up, the registry browser and the protocol SDK (types), request and response bodies
of the vendors, and the numeric side of embeddings. Leases are lost by a restart (tokens start
over at 1): nothing restores them, and the repository's README asks for one bridge writer.
About half of the lines of the
Rust files are their unit tests, which the map leaves alone.

## Plan

The modules are written, and the safety properties of every part with state are proved.
What could follow:

1. Further abstract specifications: an exclusive lock service that `FileLeases`
   implements, a spending account that `PolicyAdmission` implements.
2. `OffersResolve` and `OriginsAreProtected` for every registry and every origin, which
   need no induction either.
