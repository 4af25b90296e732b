----------------------------- MODULE SlackCommand -----------------------------
(***************************************************************************)
(* The fiducia-slack-command process.  A delivery (a signed request or a    *)
(* Socket Mode frame) is resolved against the registry, probes the run      *)
(* journal, takes a permit and claims the run by creating its file; the     *)
(* deadline of the acknowledgement may drop it at every await.  A claimed   *)
(* run is dispatched by a task of its own: resolve, read the channel,       *)
(* create the bridge workflow, create the coordinator job, post the status. *)
(* The socket loop receives one frame at a time and reconnects.             *)
(***************************************************************************)
EXTENDS SlackCommandIntake

CONSTANTS Configs,        \* settings to start with
          Document,       \* the project registry file
          Requests,       \* what Slack may deliver
          Runs,           \* the run ids of those
          UserGroups,     \* what usergroups.list says of the user
          MaxDeliveries,  \* bound: deliveries in all
          MaxTroubles,    \* bound: failed calls and writes, and crashes
          MaxAttempt      \* bound: where the model stops counting attempts

VARIABLES config, up,
          journal,   \* the runs with a file in state_dir
          permits,   \* free permits of App::capacity
          opened,    \* modals that were opened: <<team, channel, user, provider>>
          call,      \* the deliveries, in the order they came
          detached,  \* claims whose delivery was dropped at the deadline
          told,      \* [run -> what Slack was answered]
          spawned,   \* runs whose dispatch was spawned (never read)
          work,      \* [run -> where its dispatch is]
          made,      \* [run -> workflows made for it at the bridge]
          jobs,      \* runs with a coordinator job (its idempotency key)
          posted,    \* runs announced in their channel
          socket,    \* the socket loop
          connected, \* socket_connected
          troubles

vars == <<config, up, journal, permits, opened, call, detached, told, spawned, work,
          made, jobs, posted, socket, connected, troubles>>

registry == from_json(Document)

\* The run a delivery asks for; None when the form or its identity is refused.
CommandOf(c, q) ==
    IF q.via = "http" THEN HttpCommand(c, q.path, q.pairs) ELSE SocketCommand(c, q.pairs)
RunRequest(c, q) ==
    IF q.kind = "view" THEN interaction(c, q.payload)
    ELSE IF CommandOf(c, q) = None \/ q.text = <<>> THEN None
    ELSE direct(CommandOf(c, q), q.text, c.context_messages)

\* Runs are the runs that what Slack may deliver asks for.
Asked == {RunRequest(c, q) : c \in Configs, q \in Requests} \ {None}
ASSUME SlackCommandAssumption ==
    /\ \A q \in Requests : q.via \in {"http", "socket"}
    /\ \A a \in Asked : a.run \in Runs
    /\ IsFiniteSet(Runs)
    /\ {MaxDeliveries, MaxTroubles, MaxAttempt} \subseteq Nat

Limit == config.max_concurrent_runs

\* run(): the process serves only with valid settings, registry and identity.
Startable(c) == from_env(c) /\ registry # None /\ configured_slack_identity(c) # None

Init ==
    /\ config \in {c \in Configs : Startable(c)}
    /\ up = TRUE
    /\ journal = {}
    /\ permits = Limit
    /\ opened = {}
    /\ call = <<>>
    /\ detached = {}
    /\ told = [r \in Runs |-> {}]
    /\ spawned = {}
    /\ work = [r \in Runs |-> "idle"]
    /\ made = [r \in Runs |-> 0]
    /\ jobs = {}
    /\ posted = {}
    /\ socket = [pc |-> IF config.socket_mode THEN "open" ELSE "off", attempt |-> 0,
                 url |-> FALSE]
    /\ connected = FALSE
    /\ troubles = 0

Done == [pc |-> "done", via |-> None, req |-> None]
Trouble == troubles < MaxTroubles /\ troubles' = troubles + 1

-----------------------------------------------------------------------------
(* A delivery.                                                              *)

Unserved == UNCHANGED <<config, up, spawned, work, made, jobs, posted>>

\* Mutant: the loop spawns a frame and reads on.
take_frame_spawning(q) == (q.via = "socket" => socket.pc = "read") /\ UNCHANGED socket

\* A frame is taken by the loop when it reads; a request is a task of its own.
TakeFrame(q) ==
    IF q.via = "socket"
    THEN socket.pc = "read" /\ socket' = [socket EXCEPT !.pc = "handle"]
    ELSE UNCHANGED socket

Deliver(q) ==
    /\ up
    /\ Len(call) < MaxDeliveries
    /\ RunRequest(config, q) # None
    /\ q.kind = "view" =>
         LET m == q.payload.meta IN <<m.team, m.channel, m.user, m.provider>> \in opened
    /\ TakeFrame(q)
    /\ call' = Append(call, [pc |-> "resolve", via |-> q.via, req |-> RunRequest(config, q)])
    /\ Unserved /\ UNCHANGED <<journal, permits, opened, detached, told, connected, troubles>>

\* handle_command without a text: the binding is resolved and the modal opened.  Of a
\* frame the acknowledgement is left to write.
open_modal(q) ==
    /\ up
    /\ q.kind = "slash"
    /\ CommandOf(config, q) # None /\ q.text = <<>>
    /\ LET c == CommandOf(config, q)
       IN  /\ ResolveRun(registry,
                 [team |-> c.team, channel |-> c.channel, user |-> c.user,
                  provider |-> c.provider, repository |-> None, issue |-> None,
                  capability |-> "read_only"], UserGroups).ok
           /\ opened' = opened \cup {<<c.team, c.channel, c.user, c.provider>>}
    /\ IF q.via = "socket" THEN socket.pc = "read" /\ socket' = [socket EXCEPT !.pc = "reply"]
       ELSE UNCHANGED socket
    /\ Unserved
    /\ UNCHANGED <<journal, permits, call, detached, told, connected, troubles>>

At(n, pc) == n \in DOMAIN call /\ call[n].pc = pc
Go(n, pc) == call' = [call EXCEPT ![n] = [call[n] EXCEPT !.pc = pc]] /\ UNCHANGED told

\* The answer goes out: a frame's as an acknowledgement on the socket.
Answered(n, answer) ==
    LET r == call[n].req.run
    IN  IF call[n].via = "socket"
        THEN Go(n, answer)
        ELSE /\ call' = [call EXCEPT ![n] = Done]
             /\ told' = [told EXCEPT ![r] = told[r] \cup {answer}]

\* Mutant: what the registry says is not looked at.
resolve_call_open(n) ==
    /\ At(n, "resolve")
    /\ Go(n, "probe")
    /\ Unserved
    /\ UNCHANGED <<journal, permits, opened, detached, socket, connected, troubles>>

ResolveCall(n) ==
    LET allowed == ResolveRun(registry, call[n].req, UserGroups)
    IN  /\ At(n, "resolve")
        /\ \/ /\ IF allowed.ok THEN Go(n, "probe") ELSE Answered(n, "denied_policy")
              /\ UNCHANGED troubles
           \/ Trouble /\ Answered(n, "config")
        /\ Unserved
        /\ UNCHANGED <<journal, permits, opened, detached, socket, connected>>

\* accept: a duplicate is answered before a permit is taken.
Probe(n) ==
    /\ At(n, "probe")
    /\ IF call[n].req.run \in journal THEN Answered(n, "duplicate") ELSE Go(n, "permit")
    /\ Unserved
    /\ UNCHANGED <<journal, permits, opened, detached, socket, connected, troubles>>

TryAcquire(n) ==
    /\ At(n, "permit")
    /\ IF permits > 0 THEN permits' = permits - 1 /\ Go(n, "claim")
       ELSE UNCHANGED permits /\ Answered(n, "at_capacity")
    /\ Unserved
    /\ UNCHANGED <<journal, opened, detached, socket, connected, troubles>>
\* Mutant: the file is opened with create instead of create_new.
created_anew(r) == TRUE

\* App::claim: create_new lets one delivery of a run win.
Created(r) == r \notin journal
\* Mutant: the run is remembered in the process only.
filed_nowhere(r) == UNCHANGED journal

Filed(r) == journal' = journal \cup {r}

\* The spawned task owns the permit and dispatches the run.
SpawnDispatch(n) ==
    LET r == call[n].req.run
    IN  /\ Answered(n, "started")
        /\ work' = [work EXCEPT ![r] = "resolve"]
        /\ spawned' = spawned \cup {r}

\* A write or sync that fails after create_new leaves the file behind.
claim(n) ==
    LET r == call[n].req.run
    IN  /\ At(n, "claim")
        /\ \/ /\ Created(r)
              /\ Filed(r)
              /\ SpawnDispatch(n)
              /\ UNCHANGED <<permits, troubles>>
           \/ /\ ~Created(r)
              /\ Answered(n, "duplicate")
              /\ permits' = permits + 1
              /\ UNCHANGED <<journal, spawned, work, troubles>>
           \/ /\ Created(r)
              /\ Trouble
              /\ journal' \in {journal, journal \cup {r}}
              /\ Answered(n, "journal_failure")
              /\ permits' = permits + 1
              /\ UNCHANGED <<spawned, work>>
        /\ UNCHANGED <<config, up, made, jobs, posted, opened, detached, socket, connected>>
\* Mutant: the dropped delivery keeps its permit.
dropped_keeping(n) == UNCHANGED permits

\* Dropping the future drops the permit in it.
Dropped(n) == permits' = IF call[n].pc = "claim" THEN permits + 1 ELSE permits

\* tokio::time::timeout(SLACK_ACK_DEADLINE): the delivery is dropped where it
\* waits.  A claim that was handed to spawn_blocking goes on without it.
AckTimeout(n) ==
    /\ n \in DOMAIN call /\ call[n].pc \in {"resolve", "probe", "claim"}
    /\ Dropped(n)
    /\ detached' = IF call[n].pc = "claim" THEN detached \cup {call[n].req.run} ELSE detached
    /\ Answered(n, "ack_timeout")
    /\ Unserved /\ UNCHANGED <<journal, opened, socket, connected, troubles>>

DetachedClaim(r) ==
    /\ r \in detached
    /\ detached' = detached \ {r}
    /\ journal' = journal \cup {r}
    /\ Unserved
    /\ UNCHANGED <<permits, opened, call, told, socket, connected, troubles>>

-----------------------------------------------------------------------------
(* dispatch: a call that fails ends it; what it asked for may have happened.*)

Spent == UNCHANGED <<config, up, journal, opened, call, detached, told, spawned, socket,
                     connected>>
Leave(r) == work' = [work EXCEPT ![r] = "idle"] /\ permits' = permits + 1

Step(r, pc) == work' = [work EXCEPT ![r] = pc] /\ UNCHANGED <<permits, troubles>>
Fail(r) == Trouble /\ Leave(r)

\* Mutant: the job is created before the workflow.
prepare_job_first(r) ==
    /\ work[r] = "resolve"
    /\ Step(r, IF config.dry_run THEN "dry" ELSE "job")
    /\ UNCHANGED <<made, jobs, posted>> /\ Spent

\* resolve and context come before any write.
Prepare(r) ==
    /\ work[r] = "resolve"
    /\ \/ Step(r, IF config.dry_run THEN "dry" ELSE "workflow")
       \/ Fail(r)
    /\ UNCHANGED <<made, jobs, posted>> /\ Spent

PostDryRun(r) ==
    /\ work[r] = "dry"
    /\ \/ posted' = posted \cup {r} /\ Leave(r) /\ UNCHANGED troubles
       \/ Fail(r) /\ posted' \in {posted, posted \cup {r}}
    /\ UNCHANGED <<made, jobs>> /\ Spent

create_workflow(r) ==
    /\ work[r] = "workflow"
    /\ \/ made' = [made EXCEPT ![r] = made[r] + 1] /\ Step(r, "job")
       \/ Fail(r) /\ made' \in {made, [made EXCEPT ![r] = made[r] + 1]}
    /\ UNCHANGED <<jobs, posted>> /\ Spent

create_job(r) ==
    /\ work[r] = "job"
    /\ \/ jobs' = jobs \cup {r} /\ Step(r, "status")
       \/ Fail(r) /\ jobs' \in {jobs, jobs \cup {r}}
    /\ UNCHANGED <<made, posted>> /\ Spent

post_status(r) ==
    /\ work[r] = "status"
    /\ \/ posted' = posted \cup {r} /\ Leave(r) /\ UNCHANGED troubles
       \/ Fail(r) /\ posted' \in {posted, posted \cup {r}}
    /\ UNCHANGED <<made, jobs>> /\ Spent

dispatch(r) ==
    Prepare(r) \/ PostDryRun(r) \/ create_workflow(r) \/ create_job(r) \/ post_status(r)
-----------------------------------------------------------------------------
(* run_socket_mode and drive_socket.                                        *)

Quiet == UNCHANGED <<config, up, journal, permits, opened, detached, spawned, work, made, jobs,
                     posted>>
Counted(a) == IF a < MaxAttempt THEN a + 1 ELSE a

open_socket_connection ==
    /\ socket.pc = "open"
    /\ \/ socket' = [socket EXCEPT !.pc = "connect"] /\ UNCHANGED troubles
       \/ Trouble /\ socket' = [socket EXCEPT !.pc = "sleep", !.attempt = Counted(socket.attempt)]
    /\ Quiet /\ UNCHANGED <<call, told, connected>>

Connect ==
    /\ socket.pc = "connect"
    /\ \/ /\ socket' = [socket EXCEPT !.pc = "read", !.url = FALSE]
          /\ connected' = TRUE
          /\ UNCHANGED troubles
       \/ /\ Trouble
          /\ socket' = [socket EXCEPT !.pc = "sleep", !.url = FALSE,
                                       !.attempt = Counted(socket.attempt)]
          /\ UNCHANGED connected
    /\ Quiet /\ UNCHANGED <<call, told>>
\* Mutant: the flag stays set when the connection ends.
dead_connected(healthy) ==
    /\ socket' = [socket EXCEPT !.pc = "sleep",
                                 !.attempt = Counted(IF healthy THEN 0 ELSE socket.attempt)]
    /\ UNCHANGED connected

\* SocketDriveEnd::Dead: an uptime of SOCKET_MODE_HEALTHY_AFTER forgets the failures.
Dead(healthy) ==
    /\ socket' = [socket EXCEPT !.pc = "sleep",
                                 !.attempt = Counted(IF healthy THEN 0 ELSE socket.attempt)]
    /\ connected' = FALSE

\* The stream ends, a Close frame comes, or nothing within SOCKET_MODE_READ_IDLE.
ReadFails ==
    /\ socket.pc = "read"
    /\ Trouble
    /\ \E healthy \in BOOLEAN : Dead(healthy)
    /\ Quiet /\ UNCHANGED <<call, told>>

\* A ping, a frame that is refused, or one whose modal cannot be opened: a reply is written.
OtherFrame ==
    /\ socket.pc = "read"
    /\ socket' = [socket EXCEPT !.pc = "reply"]
    /\ Quiet /\ UNCHANGED <<call, told, connected, troubles>>

\* stream.send of it returns; a pong that fails is ignored, an acknowledgement is not.
Reply ==
    /\ socket.pc = "reply"
    /\ \/ socket' = [socket EXCEPT !.pc = "read"] /\ UNCHANGED <<connected, troubles>>
       \/ Trouble /\ \E healthy \in BOOLEAN : Dead(healthy)
    /\ Quiet /\ UNCHANGED <<call, told>>

\* A `disconnect` frame: the next URL is asked for, while the flag is still set,
Recycle ==
    /\ socket.pc = "read"
    /\ socket' = [socket EXCEPT !.pc = "recycle"]
    /\ Quiet /\ UNCHANGED <<call, told, connected, troubles>>

\* and with it or without the loop goes on; nothing sleeps.
Recycled ==
    /\ socket.pc = "recycle"
    /\ \E healthy \in BOOLEAN, url \in BOOLEAN :
         socket' = [pc |-> IF url THEN "connect" ELSE "open",
                    attempt |-> IF healthy THEN 0 ELSE socket.attempt, url |-> url]
    /\ connected' = FALSE
    /\ Quiet /\ UNCHANGED <<call, told, troubles>>

\* Mutant: a frame that missed the deadline is not acknowledged.
handled_in_time(n) ==
    /\ call[n].via = "socket"
    /\ call[n].pc \notin {"resolve", "probe", "permit", "claim", "done", "ack_timeout"}

Handled(n) == /\ call[n].via = "socket"
              /\ call[n].pc \notin {"resolve", "probe", "permit", "claim", "done"}

\* The acknowledgement of the frame in hand.
SocketAck(n) ==
    /\ socket.pc = "handle"
    /\ n \in DOMAIN call /\ Handled(n)
    /\ call' = [call EXCEPT ![n] = Done]
    /\ \/ /\ socket' = [socket EXCEPT !.pc = "read"]
          /\ told' = [told EXCEPT ![call[n].req.run] = told[call[n].req.run] \cup {call[n].pc}]
          /\ UNCHANGED <<connected, troubles>>
       \/ /\ Trouble
          /\ \E healthy \in BOOLEAN : Dead(healthy)
          /\ UNCHANGED told
    /\ Quiet
\* Mutant: the loop does not open a new connection.
sleep_forever == FALSE

\* sleep(reconnect_delay(attempt)).
Sleep ==
    /\ socket.pc = "sleep"
    /\ socket' = [socket EXCEPT !.pc = "open"]
    /\ Quiet /\ UNCHANGED <<call, told, connected, troubles>>

run_socket_mode ==
    \/ open_socket_connection \/ Connect \/ ReadFails \/ OtherFrame \/ Reply
    \/ Recycle \/ Recycled \/ Sleep

-----------------------------------------------------------------------------

\* The files stay; deliveries, permits, claims in flight and dispatches do not.
Crash ==
    /\ up
    /\ Trouble
    /\ up' = FALSE
    /\ permits' = Limit
    /\ call' = [n \in DOMAIN call |-> Done]
    /\ detached' = {}
    /\ work' = [r \in Runs |-> "idle"]
    /\ socket' = [socket EXCEPT !.pc = "off", !.attempt = 0, !.url = FALSE]
    /\ connected' = FALSE
    /\ UNCHANGED <<config, journal, opened, told, spawned, made, jobs, posted>>

Restart ==
    /\ ~up
    /\ up' = TRUE
    /\ socket' = [socket EXCEPT !.pc = IF config.socket_mode THEN "open" ELSE "off"]
    /\ UNCHANGED <<config, journal, permits, opened, call, detached, told, spawned, work,
                   made, jobs, posted, connected, troubles>>

Handle(n) == ResolveCall(n) \/ Probe(n) \/ TryAcquire(n) \/ claim(n) \/ AckTimeout(n)

Serve(n) == Handle(n) \/ SocketAck(n)

Next ==
    \/ \E q \in Requests : Deliver(q) \/ open_modal(q)
    \/ \E n \in DOMAIN call : Serve(n)
    \/ \E r \in Runs : dispatch(r) \/ DetachedClaim(r)
    \/ run_socket_mode
    \/ Crash
    \/ Restart

Spec == Init /\ [][Next]_vars

\* Tokio runs its tasks, blocking threads finish, timers fire, the HTTP clients time out
\* (apps.connections.open too) and a service manager restarts the process.  Nothing is
\* assumed of Slack, and nothing of the waits without a timeout: the handshake
\* (connect_async) and the writes to the socket (stream.send).
Fairness ==
    /\ \A n \in 1..MaxDeliveries : WF_vars(Handle(n))
    /\ \A r \in Runs : WF_vars(dispatch(r)) /\ WF_vars(DetachedClaim(r))
    /\ WF_vars(open_socket_connection \/ Recycled \/ Sleep)
    /\ WF_vars(Restart)

FairSpec == Spec /\ Fairness

-----------------------------------------------------------------------------
(* Properties.                                                              *)

Answers == {"started", "duplicate", "at_capacity", "journal_failure", "ack_timeout",
            "denied_policy", "config"}

\* The types of the service's state.
Underway == {"resolve", "probe", "permit", "claim"}
Delivery == [pc : Underway \cup Answers \cup {"done"}, via : {"http", "socket", None},
             req : Asked \cup {None}]
Driving == {"read", "handle", "reply", "recycle"}
Loop == [pc : {"off", "open", "connect", "sleep"} \cup Driving, attempt : 0..MaxAttempt,
         url : BOOLEAN]
TypeOK ==
    /\ config \in Configs /\ Startable(config)
    /\ up \in BOOLEAN /\ connected \in BOOLEAN /\ troubles \in Nat
    /\ journal \subseteq Runs /\ detached \subseteq Runs
    /\ jobs \subseteq Runs /\ posted \subseteq Runs /\ spawned \subseteq Runs
    /\ permits \in 0..Limit
    /\ call \in Seq(Delivery)
    /\ told \in [Runs -> SUBSET Answers]
    /\ work \in [Runs -> {"idle", "resolve", "dry", "workflow", "job", "status"}]
    /\ made \in [Runs -> Nat]
    /\ socket \in Loop

\* Every permit is free, with a delivery that claims, or with a dispatch: a
\* deadline that drops a delivery gives its permit back exactly once.
PermitsConserved ==
    permits + Cardinality({n \in DOMAIN call : call[n].pc = "claim"})
            + Cardinality({r \in Runs : work[r] # "idle"}) = Limit

\* Over both transports, redeliveries, deadlines and restarts, a run reaches the
\* bridge at most once.
RunOnce == \A r \in Runs : made[r] <= 1

\* A member who was told that the run is accepted has a run that a restarted
\* process still knows, so that a redelivery cannot start it again.
StartedIsDurable == \A r \in Runs : "started" \in told[r] => r \in journal

\* A coordinator job exists only for a run whose bridge workflow was made; the
\* channel is told of a dispatch only when there is a job; a dry run has neither.
WritesInOrder ==
    /\ \A r \in jobs : made[r] = 1
    /\ ~config.dry_run => posted \subseteq jobs
    /\ config.dry_run => jobs = {} /\ \A r \in Runs : made[r] = 0

\* The registry allows the run to one who asked for it in the workspace the process is
\* pinned to.
Permitted(r) ==
    \E q \in Requests :
        LET a        == RunRequest(config, q)
            identity == configured_slack_identity(config)
        IN  /\ a # None /\ a.run = r
            /\ ResolveRun(registry, a, UserGroups).ok
            /\ identity.pinned => a.team = identity.team

\* Nothing is dispatched, made, announced or answered as started that was not permitted,
\* although the answer to a delivery is cut off and its claim goes on without it.
OnlyPermitted ==
    \A r \in Runs :
        work[r] # "idle" \/ made[r] > 0 \/ r \in jobs \cup posted \/ "started" \in told[r] =>
            Permitted(r)

\* A run is carried out once, under a claim that outlives the process and only when it
\* was permitted, and its remote writes follow one another.
RunUnderClaim == RunOnce /\ StartedIsDurable /\ WritesInOrder /\ OnlyPermitted

\* What readyz and metrics read: the flag is set exactly while drive_socket has a
\* connection, through every way it may end.  It says no more: it stays set while a
\* recycle asks for the next URL or a write waits, when nothing is received.
ConnectedMeansDriving == connected <=> socket.pc \in Driving

\* One frame at a time: while a frame is handled, exactly that delivery is open.
OneFrameInHand ==
    Cardinality({n \in DOMAIN call : call[n].via = "socket" /\ call[n].pc # "done"})
        = IF socket.pc = "handle" THEN 1 ELSE 0

\* Both accounts of what is under way stay exact, whichever of deadline, redelivery
\* and restart cuts a delivery: the permits, and the one frame of the socket loop.
CapacityKept == PermitsConserved /\ OneFrameInHand

\* Every delivery gets its answer, whatever Slack, the disk and the registry do: a frame's
\* is given to the socket at least, or its connection ends; and every permit comes back.
DeliveriesEnd ==
    /\ \A n \in 1..MaxDeliveries :
        (n \in DOMAIN call) ~> (n \in DOMAIN call /\ (call[n].pc = "done" \/ Handled(n)))
    /\ \A r \in Runs : work[r] # "idle" ~> work[r] = "idle"

\* The socket loop comes back from refusals, failed handshakes, dead connections and
\* recycles, unless a handshake never ends.
SocketComesBack == config.socket_mode => []<>connected \/ <>[](socket.pc = "connect")

\* Nothing is stuck but what waits for the peer of the socket, and readiness does not
\* claim a connection that is gone.
SocketLives == DeliveriesEnd /\ SocketComesBack /\ []ConnectedMeansDriving

\* "Answer a duplicate truthfully": a member who is told that the run was already
\* accepted has a run that was started.
DuplicateIsTruthful == \A r \in Runs : "duplicate" \in told[r] => r \in spawned
=============================================================================
