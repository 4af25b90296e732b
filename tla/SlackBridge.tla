----------------------------- MODULE SlackBridge ------------------------------
(***************************************************************************)
(* The fiducia-slack-bridge process: deliveries of message events and of   *)
(* modal submissions, the durable event journal, the semaphore of bounded  *)
(* workflows, and one worker per claimed id (process_event for a message,  *)
(* process_dispatch for a modal) that creates a bridge workflow, polls it  *)
(* and posts into the Slack thread.  Handlers run in parallel threads: the *)
(* two locked sections of a cancellation, and the check, the permit and    *)
(* the claim of a delivery, are separate steps.  Slack, Linear and the     *)
(* bridge are external.  The adapter may crash between any two steps.      *)
(***************************************************************************)
EXTENDS SlackIngress, FiniteSets

CONSTANTS Environment,      \* the settings the process is started with
          Envelopes,        \* what Slack delivers to /slack/events
          Submissions,      \* what Slack delivers to /slack/interactions
          Messages,         \* event ids of messages
          Dispatches,       \* dispatch ids of modals
          Chosen,           \* [Dispatches -> Models], the model picked
          Models,           \* agent keys: the two configured ones and those picked
          DryRuns,          \* the values of dry_run to check
          MaxDeliveries,    \* bound: deliveries by Slack in all
          MaxCancels,       \* bound: cancellations in all
          MaxPolls,         \* polls that fit into workflow_timeout
          MaxTroubles       \* bound: failed writes, failed calls and crashes

VARIABLES dry_run,     \* SlackConfig.dry_run
          up,          \* the process runs
          disk,        \* the last complete line of each id in the journal
          tail,        \* how the journal file ends
          rec,         \* EventStore.records
          permits,     \* free permits of workflow_limit
          checked,     \* deliveries past the duplicate check: [no, id, sel]
          holding,     \* deliveries that hold a permit
          cancelling,  \* cancellations past the terminal check
          work,        \* the worker of each id
          flow,        \* the bridge's workflow and the Linear issue of each id
          thread,      \* what Slack has of each id: <<model, kind>>
          acked,       \* ids that were answered 200
          bound        \* how often each bounded thing has happened

vars == <<dry_run, up, disk, tail, rec, permits, checked, holding, cancelling,
          work, flow, thread, acked, bound>>

config == SlackConfig_from_env(Environment)
MaxConcurrent == config.max_concurrent_workflows

\* SlackConfig::models: the two configured agents, Claude first.
models == <<config.claude_agent_key, config.openai_agent_key>>
Pair == {models[1], models[2]}

\* The agents a request addresses; whoever visits them does it in the order of models.
selected_models(selection) ==
    CASE selection = "claude"  -> {models[1]}
      [] selection = "chatgpt" -> {models[2]}
      [] OTHER                 -> Pair

Accepted == {e \in Envelopes : classify_event(config, e).kind = "accept"}
Dispatched == {p \in Submissions : DispatchDecision(config, p).kind = "dispatch"}

\* What SlackConfig_from_env checks, and the ids of what Slack delivers: an event id
\* comes back only with a redelivery of the same message.
ASSUME SlackBridgeAssumption ==
    /\ MaxConcurrent \in Nat \ {0} /\ models[1] # models[2] /\ Pair \subseteq Models
    /\ DryRuns \subseteq BOOLEAN
    /\ {MaxDeliveries, MaxCancels, MaxPolls, MaxTroubles} \subseteq Nat
    /\ IsFiniteSet(Messages \cup Dispatches) /\ Messages \cap Dispatches = {}
    /\ Chosen \in [Dispatches -> Models]
    /\ \A e \in Accepted :
        /\ classify_event(config, e).id \in Messages
        /\ \A f \in Accepted :
            classify_event(config, e).id = classify_event(config, f).id =>
                classify_event(config, e).selection = classify_event(config, f).selection
    /\ \A p \in Dispatched :
        LET d == DispatchDecision(config, p) IN d.id \in Dispatches /\ d.agent = Chosen[d.id]

Ids == Messages \cup Dispatches
Terminal == {"completed", "canceled"}
NoRecord == [state |-> "none", posted |-> {}, cancel |-> FALSE]
EventRecord == [state : {"none", "claimed", "workflow_created"} \cup Terminal,
                posted : SUBSET Models, cancel : BOOLEAN]
NewRecord == [NoRecord EXCEPT !.state = "claimed"]

Idle == [pc |-> "idle", sel |-> {}, todo |-> {}, posted |-> {},
         terminal |-> FALSE, polls |-> 0, issue |-> FALSE]

Init ==
    /\ dry_run \in DryRuns
    /\ up = TRUE
    /\ disk = [i \in Ids |-> NoRecord]
    /\ tail = "clean"
    /\ rec = [i \in Ids |-> NoRecord]
    /\ permits = MaxConcurrent
    /\ checked = {}
    /\ holding = {}
    /\ cancelling = {}
    /\ work = [i \in Ids |-> Idle]
    /\ flow = [i \in Ids |-> [made |-> 0, agents |-> {}, submitted |-> {},
                              issue |-> "none"]]
    /\ thread = [i \in Ids |-> {}]
    /\ acked = {}
    /\ bound = [deliveries |-> 0, cancels |-> 0, troubles |-> 0]

-----------------------------------------------------------------------------
(* The journal.  A record is one line; the last line of an id counts.       *)

\* A write, a call or the process fails.
Trouble ==
    /\ bound.troubles < MaxTroubles
    /\ bound' = [bound EXCEPT !.troubles = bound.troubles + 1]
\* Mutant: a reader that skips the lines it cannot parse.
wrote_skipping(i, r, what) ==
    /\ disk' = IF what \in {"line", "no_newline"} /\ tail = "clean"
               THEN [disk EXCEPT ![i] = r] ELSE disk
    /\ tail' = IF what \in {"part", "no_newline"} THEN "unterminated" ELSE "clean"

\* What EventStore::append leaves in the file: the whole line, nothing, a part
\* of it, or all of it but the newline.  A line after an unterminated one
\* continues it, and neither can be read again.
Wrote(i, r, what) ==
    /\ disk' = IF what \in {"line", "no_newline"} /\ tail = "clean"
               THEN [disk EXCEPT ![i] = r] ELSE disk
    /\ tail' = IF tail = "corrupt" \/ what = "part" THEN "corrupt"
               ELSE IF what = "nothing" THEN tail
               ELSE IF tail = "unterminated" THEN "corrupt"
               ELSE IF what = "no_newline" THEN "unterminated"
               ELSE tail
\* Mutant: the record is kept in memory only.
logged_in_memory(i, r) == rec' = [rec EXCEPT ![i] = r] /\ UNCHANGED <<disk, tail>>

Logged(i, r) == rec' = [rec EXCEPT ![i] = r] /\ Wrote(i, r, "line")

\* A failed append keeps the old record (a failed sync has written the line all the same).
NotLogged(i, r) ==
    /\ UNCHANGED rec
    /\ \E what \in {"line", "nothing", "part", "no_newline"} : Wrote(i, r, what)

\* EventStore::claim and update.
Journaled(i, r, ok) ==
    IF ok
    THEN Logged(i, r) /\ UNCHANGED bound
    ELSE Trouble /\ NotLogged(i, r)

NotJournaled == UNCHANGED <<rec, disk, tail, bound>>

Posted(i, m) == [rec[i] EXCEPT !.posted = rec[i].posted \cup {m}]
InState(i, s) == [rec[i] EXCEPT !.state = s]

-----------------------------------------------------------------------------
(* Intake.                                                                  *)

Delivered ==
    /\ bound.deliveries < MaxDeliveries
    /\ bound' = [bound EXCEPT !.deliveries = bound.deliveries + 1]

\* slack_events up to the permit: a known id is answered without one.
slack_events(env) ==
    LET d == classify_event(config, env)
    IN  /\ up
        /\ d.kind = "accept"
        /\ Delivered
        /\ IF rec[d.id].state # "none"
           THEN acked' = acked \cup {d.id} /\ UNCHANGED checked
           ELSE /\ checked' = checked \cup {[no |-> bound.deliveries, id |-> d.id,
                                              sel |-> selected_models(d.selection)]}
                /\ UNCHANGED acked
        /\ UNCHANGED <<dry_run, up, disk, tail, rec, permits, holding, cancelling, work,
                       flow, thread>>

\* try_acquire_owned: without a permit the delivery is answered 503.
AcquirePermit(d) ==
    /\ up
    /\ checked' = checked \ {d}
    /\ IF permits > 0
       THEN permits' = permits - 1 /\ holding' = holding \cup {d}
       ELSE UNCHANGED <<permits, holding>>
    /\ UNCHANGED <<dry_run, up, disk, tail, rec, cancelling, work, flow, thread, acked, bound>>

\* slack_interactions up to the claim: no check before the permit.  A dry run opens no
\* modal, but it dispatches what comes back of one that was opened before it.
slack_interactions(p) ==
    LET d == DispatchDecision(config, p)
    IN  /\ up
        /\ d.kind = "dispatch"
        /\ permits > 0
        /\ Delivered
        /\ permits' = permits - 1
        /\ holding' = holding \cup {[no |-> bound.deliveries, id |-> d.id, sel |-> {d.agent}]}
        /\ UNCHANGED <<dry_run, up, disk, tail, rec, checked, cancelling, work, flow,
                       thread, acked>>

\* EventStore::claim under the permit; the worker is spawned with it.
Claim(d) ==
  LET i == d.id IN
    /\ up
    /\ holding' = holding \ {d}
    /\ \/ /\ rec[i].state # "none"
          /\ permits' = permits + 1
          /\ acked' = acked \cup {i}
          /\ NotJournaled
          /\ UNCHANGED work
       \/ /\ rec[i].state = "none"
          /\ Journaled(i, NewRecord, TRUE)
          /\ work' = [work EXCEPT ![i] = [Idle EXCEPT !.sel = d.sel,
                        !.pc = IF i \in Messages THEN "create" ELSE "announce"]]
          /\ acked' = acked \cup {i}
          /\ UNCHANGED permits
       \/ /\ rec[i].state = "none"
          /\ Journaled(i, NewRecord, FALSE)
          /\ permits' = permits + 1
          /\ UNCHANGED <<work, acked>>
    /\ UNCHANGED <<dry_run, up, checked, cancelling, flow, thread>>

-----------------------------------------------------------------------------
(* `<prefix> cancel <id>`: the record is read under one lock and updated    *)
(* under another.                                                           *)

RequestCancelCheck(env) ==
    LET d == classify_event(config, env)
    IN  /\ up
        /\ d.kind = "cancel" /\ d.target \in Ids
        /\ bound.cancels < MaxCancels
        /\ rec[d.target].state \notin Terminal \cup {"none"}
        /\ cancelling' = cancelling \cup {d.target}
        /\ bound' = [bound EXCEPT !.cancels = bound.cancels + 1]
        /\ UNCHANGED <<dry_run, up, disk, tail, rec, permits, checked, holding, work, flow,
                       thread, acked>>

\* Mutant: the record as the check saw it is written back.
request_cancel_from_snapshot(i) ==
    /\ up
    /\ i \in cancelling
    /\ cancelling' = cancelling \ {i}
    /\ \E ok \in BOOLEAN :
          Journaled(i, [rec[i] EXCEPT !.cancel = TRUE, !.state = "workflow_created"], ok)
    /\ UNCHANGED <<dry_run, up, permits, checked, holding, work, flow, thread, acked>>

RequestCancelUpdate(i) ==
    /\ up
    /\ i \in cancelling
    /\ cancelling' = cancelling \ {i}
    /\ \E ok \in BOOLEAN : Journaled(i, [rec[i] EXCEPT !.cancel = TRUE], ok)
    /\ UNCHANGED <<dry_run, up, permits, checked, holding, work, flow, thread, acked>>

-----------------------------------------------------------------------------
(* The worker of a message, process_event.  What follows an await is a step *)
(* of its own.                                                              *)

Fixed == UNCHANGED <<dry_run, up, checked, holding, cancelling, acked>>
\* Mutant: the permit is not given back.
finish_keeping(i) == work' = [work EXCEPT ![i] = Idle] /\ UNCHANGED permits

\* The worker returns and its permit is dropped.
Finish(i) == work' = [work EXCEPT ![i] = Idle] /\ permits' = permits + 1

Continue(i, w) == work' = [work EXCEPT ![i] = w] /\ UNCHANGED permits

\* A call of Slack or the bridge fails; what it asked for may have happened.
Say(i, m, kind) == thread' = [thread EXCEPT ![i] = thread[i] \cup {<<m, kind>>}]
Making(i, agents) ==
    flow' = [flow EXCEPT ![i] = [flow[i] EXCEPT !.made = flow[i].made + 1, !.agents = agents]]

ProcessDryRun(i) ==
    /\ work[i].pc = "create" /\ dry_run
    /\ \E ok \in BOOLEAN : Journaled(i, InState(i, "completed"), ok)
    /\ Finish(i)
    /\ Fixed /\ UNCHANGED <<flow, thread>>

\* validate_workflow_response: the plan has the two configured agents.
validate_workflow_response(agents) == agents = Pair

CreateWorkflow(i) ==
    LET w       == work[i]
        failed  == [w EXCEPT !.pc = "start_failure", !.todo = w.sel]
        polling == [w EXCEPT !.pc = "poll", !.posted = rec[i].posted]
    IN  /\ w.pc = "create" /\ ~dry_run
        /\ \/ /\ Making(i, w.sel)
              /\ \/ /\ validate_workflow_response(w.sel)
                    /\ \E ok \in BOOLEAN :
                         /\ Journaled(i, InState(i, "workflow_created"), ok)
                         /\ Continue(i, IF ok THEN polling ELSE failed)
                 \/ /\ ~validate_workflow_response(w.sel)
                    /\ NotJournaled
                    /\ Continue(i, failed)
           \/ /\ Trouble
              /\ Making(i, w.sel) \/ UNCHANGED flow
              /\ Continue(i, failed)
              /\ UNCHANGED <<rec, disk, tail>>
        /\ Fixed /\ UNCHANGED thread

\* post_slack_reply to the next model of the list and mark_posted: a failed
\* post is skipped, a failed marker ends the worker.
PostNext(i, kind) ==
    LET w    == work[i]
        m    == IF models[1] \in w.todo THEN models[1] ELSE models[2]
        rest == [w EXCEPT !.todo = w.todo \ {m}]
    IN  /\ w.todo # {}
        /\ \/ /\ Say(i, m, kind)
              /\ \E ok \in BOOLEAN :
                    /\ Journaled(i, Posted(i, m), ok)
                    /\ IF ok
                       THEN Continue(i, [rest EXCEPT !.posted =
                              IF w.pc = "final" THEN w.posted ELSE w.posted \cup {m}])
                       ELSE Finish(i)
           \/ /\ Trouble
              /\ Say(i, m, kind) \/ UNCHANGED thread
              /\ Continue(i, rest)
              /\ UNCHANGED <<rec, disk, tail>>
        /\ Fixed /\ UNCHANGED flow
\* Mutant: a run with missing replies is completed, too.
end_with_completed(i, complete) ==
    /\ \E ok \in BOOLEAN : Journaled(i, InState(i, "completed"), ok)
    /\ Finish(i)

\* The journal is told that the run is over, or not, and the worker returns.
EndWith(i, complete) ==
    /\ IF complete
       THEN \E ok \in BOOLEAN : Journaled(i, InState(i, "completed"), ok)
       ELSE NotJournaled
    /\ Finish(i)

post_start_failure_pair(i) ==
    LET w == work[i]
    IN  /\ w.pc = "start_failure"
        /\ \/ PostNext(i, "failure")
           \/ /\ w.todo = {}
              /\ EndWith(i, Cardinality(w.posted) = Cardinality(w.sel))
              /\ Fixed /\ UNCHANGED <<flow, thread>>

Unposted(w) == w.sel \ w.posted
\* Mutant: the deadline is not looked at.
poll_expired_never(i) == FALSE

\* The top of the polling loop: while Instant::now() < deadline.  Slow calls may
\* pass the deadline early; MaxPolls sleeps of poll_interval pass it for sure.
PollExpired(i) ==
    LET w == work[i]
    IN  /\ w.pc = "poll"
        /\ Continue(i, [w EXCEPT !.pc = "final", !.todo = Unposted(w)])
        /\ NotJournaled /\ Fixed /\ UNCHANGED <<flow, thread>>
\* Mutant: the cancellation is journaled and the loop goes on.
poll_top_continuing(i) ==
    LET w == work[i]
    IN  /\ w.pc = "poll" /\ w.polls < MaxPolls
        /\ \E ok \in BOOLEAN :
              IF rec[i].cancel THEN Journaled(i, InState(i, "canceled"), ok)
              ELSE NotJournaled
        /\ Continue(i, [w EXCEPT !.pc = "fetch", !.polls = @ + 1])
        /\ Fixed /\ UNCHANGED <<flow, thread>>

\* In time: the cancellation is looked at, then the bridge is asked.
PollTop(i) ==
    LET w == work[i]
    IN  /\ w.pc = "poll" /\ w.polls < MaxPolls
        /\ \/ /\ rec[i].cancel
              /\ \E ok \in BOOLEAN : Journaled(i, InState(i, "canceled"), ok)
              /\ Finish(i)
           \/ /\ ~rec[i].cancel
              /\ Continue(i, [w EXCEPT !.pc = "fetch", !.polls = w.polls + 1])
              /\ NotJournaled
        /\ Fixed /\ UNCHANGED <<flow, thread>>

get_workflow(i) ==
    LET w    == work[i]
        view == flow[i]
    IN  /\ w.pc = "fetch"
        /\ \/ /\ Continue(i, [w EXCEPT !.pc = "post",
                      !.terminal = view.submitted = view.agents,
                      !.todo = Unposted(w) \cap view.submitted])
              /\ NotJournaled
           \/ /\ Trouble
              /\ Continue(i, [w EXCEPT !.pc = "poll"])
              /\ UNCHANGED <<rec, disk, tail>>
        /\ Fixed /\ UNCHANGED <<flow, thread>>

PostSubmissions(i) ==
    LET w == work[i]
    IN  /\ w.pc = "post"
        /\ \/ PostNext(i, "reply")
           \/ /\ w.todo = {}
              /\ IF Cardinality(w.posted) = Cardinality(w.sel) THEN EndWith(i, TRUE)
                 ELSE /\ Continue(i, IF w.terminal
                            THEN [w EXCEPT !.pc = "final", !.todo = Unposted(w)]
                            ELSE [w EXCEPT !.pc = "poll"])
                      /\ NotJournaled
              /\ Fixed /\ UNCHANGED <<flow, thread>>

\* After the loop: a failure notice for each model without a reply.
PostDeadlineFailures(i) ==
    LET w == work[i]
    IN  /\ w.pc = "final"
        /\ \/ PostNext(i, "failure")
           \/ /\ w.todo = {}
              /\ EndWith(i, Cardinality(rec[i].posted) = 2)
              /\ Fixed /\ UNCHANGED <<flow, thread>>

process_event(i) ==
    \/ ProcessDryRun(i) \/ CreateWorkflow(i) \/ post_start_failure_pair(i)
    \/ PollExpired(i) \/ PollTop(i) \/ get_workflow(i) \/ PostSubmissions(i)
    \/ PostDeadlineFailures(i)

-----------------------------------------------------------------------------
(* The worker of a modal, process_dispatch.  Its posts and Linear calls are *)
(* best effort: their failures change nothing in the control flow.          *)

\* create_linear_task, update_linear_state: only with the id of an issue.
Issue(i, state) ==
    flow' = IF work[i].issue THEN [flow EXCEPT ![i] = [flow[i] EXCEPT !.issue = state]] ELSE flow

\* The summary in the channel, then the Linear issue.
AnnounceDispatch(i) ==
    LET w == [work[i] EXCEPT !.pc = "dispatch"]
    IN  /\ work[i].pc = "announce"
        /\ \/ /\ flow' = [flow EXCEPT ![i] = [flow[i] EXCEPT !.issue = "todo"]]
              /\ Continue(i, [w EXCEPT !.issue = TRUE])
              /\ UNCHANGED bound
           \/ /\ Trouble
              /\ UNCHANGED flow
              /\ Continue(i, w)
        /\ Fixed /\ UNCHANGED <<thread, rec, disk, tail>>

\* validate_single_agent_workflow: the plan has the one agent that was picked.
validate_single_agent_workflow(i, agents) == agents = {Chosen[i]}

\* A failed set_workflow is only logged.
create_single_agent_workflow(i) ==
    LET w == work[i]
    IN  /\ w.pc = "dispatch"
        /\ \/ /\ validate_single_agent_workflow(i, w.sel)
              /\ \E ok \in BOOLEAN : Journaled(i, InState(i, "workflow_created"), ok)
              /\ flow' = [flow EXCEPT ![i] = [flow[i] EXCEPT
                     !.made = flow[i].made + 1, !.agents = {Chosen[i]},
                     !.issue = IF w.issue THEN "started" ELSE flow[i].issue]]
              /\ Continue(i, [w EXCEPT !.pc = "await"])
           \/ /\ Trouble
              /\ Making(i, w.sel) \/ UNCHANGED flow
              /\ Continue(i, [w EXCEPT !.pc = "dispatch_failed"])
              /\ UNCHANGED <<rec, disk, tail>>
        /\ Fixed /\ UNCHANGED thread

\* The last message, the Linear state and the completion of a dispatch: each may fail.
EndDispatch(i, kind, state) ==
    /\ \/ Say(i, Chosen[i], kind) /\ Issue(i, state) /\ EndWith(i, TRUE)
       \/ /\ Trouble
          /\ Say(i, Chosen[i], kind) \/ UNCHANGED thread
          /\ Issue(i, state) \/ UNCHANGED flow
          /\ Logged(i, InState(i, "completed")) \/ NotLogged(i, InState(i, "completed"))
          /\ Finish(i)
    /\ Fixed

DispatchFailed(i) ==
    work[i].pc = "dispatch_failed" /\ EndDispatch(i, "failure", "todo")

\* await_submission returns the submission, or nothing at its deadline.
DispatchAnswered(i) ==
    /\ work[i].pc = "await"
    /\ Chosen[i] \in flow[i].submitted
    /\ EndDispatch(i, "reply", "done")

DispatchTimeout(i) ==
    /\ work[i].pc = "await"
    /\ EndDispatch(i, "failure", flow[i].issue)

process_dispatch(i) ==
    \/ AnnounceDispatch(i) \/ create_single_agent_workflow(i)
    \/ DispatchFailed(i) \/ DispatchAnswered(i) \/ DispatchTimeout(i)

-----------------------------------------------------------------------------
(* The agents, crash and restart.                                           *)

\* External: an assigned agent submits.  Nobody reads what comes after the
\* worker has returned.
AgentSubmits(i, m) ==
    /\ work[i].pc \in {"poll", "fetch", "post", "await"}
    /\ m \in flow[i].agents \ flow[i].submitted
    /\ flow' = [flow EXCEPT ![i] = [flow[i] EXCEPT !.submitted = flow[i].submitted \cup {m}]]
    /\ UNCHANGED <<dry_run, up, disk, tail, rec, permits, checked, holding, cancelling,
                   work, thread, acked, bound>>

Crash ==
    /\ up
    /\ Trouble
    /\ up' = FALSE
    /\ rec' = [i \in Ids |-> NoRecord]
    /\ permits' = MaxConcurrent
    /\ checked' = {}
    /\ holding' = {}
    /\ cancelling' = {}
    /\ work' = [i \in Ids |-> Idle]
    /\ UNCHANGED <<dry_run, disk, tail, flow, thread, acked>>

\* SlackApp::new: EventStore::open replays the journal, and fails closed.
\* Nothing spawns the workers of the records it finds.
Restart ==
    /\ ~up
    /\ tail # "corrupt"
    /\ up' = TRUE
    /\ rec' = disk
    /\ UNCHANGED <<dry_run, disk, tail, permits, checked, holding, cancelling, work,
                   flow, thread, acked, bound>>

Worker(i) == process_event(i) \/ process_dispatch(i)

Next ==
    \/ \E env \in Envelopes : slack_events(env) \/ RequestCancelCheck(env)
    \/ \E p \in Submissions : slack_interactions(p)
    \/ \E d \in checked : AcquirePermit(d)
    \/ \E d \in holding : Claim(d)
    \/ \E i \in Ids :
         \/ RequestCancelUpdate(i)
         \/ Worker(i)
         \/ \E m \in Models : AgentSubmits(i, m)
    \/ Crash
    \/ Restart

Spec == Init /\ [][Next]_vars

\* Tokio runs a spawned task, time passes, and a service manager restarts the
\* process; nothing is assumed of Slack, the agents or the callers.
Fairness ==
    /\ \A i \in Ids : WF_vars(Worker(i)) /\ WF_vars(RequestCancelUpdate(i))
    /\ WF_vars(Restart)

FairSpec == Spec /\ Fairness

-----------------------------------------------------------------------------
(* Properties.                                                              *)

\* The types of the adapter's state.
Stages == {"idle", "create", "start_failure", "poll", "fetch", "post", "final",
           "announce", "dispatch", "await", "dispatch_failed"}
Delivery == [no : Nat, id : Ids, sel : SUBSET Models]
WorkerState == [pc : Stages, sel : SUBSET Models, todo : SUBSET Models, posted : SUBSET Models,
                terminal : BOOLEAN, polls : 0..MaxPolls, issue : BOOLEAN]
FlowState == [made : Nat, agents : SUBSET Models, submitted : SUBSET Models,
              issue : {"none", "todo", "started", "done"}]
Replies == Models \X {"reply", "failure"}
Counts == [deliveries : Nat, cancels : Nat, troubles : Nat]
TypeOK ==
    /\ dry_run \in BOOLEAN /\ up \in BOOLEAN
    /\ disk \in [Ids -> EventRecord] /\ rec \in [Ids -> EventRecord]
    /\ tail \in {"clean", "unterminated", "corrupt"}
    /\ permits \in 0..MaxConcurrent
    /\ checked \subseteq Delivery /\ holding \subseteq Delivery
    /\ acked \subseteq Ids /\ cancelling \subseteq Ids
    /\ work \in [Ids -> WorkerState] /\ flow \in [Ids -> FlowState]
    /\ thread \in [Ids -> SUBSET Replies] /\ bound \in Counts

\* Every permit is free, with a worker, or with a delivery that has not
\* claimed yet: none is lost on a duplicate, a journal failure or a return.
PermitsConserved ==
    permits + Cardinality({i \in Ids : work[i].pc # "idle"})
            + Cardinality(holding) = MaxConcurrent

\* However often Slack redelivers, whatever the journal and the network lose and
\* wherever the process crashes, an event is turned into one workflow at most.
OneWorkflowPerEvent == \A i \in Ids : flow[i].made <= 1

\* A delivery answered 200 (Slack does not repeat it) is in the journal: the
\* process that restarts knows it, or does not start.
AckedIsDurable ==
    \A i \in acked : tail = "corrupt" \/ disk[i].state # "none"

\* The models an event addresses, by the envelope Slack delivers for it.
Addressed(i) ==
    UNION {selected_models(classify_event(config, e).selection) :
             e \in {f \in Accepted : classify_event(config, f).id = i}}

\* A message event whose record says completed was answered in its thread, with
\* a reply or a failure, for every model it addressed, and its worker is gone.
CompletedMeansAnswered ==
    \A i \in Messages :
        rec[i].state = "completed" /\ ~dry_run =>
            /\ work[i].pc = "idle"
            /\ rec[i].posted = Addressed(i)
            /\ \A m \in Addressed(i) : {<<m, "reply">>, <<m, "failure">>} \cap thread[i] # {}

\* The journal agrees with what Slack was told, over failed appends, torn lines and
\* crashes: an acknowledged event is in it, and one it calls completed was answered.
JournalTellsTruth == AckedIsDurable /\ CompletedMeansAnswered

\* A run that was marked canceled posts nothing more, across restarts.
CanceledStaysSilent ==
    [][\A i \in Ids : rec[i].state = "canceled" => thread'[i] = thread[i]]_vars

\* EventState::is_terminal: a run that ended does not start or end otherwise.
TerminalIsFinal ==
    [][\A i \in Ids : rec[i].state \in Terminal /\ up' =>
            rec'[i].state = rec[i].state]_vars

\* However a cancellation races the worker and the deadline, an end is an end: the
\* state stays, and a canceled run posts nothing more.
EndIsFinal == CanceledStaysSilent /\ TerminalIsFinal

\* A claimed run ends: whatever Slack and the bridge do, its worker returns and
\* gives the permit back.
WorkerReturns == \A i \in Ids : work[i].pc # "idle" ~> work[i].pc = "idle"
=============================================================================
