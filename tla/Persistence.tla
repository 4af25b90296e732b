----------------------------- MODULE Persistence -----------------------------
(***************************************************************************)
(* The channel directory, the shared context and the agents of AppState,    *)
(* their best-effort Postgres mirror, shutdown, crash and restore.          *)
(*                                                                         *)
(* Memory is authoritative. Every accepted change spawns a detached write   *)
(* while a permit is free and is shed otherwise; the writes run in any      *)
(* order and may fail. Membership and broadcasting are ChannelBus; here a   *)
(* join or a leave is only the write it spawns. A message and a context     *)
(* value are the number of the operation that made them. The size filters   *)
(* of the restore queries pass what the live setters accept.                *)
(***************************************************************************)
EXTENDS Naturals, Sequences, SequencesExt, FiniteSets, FiniteSetsExt, Functions

CONSTANTS
    Slugs,              \* what slugify can return, as <<base, base-2, ...>>
    Keys,               \* context keys, already trimmed
    Reserved,           \* those that begin with workflow. or internal.
    Agents,
    Callers,            \* requests that create or resolve a channel
    PERSIST_CONCURRENCY,
    MAX_CONTEXT_KEYS,
    max_channels,
    max_agents,
    history_limit,
    MaxOps,             \* bound: accepted changes
    MaxFailures,        \* bound: writes that fail
    MaxBoots            \* bound: restarts

ASSUME PersistenceAssumption ==
    /\ PERSIST_CONCURRENCY \in Nat \ {0}
    /\ {max_channels, max_agents, history_limit, MAX_CONTEXT_KEYS, MaxOps, MaxFailures, MaxBoots}
          \subseteq Nat
    /\ Reserved \subseteq Keys
    /\ Slugs \in Seq(STRING) /\ Slugs # <<>>

VARIABLES
    phase,      \* up, draining (flush_persistence waits), flushed, down
    channels,   \* slug -> next_seq, message_count, messages, context
    agents,     \* agent -> the operation that registered it
    calls,      \* caller -> what it is about to do
    tasks,      \* the spawned writes that hold a permit
    db,         \* the mirror: agents, channels, which of them are archived, messages, context
    ops,        \* accepted changes so far: the identity of the next one
    failures, boots,
    whole,      \* load_state of this process succeeded
    unseen,     \* slugs whose rows load_state did not ask for
    written,    \* messages of other slugs, of such a process, whose insert reported success
    made,       \* slugs a caller of this process was told it created
    cut         \* an accepted write was dropped by a graceful exit

memory == <<channels, agents, made>>
mirror == <<tasks, db, failures, written>>
vars == <<phase, channels, agents, calls, tasks, db, ops, failures, boots, whole, unseen, written, made,
          cut>>

SlugSet == ToSet(Slugs)
Idle == [do |-> "idle"]
Serving == phase \in {"up", "draining", "flushed"}
Fresh == [next_seq |-> 1, message_count |-> 0, messages |-> <<>>, context |-> << >>]
Put(f, k, v) == [x \in DOMAIN f \cup {k} |-> IF x = k THEN v ELSE f[x]]
Newest(s, n) == SubSeq(s, IF Len(s) > n THEN Len(s) - n + 1 ELSE 1, Len(s))

Init ==
    /\ phase = "up" /\ channels = << >> /\ agents = << >> /\ made = {}
    /\ calls = [c \in Callers |-> Idle]
    /\ tasks = {} /\ written = {} /\ cut = FALSE /\ whole = TRUE /\ unseen = {}
    /\ db = [agents |-> << >>, channels |-> {}, archived |-> {}, messages |-> {}, context |-> << >>]
    /\ ops = 0 /\ failures = 0 /\ boots = 0

-----------------------------------------------------------------------------
(* spawn_persist: a permit or nothing. A flush that waits holds every free   *)
(* permit.                                                                  *)

spawn_persist(write) ==
    tasks' = IF phase # "draining" /\ Cardinality(tasks) < PERSIST_CONCURRENCY
             THEN tasks \cup {write} ELSE tasks

Accepted == Serving /\ ops < MaxOps /\ ops' = ops + 1

register_agent(a) ==
    /\ Accepted
    /\ a \in DOMAIN agents \/ Cardinality(DOMAIN agents) < max_agents
    /\ agents' = Put(agents, a, ops)
    /\ spawn_persist([kind |-> "agent", agent |-> a, op |-> ops])
    /\ UNCHANGED <<phase, channels, calls, db, failures, boots, whole, unseen, written, made, cut>>

\* join and leave: their writes compete for the permits.
ChangeMember(s) ==
    /\ Accepted /\ s \in DOMAIN channels
    /\ spawn_persist([kind |-> "member", op |-> ops])
    /\ UNCHANGED <<phase, memory, calls, db, failures, boots, whole, unseen, written, cut>>

post_message(s) ==
    /\ Accepted /\ s \in DOMAIN channels
    /\ LET ch == channels[s]
           m  == [seq |-> ch.next_seq, id |-> ops]
       IN  /\ channels' = [channels EXCEPT ![s] =
                 [ch EXCEPT !.next_seq = ch.next_seq + 1, !.message_count = ch.message_count + 1,
                            !.messages = Newest(Append(ch.messages, m), history_limit)]]
           /\ spawn_persist([kind |-> "message", slug |-> s, seq |-> m.seq, op |-> ops])
    /\ UNCHANGED <<phase, agents, calls, db, failures, boots, whole, unseen, written, made, cut>>

\* The public setter refuses the reserved keys, the bridge's own writes them.
set_context(s, k, internal) ==
    /\ Accepted /\ s \in DOMAIN channels
    /\ k \in Reserved => internal
    /\ LET ctx == channels[s].context
           e   == [version |-> IF k \in DOMAIN ctx THEN ctx[k].version + 1 ELSE 1, value |-> ops]
       IN  /\ k \in DOMAIN ctx \/ Cardinality(DOMAIN ctx) < MAX_CONTEXT_KEYS
           /\ channels' = [channels EXCEPT ![s] = [@ EXCEPT !.context = Put(ctx, k, e)]]
           /\ spawn_persist([kind |-> "context", slug |-> s, key |-> k, entry |-> e, op |-> ops])
    /\ UNCHANGED <<phase, agents, calls, db, failures, boots, whole, unseen, written, made, cut>>

-----------------------------------------------------------------------------
(* Creating a channel: look, await the embedding, look again and insert.     *)

\* A slug that exists is returned as it is.
create_or_get_channel(c, s) ==
    /\ Serving /\ ops < MaxOps /\ calls[c] = Idle /\ s \notin DOMAIN channels
    /\ calls' = [calls EXCEPT ![c] = [do |-> "insert", slug |-> s]]
    /\ UNCHANGED <<phase, memory, mirror, ops, boots, whole, unseen, cut>>

\* The first of base, base-2, ... that is free; the last resort is a random one.
unique_slug ==
    LET free == {i \in DOMAIN Slugs : Slugs[i] \notin DOMAIN channels}
    IN  Slugs[Min(free)]

\* After its embedding: the query is close to no topic, a slug is chosen
\* under the read lock.
resolve_channel(c) ==
    /\ Serving /\ ops < MaxOps /\ calls[c] = Idle
    /\ \E s \in SlugSet : s \notin DOMAIN channels
    /\ calls' = [calls EXCEPT ![c] = [do |-> "insert", slug |-> unique_slug]]
    /\ UNCHANGED <<phase, memory, mirror, ops, boots, whole, unseen, cut>>

\* Mutants of insert_channel: no second look; the limit is not tested.
insert_channel_blindly(c) ==
    /\ Serving /\ calls[c].do = "insert" /\ ops < MaxOps
    /\ calls' = [calls EXCEPT ![c] = Idle] /\ ops' = ops + 1
    /\ LET s == calls[c].slug
       IN  IF s \in DOMAIN channels \/ Cardinality(DOMAIN channels) < max_channels
           THEN /\ channels' = Put(channels, s, Fresh) /\ made' = made \cup {<<s, c>>}
                /\ spawn_persist([kind |-> "channel", slug |-> s, op |-> ops])
           ELSE UNCHANGED <<channels, made, tasks>>
    /\ UNCHANGED <<phase, agents, db, failures, boots, whole, unseen, written, cut>>
insert_channel_unbounded(c) ==
    /\ Serving /\ calls[c].do = "insert" /\ ops < MaxOps
    /\ calls' = [calls EXCEPT ![c] = Idle] /\ ops' = ops + 1
    /\ LET s == calls[c].slug
       IN  IF s \notin DOMAIN channels
           THEN /\ channels' = Put(channels, s, Fresh) /\ made' = made \cup {<<s, c>>}
                /\ spawn_persist([kind |-> "channel", slug |-> s, op |-> ops])
           ELSE UNCHANGED <<channels, made, tasks>>
    /\ UNCHANGED <<phase, agents, db, failures, boots, whole, unseen, written, cut>>

\* A creator that won the race, or the limit, leaves everything as it is.
insert_channel(c) ==
    /\ Serving /\ calls[c].do = "insert" /\ ops < MaxOps
    /\ calls' = [calls EXCEPT ![c] = Idle] /\ ops' = ops + 1
    /\ LET s == calls[c].slug
       IN  IF s \notin DOMAIN channels /\ Cardinality(DOMAIN channels) < max_channels
           THEN /\ channels' = Put(channels, s, Fresh) /\ made' = made \cup {<<s, c>>}
                /\ spawn_persist([kind |-> "channel", slug |-> s, op |-> ops])
           ELSE UNCHANGED <<channels, made, tasks>>
    /\ UNCHANGED <<phase, agents, db, failures, boots, whole, unseen, written, cut>>

-----------------------------------------------------------------------------
(* The writes.                                                              *)

\* The row's channel_id is not null. Whether the table takes a null one is
\* decided by a schema that is not in the repository: Apply and Fail both may.
HasChannel(t) == t.kind \in {"message", "context"} => t.slug \in db.channels

upsert_agent(t) == [db EXCEPT !.agents = Put(@, t.agent, t.op)]
\* on conflict (slug) do update: the status stays as it is.
upsert_channel(t) == [db EXCEPT !.channels = @ \cup {t.slug}]
\* on conflict (channel_slug, seq) do nothing.
insert_message(t) ==
    IF \E r \in db.messages : r.slug = t.slug /\ r.seq = t.seq THEN db
    ELSE [db EXCEPT !.messages = @ \cup {[slug |-> t.slug, seq |-> t.seq, id |-> t.op]}]
\* Mutant: the last write wins.
save_context_last(t) == [db EXCEPT !.context = Put(@, <<t.slug, t.key>>, t.entry)]

\* ... where version < excluded.version.
save_context(t) ==
    LET k == <<t.slug, t.key>>
    IN  IF k \in DOMAIN db.context /\ db.context[k].version >= t.entry.version THEN db
        ELSE [db EXCEPT !.context = Put(@, k, t.entry)]

Apply(t) ==
    /\ phase # "down"
    /\ tasks' = tasks \ {t}
    /\ db' = CASE t.kind = "agent"   -> upsert_agent(t)
               [] t.kind = "channel" -> upsert_channel(t)
               [] t.kind = "message" -> insert_message(t)
               [] t.kind = "context" -> save_context(t)
               [] OTHER              -> db
    /\ written' = IF t.kind = "message" /\ whole /\ t.slug \notin unseen THEN written \cup {t.op} ELSE written
    /\ UNCHANGED <<phase, memory, calls, ops, failures, boots, whole, unseen, cut>>

\* The error is logged and the write is gone.
Fail(t) ==
    /\ phase # "down"
    /\ \/ ~HasChannel(t) /\ UNCHANGED failures
       \/ failures < MaxFailures /\ failures' = failures + 1
    /\ tasks' = tasks \ {t}
    /\ UNCHANGED <<phase, memory, calls, db, ops, boots, whole, unseen, written, cut>>

\* Somebody sets the status of a channel in the database; the program never does.
SetStatus(s) ==
    /\ s \in db.channels /\ boots < MaxBoots
    /\ \E a \in {db.archived \cup {s}, db.archived \ {s}} : db' = [db EXCEPT !.archived = a]
    /\ UNCHANGED <<phase, memory, calls, tasks, ops, failures, boots, whole, unseen, written, cut>>

-----------------------------------------------------------------------------
(* Shutdown, crash and restore.                                             *)

\* The accept loops are aborted; the connections they spawned go on.
Shutdown ==
    /\ phase = "up" /\ boots < MaxBoots
    /\ phase' = "draining"
    /\ UNCHANGED <<memory, mirror, calls, ops, boots, whole, unseen, cut>>

\* acquire_many_owned has every permit and drops them.
flush_persistence ==
    /\ phase = "draining" /\ tasks = {}
    /\ phase' = "flushed"
    /\ UNCHANGED <<memory, mirror, calls, ops, boots, whole, unseen, cut>>

\* main returns, or the process dies; memory and the writes in hand are gone.
Stop ==
    /\ phase \in {"flushed", "up", "draining"} /\ boots < MaxBoots
    /\ phase' = "down"
    /\ cut' = (cut \/ (phase = "flushed" /\ tasks # {}))
    /\ tasks' = {} /\ channels' = << >> /\ agents' = << >> /\ made' = {}
    /\ calls' = [c \in Callers |-> Idle]
    /\ UNCHANGED <<db, ops, failures, boots, whole, unseen, written>>

\* limit max_agents, the most recently updated first; here any of them.
load_agents(S) ==
    /\ S \subseteq DOMAIN db.agents
    /\ Cardinality(S) = Min({max_agents, Cardinality(DOMAIN db.agents)})
\* where status <> 'archived'.
Active == db.channels \ db.archived
\* At most max_channels, in the order they were created; here any of them.
load_channels(S) ==
    /\ S \subseteq Active
    /\ Cardinality(S) = Min({max_channels, Cardinality(Active)})

Rows(s) == {r \in db.messages : r.slug = s}
\* The mirror has a message or a context value of the channel.
Mirrored(s) == Rows(s) # {} \/ \E k \in Keys : <<s, k>> \in DOMAIN db.context
\* row_number() over the rows of the channel, the newest first.
retained_rank(r) == Cardinality({q \in Rows(r.slug) : q.seq >= r.seq})
Window(s) ==
    LET kept == Min({history_limit, Cardinality(Rows(s))})
        at(i) == CHOOSE r \in Rows(s) : retained_rank(r) = kept + 1 - i
    IN  [i \in 1 .. kept |-> [seq |-> at(i).seq, id |-> at(i).id]]
MaxSeq(s) == Max({0} \cup {r.seq : r \in Rows(s)})
\* Mutant: the count, not the high water.
restore_messages_counting(s) ==
    [next_seq |-> Cardinality(Rows(s)) + 1, message_count |-> Cardinality(Rows(s)),
     messages |-> Window(s), context |-> << >>]

\* The newest rows, the number of rows and the highest sequence number.
restore_messages(s) ==
    [next_seq |-> MaxSeq(s) + 1, message_count |-> Cardinality(Rows(s)), messages |-> Window(s),
     context |-> << >>]

\* In the order of the keys, up to the limit; here any of them.
restore_context(s, K) ==
    LET stored == {k \in Keys : <<s, k>> \in DOMAIN db.context}
    IN  /\ K \subseteq stored
        /\ Cardinality(K) = Min({MAX_CONTEXT_KEYS, Cardinality(stored)})

Boot ==
    /\ phase = "down" /\ boots' = boots + 1 /\ phase' = "up"
    /\ UNCHANGED <<calls, mirror, ops, made, cut>>

\* load_state: agents, channels, messages, context.
load_state ==
    /\ Boot /\ whole' = TRUE /\ unseen' = {s \in SlugSet : Mirrored(s) /\ s \notin Active}
    /\ \E A \in SUBSET DOMAIN db.agents : load_agents(A) /\ agents' = Restrict(db.agents, A)
    /\ \E S \in SUBSET Active, K \in [SlugSet -> SUBSET Keys] :
          /\ load_channels(S) /\ \A s \in SlugSet : restore_context(s, K[s])
          /\ channels' = [s \in S |->
                [restore_messages(s) EXCEPT !.context = [k \in K[s] |-> db.context[<<s, k>>]]]]

\* One of its queries fails: main warns and serves with what was loaded so far.
LoadStateFails ==
    /\ Boot /\ whole' = FALSE /\ UNCHANGED unseen
    /\ \E after \in {"nothing", "agents", "channels", "messages"} :
          /\ IF after = "nothing" THEN agents' = << >>
             ELSE \E A \in SUBSET DOMAIN db.agents :
                     load_agents(A) /\ agents' = Restrict(db.agents, A)
          /\ IF after \in {"nothing", "agents"} THEN channels' = << >>
             ELSE \E S \in SUBSET Active :
                     /\ load_channels(S)
                     /\ channels' = [s \in S |->
                           IF after = "channels" THEN Fresh ELSE restore_messages(s)]

Next ==
    \/ \E a \in Agents : register_agent(a)
    \/ \E s \in SlugSet :
          \/ ChangeMember(s)
          \/ post_message(s)
          \/ \E k \in Keys, internal \in BOOLEAN : set_context(s, k, internal)
          \/ \E c \in Callers : create_or_get_channel(c, s)
          \/ SetStatus(s)
    \/ \E c \in Callers : resolve_channel(c) \/ insert_channel(c)
    \/ \E t \in tasks : Apply(t) \/ Fail(t)
    \/ Shutdown \/ flush_persistence \/ Stop \/ load_state \/ LoadStateFails

Spec == Init /\ [][Next]_vars

-----------------------------------------------------------------------------
\* Every variable has its type, and the writes in hand fit the permits.
TypeOK ==
    /\ phase \in {"up", "draining", "flushed", "down"}
    /\ DOMAIN channels \subseteq SlugSet /\ DOMAIN agents \subseteq Agents
    /\ \A s \in DOMAIN channels :
          /\ channels[s].next_seq \in 1..(MaxOps + 1)
          /\ Len(channels[s].messages) <= history_limit
          /\ channels[s].message_count >= Len(channels[s].messages)
    /\ Cardinality(tasks) <= PERSIST_CONCURRENCY
    /\ db.channels \subseteq SlugSet

\* The channels whose rows this process restored, or that had none. The others
\* were archived, or left without a row of their own by a write that was shed or
\* failed; created again, they count from 1 over the rows they have.
Followed == IF whole THEN DOMAIN channels \ unseen ELSE {}

\* Once load_state succeeded the mirror holds nothing of a followed channel that
\* memory does not know: the channel continues above every sequence number, and at
\* or above every context version, of its rows, whatever was shed or failed.
MemoryLeadsMirror ==
      \A s \in Followed :
        LET ctx == channels[s].context
        IN  /\ \A r \in Rows(s) : r.seq < channels[s].next_seq
            /\ \A k \in Keys : <<s, k>> \in DOMAIN db.context =>
                  IF k \in DOMAIN ctx THEN ctx[k].version >= db.context[<<s, k>>].version
                  ELSE Cardinality(DOMAIN ctx) >= MAX_CONTEXT_KEYS

\* insert_message reports success on a conflict too: what a process was told is
\* written of a followed channel is there.
WrittenIsThere == \A m \in written : \E r \in db.messages : r.id = m

\* Memory and the mirror never give one sequence number to two messages, and
\* the history is in sequence, through shedding, failures and restores.
OneMessagePerSeq ==
      \A s \in Followed : \A i \in DOMAIN channels[s].messages :
        LET m == channels[s].messages[i]
        IN  /\ \A r \in Rows(s) : r.seq = m.seq => r.id = m.id
            /\ \A j \in 1..(i - 1) : channels[s].messages[j].seq < m.seq

\* Memory and its mirror agree on the numbering of every channel that load_state asked
\* for or that was new, whatever was shed, failed, overtaken or archived: memory is
\* ahead, a confirmed row is there, a number is one message's.
MirrorConsistent == MemoryLeadsMirror /\ WrittenIsThere /\ OneMessagePerSeq

\* The creators of one slug race through the embedding: one is told it
\* created the channel, and the channel is not replaced under the other.
CreatedOnce == \A p, q \in made : p[1] = q[1] => p = q

\* However many creators passed their first look, and whatever was restored,
\* the directory stays within max_channels.
DirectoryBounded == Cardinality(DOMAIN channels) <= max_channels

\* Creators that all passed their first look before the embedding came back leave one
\* channel per slug and no more channels than allowed.
DirectorySound == CreatedOnce /\ DirectoryBounded

\* The writes of one key run in any order: a stored context never goes back.
ContextNeverGoesBack ==
    [][\A k \in DOMAIN db.context :
          /\ k \in DOMAIN db'.context
          /\ db'.context[k] # db.context[k] => db'.context[k].version > db.context[k].version]_vars

\* README: the restored high water prevents the reuse of a (channel, seq).
NoSeqReuse ==
    [][\A s \in SlugSet :
          s \in DOMAIN channels /\ s \in DOMAIN channels'
          /\ channels'[s].next_seq = channels[s].next_seq + 1
          => ~\E r \in Rows(s) : r.seq = channels[s].next_seq]_vars

\* README: graceful shutdown waits for every accepted persistence task.
GracefulExitCutsNothing == ~cut
=============================================================================
