----------------------------- MODULE ChannelBus -----------------------------
(***************************************************************************)
(* One channel of AppState (src/src/state.rs) with its members, bounded    *)
(* history and broadcast ring, and the TCP and SSE connections that stream *)
(* it (src/src/tcp.rs, src/src/http.rs).                                   *)
(*                                                                         *)
(* Each critical section under the channels lock is one action; what the   *)
(* code does in several sections is several actions: a post joins in one   *)
(* section and appends in another, a TCP subscribe joins, then captures    *)
(* the receiver and the high-water mark, then reads history.  Other        *)
(* handler threads run in between.                                         *)
(***************************************************************************)
EXTENDS Integers, FiniteSets, Sequences, SequencesExt

CONSTANTS
    Agents,           \* agent keys
    Posters,          \* handler threads of post_message
    TcpConns,         \* TCP connections
    SseConns,         \* HTTP event-stream requests
    Readers,          \* connections whose client goes on reading what it is sent
    MAX_MEMBERS,      \* seats of a channel
    HistoryLimit,     \* config.history_limit
    HistoryBytes,     \* config.max_channel_history_bytes
    Sizes,            \* retained sizes of messages
    Sinces,           \* the `since' a TCP subscriber may ask for
    RingCapacity,     \* capacity of the broadcast channel (256)
    MaxSse,           \* config.max_sse_connections
    MaxSeq,           \* bound: messages posted
    MaxPresence       \* bound: presence events

ASSUME ChannelBusConstants ==
    /\ MAX_MEMBERS \in Nat \ {0} /\ HistoryLimit \in Nat \ {0}
    /\ HistoryBytes \in Nat /\ Sizes \subseteq Nat /\ Sinces \subseteq Nat
    /\ RingCapacity \in Nat \ {0} /\ MaxSse \in Nat
    /\ TcpConns \cap SseConns = {}
    /\ Readers \subseteq TcpConns \cup SseConns

Conns == TcpConns \cup SseConns

VARIABLES
    members,    \* ChannelState.members
    messages,   \* ChannelState.messages, oldest first
    next_seq,   \* ChannelState.next_seq
    sent,       \* every event broadcast so far; the ring keeps the last RingCapacity
    post,       \* the parked post of each poster thread
    conn        \* what each connection's task is doing, and the frames it wrote

vars == <<members, messages, next_seq, sent, post, conn>>

-----------------------------------------------------------------------------
(* Data *)

Message == [seq: Nat, from: Agents, size: Sizes]

MessageEvent(m) == [type |-> "message", seq |-> m.seq, from |-> m.from]
Presence(a, kind) == [type |-> kind, agent_key |-> a]

IsMessage(e) == e.type = "message"
IsPresence(e) == e.type \in {"joined", "left"}

NoPost == [phase |-> "idle"]

\* phase: idle -> joined -> captured -> live -> closed.  cursor is the next event
\* the receiver reads, owed the retained messages above since when the receiver
\* was captured, out the frames written to the client.
NewConn ==
    [phase |-> "idle", since |-> 0, cursor |-> 0, high_water |-> 0, owed |-> {},
     out |-> <<>>]

history_bytes(ms) == FoldLeft(LAMBDA acc, m : acc + m.size, 0, ms)

OverBudget(ms) ==
    \/ Len(ms) > HistoryLimit
    \/ history_bytes(ms) > HistoryBytes /\ Len(ms) > 1

\* Mutant: a full history drops the message it was to take in.
evict_newest(ms) == IF OverBudget(ms) THEN Front(ms) ELSE ms

\* pop_front until the history is within its count and byte limits.
Evicted(ms) ==
    LET n == CHOOSE k \in 0 .. Len(ms) :
                /\ ~OverBudget(SubSeq(ms, k + 1, Len(ms)))
                /\ \A j \in 0 .. k - 1 : OverBudget(SubSeq(ms, j + 1, Len(ms)))
    IN  SubSeq(ms, n + 1, Len(ms))

-----------------------------------------------------------------------------
(* Membership *)

Init ==
    /\ members = {}
    /\ messages = <<>>
    /\ next_seq = 1
    /\ sent = <<>>
    /\ post = [p \in Posters |-> NoPost]
    /\ conn = [c \in Conns |-> NewConn]

PresenceRoom == Len(SelectSeq(sent, IsPresence)) < MaxPresence

\* Mutant: the cap is tested with > instead of >=.
has_seat_off_by_one == Cardinality(members) <= MAX_MEMBERS

HasSeat == Cardinality(members) < MAX_MEMBERS

\* join: a member is left as it is, a newcomer needs a seat and is announced
\* under the lock.  ChannelFull leaves everything alone: the caller's action is
\* then not enabled, except where it has something else to do.
Seated(a) ==
    \/ a \in members /\ UNCHANGED <<members, sent>>
    \/ /\ a \notin members /\ HasSeat /\ PresenceRoom
       /\ members' = members \cup {a}
       /\ sent' = Append(sent, Presence(a, "joined"))

join(a) == Seated(a) /\ UNCHANGED <<messages, next_seq, post, conn>>

\* Mutant: leaving is silent.
leave_silently(a) ==
    /\ a \in members
    /\ members' = members \ {a}
    /\ UNCHANGED <<messages, next_seq, sent, post, conn>>

leave(a) ==
    /\ a \in members /\ PresenceRoom
    /\ members' = members \ {a}
    /\ sent' = Append(sent, Presence(a, "left"))
    /\ UNCHANGED <<messages, next_seq, post, conn>>

-----------------------------------------------------------------------------
(* Posting *)

\* First section of post_message: the seat.
PostJoin(p) ==
    /\ post[p] = NoPost
    /\ \E a \in Agents, size \in Sizes :
        /\ Seated(a)
        /\ post' = [post EXCEPT ![p] = [phase |-> "seated", from |-> a, size |-> size]]
    /\ UNCHANGED <<messages, next_seq, conn>>

\* Second section: number, append, evict, broadcast.
PostAppend(p) ==
    LET m == [seq |-> next_seq, from |-> post[p].from, size |-> post[p].size]
    IN  /\ post[p] # NoPost
        /\ next_seq <= MaxSeq
        /\ next_seq' = next_seq + 1
        /\ messages' = Evicted(Append(messages, m))
        /\ sent' = Append(sent, MessageEvent(m))
        /\ post' = [post EXCEPT ![p] = NoPost]
        /\ UNCHANGED <<members, conn>>

-----------------------------------------------------------------------------
(* Streaming *)

RingStart == IF Len(sent) > RingCapacity THEN Len(sent) - RingCapacity + 1 ELSE 1

\* An SSE request needs a permit for as long as its stream lives.
SsePermit(c) ==
    c \in SseConns =>
        Cardinality({d \in SseConns : conn[d].phase \notin {"idle", "closed"}}) < MaxSse

\* subscribe, first section: the optional join of the subscriber.  A TCP
\* connection subscribes to the channel once (already_subscribed afterwards).
SubscribeJoin(c) ==
    /\ conn[c].phase = "idle" /\ SsePermit(c)
    /\ \/ \E a \in Agents : Seated(a)
       \/ UNCHANGED <<members, sent>>
    /\ \E since \in IF c \in TcpConns THEN Sinces ELSE {0} :
        conn' = [conn EXCEPT ![c].phase = "joined", ![c].since = since]
    /\ UNCHANGED <<messages, next_seq, post>>

\* Mutant: the high-water mark is the next sequence number itself.
high_water_off_by_one == next_seq

HighWater == next_seq - 1

\* subscribe, second section: receiver and high-water mark under one read lock.
\* An SSE stream goes live at once, a TCP one replays history first.
SubscribeCapture(c) ==
    /\ conn[c].phase = "joined"
    /\ conn' = [conn EXCEPT
            ![c].phase = IF c \in TcpConns THEN "captured" ELSE "live",
            ![c].cursor = Len(sent) + 1,
            ![c].high_water = HighWater,
            ![c].owed = IF c \in TcpConns
                        THEN {s \in {messages[i].seq : i \in DOMAIN messages} :
                                s > conn[c].since}
                        ELSE {}]
    /\ UNCHANGED <<members, messages, next_seq, sent, post>>

\* The retained messages above since and up to the mark, oldest first: the k-th
\* frame is the one with k of them up to its place.
Due(c) ==
    {i \in DOMAIN messages :
        conn[c].since < messages[i].seq /\ messages[i].seq <= conn[c].high_water}
ReplayFrames(c) ==
    [k \in 1 .. Cardinality(Due(c)) |->
        MessageEvent(messages[CHOOSE i \in Due(c) : Cardinality({j \in Due(c) : j <= i}) = k])]

\* The replay of history above since and up to the mark, then the forwarder task.
Replay(c) ==
    /\ conn[c].phase = "captured"
    /\ conn' = [conn EXCEPT ![c].phase = "live", ![c].out = @ \o ReplayFrames(c)]
    /\ UNCHANGED <<members, messages, next_seq, sent, post>>

Lagged(n) == [type |-> "lagged", dropped |-> n]

\* Mutant: a lagging receiver skips without a notice.
recv_skips_silently(c) ==
    [conn[c] EXCEPT !.cursor = RingStart]

\* Mutant: Lagged ends the forwarder, as Closed does, and nobody restarts it.
recv_lagged_ends(c) ==
    [conn[c] EXCEPT !.phase = "ended"]

\* recv on a receiver that the ring overtook: it moves to the oldest event kept
\* and the client is told how many it lost.
RecvLagged(c) ==
    [conn[c] EXCEPT !.cursor = RingStart,
                    !.out = Append(@, Lagged(RingStart - conn[c].cursor))]

RecvEvent(c) ==
    [conn[c] EXCEPT !.cursor = @ + 1, !.out = Append(@, sent[conn[c].cursor])]

Forward(c) ==
    /\ conn[c].phase = "live" /\ conn[c].cursor <= Len(sent)
    /\ conn' = [conn EXCEPT ![c] = IF conn[c].cursor < RingStart
                                   THEN RecvLagged(c) ELSE RecvEvent(c)]
    /\ UNCHANGED <<members, messages, next_seq, sent, post>>

\* The peer goes away: forwarders are aborted, the permit is released; the
\* membership taken by subscribe stays.
Disconnect(c) ==
    /\ conn[c].phase \in {"joined", "captured", "live"}
    /\ conn' = [conn EXCEPT ![c] = [NewConn EXCEPT !.phase = "closed"]]
    /\ UNCHANGED <<members, messages, next_seq, sent, post>>

Next ==
    \/ \E a \in Agents : join(a) \/ leave(a)
    \/ \E p \in Posters : PostJoin(p) \/ PostAppend(p)
    \/ \E c \in Conns :
        SubscribeJoin(c) \/ SubscribeCapture(c) \/ Replay(c) \/ Forward(c) \/ Disconnect(c)

Spec == Init /\ [][Next]_vars

\* The handler's own code runs on.  A frame is awaited into the client's socket
\* (write_line has no timeout) or pulled by the client (SSE), so only a client that
\* goes on reading lets Replay and Forward end; nothing makes clients post,
\* subscribe, read or go away.
Fairness ==
    /\ \A c \in Conns : WF_vars(SubscribeCapture(c))
    /\ \A c \in Readers : WF_vars(Replay(c)) /\ WF_vars(Forward(c))

FairSpec == Spec /\ Fairness

-----------------------------------------------------------------------------
(* Properties *)

\* Every variable stays in its domain.
TypeOK ==
    /\ members \subseteq Agents
    /\ messages \in Seq(Message)
    /\ next_seq \in Nat \ {0}
    /\ \A i \in DOMAIN sent : IsMessage(sent[i]) \/ IsPresence(sent[i])
    /\ \A p \in Posters : post[p].phase \in {"idle", "seated"}
    /\ \A c \in Conns :
        /\ conn[c].phase \in {"idle", "joined", "captured", "live", "closed"}
        /\ conn[c].cursor \in 0 .. Len(sent) + 1
        /\ conn[c].high_water \in 0 .. next_seq - 1

\* README, "32 seats": concurrent joins, posts and subscribes never seat more
\* than MAX_MEMBERS agents.
SeatsBounded == Cardinality(members) <= MAX_MEMBERS

\* history is always the unbroken run of the newest messages, and within its
\* limits (one message is kept whatever its size).
HistoryIsNewestRun ==
    /\ ~OverBudget(messages)
    /\ next_seq > 1 => messages # <<>>
    /\ \A i \in DOMAIN messages : messages[i].seq = next_seq - 1 - (Len(messages) - i)

\* What a client saw on one connection: the message frames strictly ascend, so
\* replay and live stream never repeat or reorder a message, whatever was
\* posted or evicted between capturing the receiver and reading history.
DeliveredInOrder ==
    \A c \in Conns : \A i, j \in DOMAIN conn[c].out :
        LET e == conn[c].out[i]
            f == conn[c].out[j]
        IN  i < j /\ IsMessage(e) /\ IsMessage(f) => e.seq < f.seq

\* tcp.rs, "don't silently gap": a message posted after the receiver was
\* captured that is missing below a delivered one was announced by a lagged
\* notice between the two.
LiveGapsSignalled ==
    \A c \in Conns : \A i \in DOMAIN conn[c].out :
        LET out == conn[c].out
        IN  IsMessage(out[i]) =>
              \A s \in conn[c].high_water + 1 .. out[i].seq - 1 :
                  \/ \E j \in 1 .. i - 1 : IsMessage(out[j]) /\ out[j].seq = s
                  \/ \E j \in 1 .. i - 1 : out[j].type = "lagged"

\* What one client is sent, replay and live stream together: nothing twice, nothing
\* out of order, and nothing left out of the live part without a notice.
StreamFaithful == DeliveredInOrder /\ LiveGapsSignalled

\* join and leave announce under the lock: replaying the presence events in the
\* order they were broadcast gives exactly the members.
PresenceTellsMembership ==
    members = {a \in Agents : \E i \in DOMAIN sent :
        /\ sent[i] = Presence(a, "joined")
        /\ \A j \in i + 1 .. Len(sent) : sent[j] # Presence(a, "left")}

\* Who is in the channel: join, post_message and subscribe race for the seats, and
\* the cap, the members and what was announced of them stay in agreement.
MembershipSound == SeatsBounded /\ PresenceTellsMembership

\* The stream of a client that goes on reading catches up with the channel or its
\* connection ends: neither an overrun of the ring nor another client that
\* stopped reading in the middle of its replay or stream leaves it behind for ever.
LiveCatchesUp ==
    \A c \in Readers :
        conn[c].phase = "joined"
            ~> \/ conn[c].phase = "closed"
               \/ conn[c].phase = "live" /\ conn[c].cursor = Len(sent) + 1

\* state.rs, subscribe: "the split is exact - no duplicate, no gap".  Every
\* message retained when the receiver was captured reaches a client that is live.
ReplayHasNoGap ==
    \A c \in TcpConns : conn[c].phase = "live" =>
        \A s \in conn[c].owed :
            \E i \in DOMAIN conn[c].out :
                IsMessage(conn[c].out[i]) /\ conn[c].out[i].seq = s
=============================================================================
