-------------------------- MODULE PersistenceProofs --------------------------
(***************************************************************************)
(* Proofs about Persistence, for every set of slugs, keys, agents and        *)
(* creators, every limit and every bound.                                   *)
(*                                                                         *)
(* The directory: a creator's second look and its insert are one section,   *)
(* so whoever was told it made a channel made a slug that was not there.    *)
(* The mirror: a process that restored everything it has room for starts    *)
(* above every row it asked for, spawns each write with a number above      *)
(* them, and never gives room to a channel or key it left behind for want   *)
(* of room; so a row that is in the way of a write is that write's own. The *)
(* rows it did not ask for, of an archived channel or of one that has no    *)
(* row, are what unseen names: nothing is claimed of those slugs.           *)
(***************************************************************************)
EXTENDS Persistence, FiniteSetTheorems, FunctionTheorems, SequenceTheorems,
        WellFoundedInduction, TLAPS

-----------------------------------------------------------------------------
(* The inductive invariant *)

\* The functions from part of S to T.
Maps(S, T) == UNION {[D -> T] : D \in SUBSET S}

Msg == [seq : Nat, id : Nat]
Entry == [version : Nat, value : Nat]
Channel == [next_seq : Nat, message_count : Nat, messages : Seq(Msg), context : Maps(Keys, Entry)]
Row == [slug : SlugSet, seq : Nat, id : Nat]
Db == [agents : Maps(Agents, Nat), channels : SUBSET SlugSet, archived : SUBSET SlugSet,
       messages : SUBSET Row, context : Maps(SlugSet \X Keys, Entry)]
Call == {Idle} \cup [do : {"insert"}, slug : SlugSet]
Task == [kind : {"agent"}, agent : Agents, op : Nat]
        \cup [kind : {"member"}, op : Nat]
        \cup [kind : {"channel"}, slug : SlugSet, op : Nat]
        \cup [kind : {"message"}, slug : SlugSet, seq : Nat, op : Nat]
        \cup [kind : {"context"}, slug : SlugSet, key : Keys, entry : Entry, op : Nat]

\* The variables hold what the code puts there.
Shape ==
    /\ phase \in {"up", "draining", "flushed", "down"} /\ whole \in BOOLEAN /\ ops \in 0 .. MaxOps
    /\ channels \in Maps(SlugSet, Channel)
    /\ agents \in Maps(Agents, Nat)
    /\ calls \in [Callers -> Call]
    /\ tasks \subseteq Task /\ IsFiniteSet(tasks) /\ Cardinality(tasks) <= PERSIST_CONCURRENCY
    /\ db \in Db /\ IsFiniteSet(db.messages) /\ IsFiniteSet(DOMAIN db.context)

\* A channel in memory: its history is short, ascends and lies below the next
\* number, and no more numbers than operations were given out.
Orderly(ch) ==
    /\ ch.next_seq \in 1 .. ops + 1
    /\ Len(ch.messages) <= history_limit /\ ch.message_count >= Len(ch.messages)
    /\ \A i \in DOMAIN ch.messages :
          /\ ch.messages[i].seq < ch.next_seq
          /\ \A j \in 1 .. i - 1 : ch.messages[j].seq < ch.messages[i].seq
    /\ IsFiniteSet(DOMAIN ch.context)
Memory == \A s \in DOMAIN channels : Orderly(channels[s])

\* The rows have a key, and their numbers were given out.
Keyed ==
    /\ \A r \in db.messages : r.seq \in 1 .. ops
    /\ \A r, q \in db.messages : r.slug = q.slug /\ r.seq = q.seq => r = q

\* The writes in hand are about channels in memory; a process that ended left none.
InHand ==
    /\ \A t \in tasks : t.kind \in {"channel", "message", "context"} => t.slug \in DOMAIN channels
    /\ \A t \in tasks : t.kind = "message" => t.seq \in 1 .. ops
    /\ phase = "down" => tasks = {} /\ DOMAIN channels = {}

Directory ==
    /\ \A p \in made : p[1] \in DOMAIN channels
    /\ DirectorySound

\* A number is one message's: in memory, in the mirror and in hand.
Numbered(s) ==
    LET ch == channels[s]
    IN  /\ \A r \in db.messages : r.slug = s => r.seq < ch.next_seq
        /\ \A i \in DOMAIN ch.messages, r \in db.messages :
              r.slug = s /\ r.seq = ch.messages[i].seq => r.id = ch.messages[i].id
        /\ \A t \in tasks : t.kind = "message" /\ t.slug = s =>
              /\ t.seq < ch.next_seq
              /\ \A u \in tasks : u.kind = "message" /\ u.slug = s /\ u.seq = t.seq => u.op = t.op
              /\ \A r \in db.messages : r.slug = s /\ r.seq = t.seq => r.id = t.op
              /\ \A i \in DOMAIN ch.messages : ch.messages[i].seq = t.seq => ch.messages[i].id = t.op

\* A version in memory is at least the one in the mirror and those in hand; a key
\* that memory does not hold found no room.
Versioned(s) ==
    LET ctx == channels[s].context
    IN  /\ \A k \in Keys : <<s, k>> \in DOMAIN db.context =>
              IF k \in DOMAIN ctx THEN ctx[k].version >= db.context[<<s, k>>].version
              ELSE Cardinality(DOMAIN ctx) >= MAX_CONTEXT_KEYS
        /\ \A t \in tasks : t.kind = "context" /\ t.slug = s =>
              t.key \in DOMAIN ctx /\ ctx[t.key].version >= t.entry.version

\* A process that restored the mirror is ahead of it; a channel it asked for and
\* does not hold found no room.
Ahead ==
    /\ phase # "down" =>
          \A s \in SlugSet : Mirrored(s) =>
             s \in DOMAIN channels \cup unseen \/ Cardinality(DOMAIN channels) >= max_channels
    /\ \A s \in DOMAIN channels \ unseen : Numbered(s) /\ Versioned(s)

IInv ==
    /\ Shape /\ Memory /\ Keyed /\ InHand /\ Directory
    /\ (whole => Ahead) /\ WrittenIsThere

-----------------------------------------------------------------------------
(* Maps, histories and finite sets *)

\* What a map is, and what putting a key makes of it.
LEMMA MapFacts ==
    ASSUME NEW S, NEW T, NEW f
    PROVE  f \in Maps(S, T) <=> DOMAIN f \subseteq S /\ f \in [DOMAIN f -> T]
BY DEF Maps
\* The empty map is one of every kind.
LEMMA EmptyMap ==
    ASSUME NEW S, NEW T
    PROVE  << >> \in Maps(S, T) /\ DOMAIN << >> = {}
<1>1. << >> \in [{} -> T] /\ DOMAIN << >> = {}
  OBVIOUS
<1> QED BY <1>1, MapFacts
\* Put sets one key and leaves the others.
LEMMA PutFacts ==
    ASSUME NEW f, NEW k, NEW v
    PROVE  /\ DOMAIN Put(f, k, v) = DOMAIN f \cup {k}
           /\ Put(f, k, v)[k] = v
           /\ \A x \in DOMAIN f : x # k => Put(f, k, v)[x] = f[x]
BY DEF Put
\* Put keeps the kind of a map.
LEMMA PutMap ==
    ASSUME NEW S, NEW T, NEW f \in Maps(S, T), NEW k \in S, NEW v \in T
    PROVE  Put(f, k, v) \in Maps(S, T)
<1>1. DOMAIN f \subseteq S /\ f \in [DOMAIN f -> T]
  BY MapFacts
<1>2. Put(f, k, v) \in [DOMAIN f \cup {k} -> T]
  BY <1>1 DEF Put
<1> QED BY <1>1, <1>2 DEF Maps

\* The newest n of a sequence are a suffix of it, of at most n elements.
LEMMA NewestFacts ==
    ASSUME NEW S, NEW s \in Seq(S), NEW n \in Nat
    PROVE  /\ Newest(s, n) \in Seq(S)
           /\ Len(Newest(s, n)) <= n /\ Len(Newest(s, n)) <= Len(s)
           /\ Len(Newest(s, n)) = Len(s) \/ Len(Newest(s, n)) = n
           /\ \A i \in DOMAIN Newest(s, n) :
                 /\ (Len(s) - Len(Newest(s, n))) + i \in DOMAIN s
                 /\ Newest(s, n)[i] = s[(Len(s) - Len(Newest(s, n))) + i]
<1> DEFINE m == IF Len(s) > n THEN Len(s) - n + 1 ELSE 1
<1>1. Len(s) \in Nat /\ DOMAIN s = 1 .. Len(s) /\ m \in 1 .. Len(s) + 1
  BY LenProperties
<1>2. Newest(s, n) = SubSeq(s, m, Len(s))
  BY DEF Newest
<1>3. /\ SubSeq(s, m, Len(s)) \in Seq(S)
      /\ Len(SubSeq(s, m, Len(s))) = Len(s) - m + 1
      /\ \A i \in 1 .. Len(s) - m + 1 : SubSeq(s, m, Len(s))[i] = s[m + i - 1]
  <2> HIDE DEF m
  <2> QED BY <1>1, SubSeqProperties
<1>4. Len(s) - m + 1 <= n /\ Len(s) - m + 1 <= Len(s) /\ (Len(s) - m + 1 = Len(s) \/ Len(s) - m + 1 = n)
  BY <1>1
<1>5. \A i \in DOMAIN Newest(s, n) : (m - 1) + i \in DOMAIN s /\ Newest(s, n)[i] = s[(m - 1) + i]
  <2>1. DOMAIN Newest(s, n) = 1 .. Len(s) - m + 1
    BY <1>1, <1>2, <1>3, LenProperties
  <2> HIDE DEF m
  <2> QED BY <1>1, <1>2, <1>3, <2>1
<1> HIDE DEF m
<1>6. m - 1 = Len(s) - Len(Newest(s, n))
  BY <1>1, <1>2, <1>3
<1> QED BY <1>2, <1>3, <1>4, <1>5, <1>6

\* The smaller of two numbers.
LEMMA MinOfTwo ==
    ASSUME NEW a \in Nat, NEW b \in Nat
    PROVE  Min({a, b}) \in {a, b} /\ Min({a, b}) <= a /\ Min({a, b}) <= b
<1>1. \E x \in {a, b} : \A y \in {a, b} : x =< y
  OBVIOUS
<1> QED BY <1>1 DEF Min

\* A write that finds a permit is added, one that finds none is shed.
LEMMA Spawned ==
    ASSUME NEW w \in Task, spawn_persist(w), tasks \subseteq Task, IsFiniteSet(tasks),
           Cardinality(tasks) <= PERSIST_CONCURRENCY
    PROVE  /\ tasks' \subseteq tasks \cup {w} /\ tasks' \subseteq Task
           /\ IsFiniteSet(tasks') /\ Cardinality(tasks') <= PERSIST_CONCURRENCY
<1>1. Cardinality(tasks) \in Nat /\ PERSIST_CONCURRENCY \in Nat
  BY FS_CardinalityType, PersistenceAssumption
<1>2. /\ IsFiniteSet(tasks \cup {w})
      /\ Cardinality(tasks \cup {w}) = Cardinality(tasks)
         \/ Cardinality(tasks \cup {w}) = Cardinality(tasks) + 1
  BY FS_AddElement
<1>3. tasks' = tasks \/ (tasks' = tasks \cup {w} /\ Cardinality(tasks) < PERSIST_CONCURRENCY)
  BY DEF spawn_persist
<1>4. CASE tasks' = tasks
  BY <1>4
<1>5. CASE tasks' = tasks \cup {w} /\ Cardinality(tasks) < PERSIST_CONCURRENCY
  <2>1. Cardinality(tasks \cup {w}) <= PERSIST_CONCURRENCY
    BY <1>1, <1>2, <1>5
  <2> QED BY <1>2, <1>5, <2>1
<1> QED BY <1>3, <1>4, <1>5
-----------------------------------------------------------------------------
(* What a step leaves alone *)

\* A channel, its rows and its message writes in hand are as they were, or fewer.
LEMMA NumberedKept ==
    ASSUME NEW s, Numbered(s), channels'[s] = channels[s],
           \A r \in db'.messages : r.slug = s => r \in db.messages,
           \A t \in tasks' : t.kind = "message" /\ t.slug = s => t \in tasks
    PROVE  Numbered(s)'
BY DEF Numbered
\* The same of a channel's context.
LEMMA VersionedKept ==
    ASSUME NEW s, Versioned(s), channels'[s].context = channels[s].context,
           \A k \in Keys : <<s, k>> \in DOMAIN db'.context =>
               <<s, k>> \in DOMAIN db.context /\ db'.context[<<s, k>>] = db.context[<<s, k>>],
           \A t \in tasks' : t.kind = "context" /\ t.slug = s => t \in tasks
    PROVE  Versioned(s)'
BY DEF Versioned

\* More operations leave a channel in order.
LEMMA OrderlyKept ==
    ASSUME NEW ch, Orderly(ch), ops \in Nat, ops' \in {ops, ops + 1}
    PROVE  /\ ch.next_seq \in 1 .. ops' + 1
           /\ Len(ch.messages) <= history_limit /\ ch.message_count >= Len(ch.messages)
           /\ \A i \in DOMAIN ch.messages :
                 /\ ch.messages[i].seq < ch.next_seq
                 /\ \A j \in 1 .. i - 1 : ch.messages[j].seq < ch.messages[i].seq
           /\ IsFiniteSet(DOMAIN ch.context)
BY DEF Orderly

\* Writes about no channel's content.
Aside(w) == w \in Task /\ w.kind \in {"agent", "member"}

\* A step that changes neither the channels nor the mirror, and spawns at most
\* such a write.
LEMMA QuietStep ==
    ASSUME IInv, Shape', UNCHANGED <<channels, db, whole, unseen, written, made>>,
           \A t \in tasks' : t \in tasks \/ Aside(t),
           ops' \in {ops, ops + 1}, phase # "down", phase' # "down"
    PROVE  IInv'
<1>1. ops \in Nat /\ ops' \in Nat
  BY PersistenceAssumption DEF IInv, Shape
<1>2. Memory'
  <2>1. ASSUME NEW s \in DOMAIN channels' PROVE Orderly(channels[s])'
    <3>1. Orderly(channels[s]) /\ channels'[s] = channels[s]
      BY DEF IInv, Memory
    <3> QED BY <1>1, <3>1, OrderlyKept DEF Orderly
  <2> QED BY <2>1 DEF Memory
<1>3. Keyed'
  BY <1>1 DEF IInv, Keyed
<1>4. InHand'
  BY <1>1 DEF IInv, InHand, Aside
<1>5. Directory'
  BY DEF IInv, Directory, DirectorySound, CreatedOnce, DirectoryBounded
<1>6. (whole => Ahead)' /\ WrittenIsThere'
  <2>1. WrittenIsThere'
    BY DEF IInv, WrittenIsThere
  <2>2. ASSUME whole, NEW s \in DOMAIN channels' \ unseen PROVE Numbered(s)' /\ Versioned(s)'
    <3>1. Numbered(s) /\ Versioned(s) /\ channels'[s] = channels[s]
      BY <2>2 DEF IInv, Ahead
    <3>2. Numbered(s)'
      BY <3>1, NumberedKept DEF Aside
    <3>3. Versioned(s)'
      BY <3>1, VersionedKept DEF Aside
    <3> QED BY <3>2, <3>3
  <2>3. whole => Ahead'
    BY <2>2 DEF IInv, Ahead, Mirrored, Rows
  <2> QED BY <2>1, <2>3
<1> QED BY <1>2, <1>3, <1>4, <1>5, <1>6 DEF IInv

\* Every operation counts, and there is a bound on them.
LEMMA AcceptedCounts ==
    ASSUME Shape, Accepted
    PROVE  /\ ops \in Nat /\ ops' = ops + 1 /\ ops' \in 0 .. MaxOps
           /\ phase # "down" /\ phase \in {"up", "draining", "flushed"}
BY PersistenceAssumption DEF Shape, Accepted, Serving

\* register_agent.
LEMMA RegisterAgentKeeps ==
    ASSUME IInv, NEW a \in Agents, register_agent(a)
    PROVE  IInv'
<1> DEFINE w == [kind |-> "agent", agent |-> a, op |-> ops]
<1>1. /\ Accepted /\ agents' = Put(agents, a, ops) /\ spawn_persist(w) /\ Shape
      /\ UNCHANGED <<phase, channels, calls, db, failures, boots, whole, unseen, written, made, cut>>
  BY DEF register_agent, IInv
<1>2. /\ ops \in Nat /\ ops' = ops + 1 /\ ops' \in 0 .. MaxOps /\ phase # "down"
  BY <1>1, AcceptedCounts
<1>3. w \in Task /\ Aside(w)
  BY <1>2 DEF Task, Aside
<1> HIDE DEF w
<1>4. /\ tasks' \subseteq tasks \cup {w} /\ tasks' \subseteq Task
      /\ IsFiniteSet(tasks') /\ Cardinality(tasks') <= PERSIST_CONCURRENCY
  BY <1>1, <1>3, Spawned DEF Shape
<1>5. agents' \in Maps(Agents, Nat)
  BY <1>1, <1>2, PutMap DEF Shape
<1>6. Shape'
  BY <1>1, <1>2, <1>4, <1>5 DEF Shape
<1> QED BY <1>1, <1>2, <1>3, <1>4, <1>6, QuietStep

\* A join or leave with its write.
LEMMA ChangeMemberKeeps ==
    ASSUME IInv, NEW s \in SlugSet, ChangeMember(s)
    PROVE  IInv'
<1> DEFINE w == [kind |-> "member", op |-> ops]
<1>1. /\ Accepted /\ spawn_persist(w) /\ Shape
      /\ UNCHANGED <<phase, channels, agents, made, calls, db, failures, boots, whole, unseen, written, cut>>
  BY DEF ChangeMember, IInv, memory
<1>2. /\ ops \in Nat /\ ops' = ops + 1 /\ ops' \in 0 .. MaxOps /\ phase # "down"
  BY <1>1, AcceptedCounts
<1>3. w \in Task /\ Aside(w)
  BY <1>2 DEF Task, Aside
<1> HIDE DEF w
<1>4. /\ tasks' \subseteq tasks \cup {w} /\ tasks' \subseteq Task
      /\ IsFiniteSet(tasks') /\ Cardinality(tasks') <= PERSIST_CONCURRENCY
  BY <1>1, <1>3, Spawned DEF Shape
<1>5. Shape'
  BY <1>1, <1>2, <1>4 DEF Shape
<1> QED BY <1>1, <1>2, <1>3, <1>4, <1>5, QuietStep

\* A write fails: only its permit comes back.
LEMMA FailKeeps ==
    ASSUME IInv, NEW t \in tasks, Fail(t)
    PROVE  IInv'
<1>1. /\ phase # "down" /\ tasks' = tasks \ {t} /\ Shape
      /\ UNCHANGED <<phase, channels, agents, made, calls, db, ops, boots, whole, unseen, written, cut>>
  BY DEF Fail, IInv, memory
<1>2. IsFiniteSet(tasks') /\ Cardinality(tasks') <= PERSIST_CONCURRENCY
  <2>1. IsFiniteSet(tasks') /\ Cardinality(tasks') <= Cardinality(tasks)
    BY <1>1, FS_Subset DEF Shape
  <2>2. Cardinality(tasks) \in Nat /\ Cardinality(tasks') \in Nat /\ PERSIST_CONCURRENCY \in Nat
    BY <1>1, <2>1, FS_CardinalityType, PersistenceAssumption DEF Shape
  <2> QED BY <1>1, <2>1, <2>2 DEF Shape
<1>3. Shape'
  BY <1>1, <1>2 DEF Shape
<1> QED BY <1>1, <1>3, QuietStep
\* The least-number principle, for a set of naturals.
LEMMA LeastNumber ==
    ASSUME NEW T, T \subseteq Nat, T # {}
    PROVE  \E x \in T : \A y \in T : x <= y
<1> DEFINE R == OpToRel(<, Nat)
<1>1. \A ss \in Nat \X Nat : ss \in R <=> ss[1] < ss[2]
  BY DEF OpToRel
<1>2. IsWellFoundedOn(R, Nat)
  BY NatLessThanWellFounded
<1> HIDE DEF R
<1>3. PICK x \in T : \A y \in T : <<y, x>> \notin R
  BY <1>2, WFMin
<1>4. ASSUME NEW y \in T PROVE x <= y
  <2>1. x \in Nat /\ y \in Nat /\ <<y, x>> \in Nat \X Nat
    BY <1>3
  <2>2. ~(y < x)
    BY <1>1, <1>3, <2>1
  <2> QED BY <2>1, <2>2
<1> QED BY <1>4

\* unique_slug returns one of the slugs while one is free.
LEMMA UniqueSlug ==
    ASSUME \E s \in SlugSet : s \notin DOMAIN channels
    PROVE  unique_slug \in SlugSet
<1> DEFINE free == {i \in DOMAIN Slugs : Slugs[i] \notin DOMAIN channels}
<1>1. SlugSet = {Slugs[i] : i \in DOMAIN Slugs} /\ DOMAIN Slugs = 1 .. Len(Slugs) /\ Len(Slugs) \in Nat
  BY PersistenceAssumption, LenProperties DEF SlugSet, ToSet
<1>2. free # {} /\ free \subseteq Nat
  BY <1>1
<1>3. unique_slug = Slugs[Min(free)]
  BY DEF unique_slug
<1>4. Min(free) \in free
  <2> HIDE DEF free
  <2>1. \E x \in free : \A y \in free : x =< y
    BY <1>2, LeastNumber
  <2> QED BY <2>1 DEF Min
<1> QED BY <1>1, <1>3, <1>4

\* A creator's check passes; it awaits the embedding.
LEMMA CallKeeps ==
    ASSUME IInv, NEW c \in Callers, NEW s \in SlugSet, Serving,
           calls' = [calls EXCEPT ![c] = [do |-> "insert", slug |-> s]],
           UNCHANGED <<phase, memory, mirror, ops, boots, whole, unseen, cut>>
    PROVE  IInv'
<1>1. /\ UNCHANGED <<phase, channels, agents, made, tasks, db, failures, written, ops, boots, whole, unseen, cut>>
      /\ Shape /\ phase # "down"
  BY DEF memory, mirror, IInv, Serving
<1>2. Shape'
  BY <1>1 DEF Shape, Call
<1> QED BY <1>1, <1>2, QuietStep

\* create_or_get_channel up to the embedding.
LEMMA CreateKeeps ==
    ASSUME IInv, NEW c \in Callers, NEW s \in SlugSet, create_or_get_channel(c, s)
    PROVE  IInv'
BY CallKeeps DEF create_or_get_channel

\* resolve_channel up to the embedding.
LEMMA ResolveKeeps ==
    ASSUME IInv, NEW c \in Callers, resolve_channel(c)
    PROVE  IInv'
<1>1. PICK s : s = unique_slug
  OBVIOUS
<1>2. s \in SlugSet
  BY <1>1, UniqueSlug DEF resolve_channel
<1> QED BY <1>1, <1>2, CallKeeps DEF resolve_channel

\* The signal and the flush change the phase alone.
LEMMA ShutdownKeeps ==
    ASSUME IInv, Shutdown \/ flush_persistence
    PROVE  IInv'
<1>1. /\ UNCHANGED <<channels, agents, made, calls, tasks, db, failures, written, ops, boots, whole, unseen, cut>>
      /\ Shape /\ phase # "down" /\ phase' \in {"draining", "flushed"}
  BY DEF memory, mirror, IInv, Shutdown, flush_persistence
<1>2. Shape'
  BY <1>1 DEF Shape
<1> QED BY <1>1, <1>2, QuietStep

\* The process ends and takes memory and unfinished writes with it.
LEMMA StopKeeps ==
    ASSUME IInv, Stop
    PROVE  IInv'
<1>1. /\ phase' = "down" /\ tasks' = {} /\ channels' = << >> /\ agents' = << >> /\ made' = {}
      /\ calls' = [c \in Callers |-> Idle] /\ UNCHANGED <<db, ops, failures, boots, whole, unseen, written>>
      /\ Shape
  BY DEF Stop, IInv
<1>2. /\ DOMAIN channels' = {} /\ channels' \in Maps(SlugSet, Channel) /\ agents' \in Maps(Agents, Nat)
  BY <1>1, EmptyMap
<1>3. IsFiniteSet({}) /\ Cardinality({}) = 0
  BY FS_EmptySet
<1>4. Shape'
  BY <1>1, <1>2, <1>3, PersistenceAssumption DEF Shape, Call
<1>5. Memory' /\ Keyed' /\ InHand'
  BY <1>1, <1>2 DEF Memory, Keyed, InHand, IInv
<1>6. Directory'
  BY <1>1, <1>2, <1>3, PersistenceAssumption DEF Directory, DirectorySound, CreatedOnce, DirectoryBounded
<1>7. Ahead' /\ WrittenIsThere'
  BY <1>1, <1>2 DEF IInv, Ahead, WrittenIsThere
<1> QED BY <1>4, <1>5, <1>6, <1>7 DEF IInv
-----------------------------------------------------------------------------
(* Changes of a channel in memory *)

\* The directory is a finite part of the slugs.
LEMMA SlugsFinite ==
    IsFiniteSet(SlugSet) /\ \A D \in SUBSET SlugSet : IsFiniteSet(D) /\ Cardinality(D) \in Nat
<1>1. SlugSet = {Slugs[i] : i \in DOMAIN Slugs} /\ DOMAIN Slugs = 1 .. Len(Slugs) /\ Len(Slugs) \in Nat
  BY PersistenceAssumption, LenProperties DEF SlugSet, ToSet
<1> DEFINE f == [i \in 1 .. Len(Slugs) |-> Slugs[i]]
<1>2. f \in Surjection(1 .. Len(Slugs), SlugSet)
  BY <1>1 DEF Surjection
<1>3. IsFiniteSet(1 .. Len(Slugs))
  BY <1>1, FS_Interval
<1>4. IsFiniteSet(SlugSet)
  BY <1>2, <1>3, FS_Surjection
<1> QED BY <1>4, FS_Subset, FS_CardinalityType

\* The channel s is new or replaced by ch; other channels are as they were.
LEMMA ChannelStep ==
    ASSUME IInv, Shape', NEW s, NEW w \in Task, UNCHANGED <<db, whole, unseen, written>>,
           ops \in Nat, ops' = ops + 1, phase # "down", phase' # "down",
           DOMAIN channels' = DOMAIN channels \cup {s},
           \A d \in DOMAIN channels : d # s => channels'[d] = channels[d],
           Orderly(channels[s])', Directory',
           tasks' \subseteq tasks \cup {w}, w.kind \in {"channel", "message", "context"}, w.slug = s,
           w.kind = "message" => w.seq \in 1 .. ops',
           whole /\ s \notin unseen => Numbered(s)' /\ Versioned(s)',
           s \notin DOMAIN channels => Cardinality(DOMAIN channels) < max_channels
    PROVE  IInv'
<1>1. Memory'
  <2>1. ASSUME NEW d \in DOMAIN channels', d # s PROVE Orderly(channels[d])'
    <3>1. Orderly(channels[d]) /\ channels'[d] = channels[d]
      BY <2>1 DEF IInv, Memory
    <3> QED BY <3>1, OrderlyKept DEF Orderly
  <2> QED BY <2>1 DEF Memory
<1>2. Keyed'
  BY DEF IInv, Keyed
<1>3. InHand'
  BY DEF IInv, InHand
<1>4. (whole => Ahead)' /\ WrittenIsThere'
  <2>1. WrittenIsThere'
    BY DEF IInv, WrittenIsThere
  <2>2. ASSUME whole, NEW d \in DOMAIN channels' \ unseen, d # s PROVE Numbered(d)' /\ Versioned(d)'
    <3>1. Numbered(d) /\ Versioned(d) /\ channels'[d] = channels[d]
      BY <2>2 DEF IInv, Ahead
    <3>2. \A t \in tasks' : t.kind \in {"message", "context"} /\ t.slug = d => t \in tasks
      BY <2>2
    <3>3. Numbered(d)'
      BY <3>1, <3>2, NumberedKept
    <3>4. Versioned(d)'
      BY <3>1, <3>2, VersionedKept
    <3> QED BY <3>3, <3>4
  <2>3. ASSUME whole, NEW d \in SlugSet, Mirrored(d)', d \notin DOMAIN channels' \cup unseen
        PROVE  Cardinality(DOMAIN channels') >= max_channels
    <3>1. Cardinality(DOMAIN channels) >= max_channels
      BY <2>3 DEF IInv, Ahead, Mirrored, Rows
    <3>2. DOMAIN channels \subseteq SlugSet
      BY MapFacts DEF IInv, Shape
    <3>3. Cardinality(DOMAIN channels) \in Nat /\ max_channels \in Nat
      BY <3>2, SlugsFinite, PersistenceAssumption
    <3>4. DOMAIN channels' = DOMAIN channels
      BY <3>1, <3>3
    <3> QED BY <3>1, <3>4
  <2>4. whole => Ahead'
    BY <2>2, <2>3 DEF Ahead
  <2> QED BY <2>1, <2>4
<1> QED BY <1>1, <1>2, <1>3, <1>4 DEF IInv

\* insert_channel under the directory lock, with the slug and the cap looked at again.
LEMMA InsertKeeps ==
    ASSUME IInv, NEW c \in Callers, insert_channel(c)
    PROVE  IInv'
<1>1. /\ Serving /\ calls[c].do = "insert" /\ ops < MaxOps /\ Shape
      /\ calls' = [calls EXCEPT ![c] = Idle] /\ ops' = ops + 1
      /\ UNCHANGED <<phase, agents, db, failures, boots, whole, unseen, written, cut>>
  BY DEF insert_channel, IInv
<1>2. ops \in Nat /\ ops' \in 0 .. MaxOps /\ phase # "down" /\ phase' # "down"
  BY <1>1, PersistenceAssumption DEF Shape, Serving
<1>3. PICK s : s = calls[c].slug
  OBVIOUS
<1>4. s \in SlugSet
  BY <1>1, <1>3 DEF Shape, Call, Idle
<1>5. calls' \in [Callers -> Call]
  BY <1>1 DEF Shape, Call
<1>6. CASE UNCHANGED <<channels, made, tasks>>
  <2>1. Shape'
    BY <1>1, <1>2, <1>5, <1>6 DEF Shape
  <2> QED BY <1>1, <1>2, <1>6, <2>1, QuietStep
<1>7. CASE /\ s \notin DOMAIN channels /\ Cardinality(DOMAIN channels) < max_channels
           /\ channels' = Put(channels, s, Fresh) /\ made' = made \cup {<<s, c>>}
           /\ spawn_persist([kind |-> "channel", slug |-> s, op |-> ops])
  <2> DEFINE w == [kind |-> "channel", slug |-> s, op |-> ops]
  <2>1. w \in Task /\ w.kind = "channel" /\ w.slug = s
    BY <1>2, <1>4 DEF Task
  <2> HIDE DEF w
  <2>2. /\ tasks' \subseteq tasks \cup {w} /\ tasks' \subseteq Task
        /\ IsFiniteSet(tasks') /\ Cardinality(tasks') <= PERSIST_CONCURRENCY
    BY <1>1, <1>7, <2>1, Spawned DEF Shape, w
  <2>3. /\ Fresh \in Channel /\ Fresh.next_seq = 1 /\ Fresh.message_count = 0 /\ Fresh.messages = <<>>
        /\ DOMAIN Fresh.context = {}
    BY EmptyMap DEF Fresh, Channel
  <2>4. /\ DOMAIN channels' = DOMAIN channels \cup {s} /\ channels'[s] = Fresh
        /\ \A d \in DOMAIN channels : d # s => channels'[d] = channels[d]
    <3>1. PICK f : f = Put(channels, s, Fresh)
      OBVIOUS
    <3>2. /\ DOMAIN f = DOMAIN channels \cup {s} /\ f[s] = Fresh
          /\ \A d \in DOMAIN channels : d # s => f[d] = channels[d]
      BY <3>1 DEF Put
    <3> QED BY <1>7, <3>1, <3>2
  <2>5. channels' \in Maps(SlugSet, Channel)
    BY <1>1, <1>4, <1>7, <2>3, PutMap DEF Shape
  <2>6. Shape'
    BY <1>1, <1>2, <1>5, <2>2, <2>5 DEF Shape
  <2>7. Orderly(channels[s])'
    <3>1. channels'[s] = Fresh /\ Len(Fresh.messages) = 0 /\ DOMAIN Fresh.messages = {}
      BY <2>3, <2>4
    <3>2. /\ Fresh.next_seq \in 1 .. ops' + 1 /\ 0 <= history_limit /\ Fresh.message_count >= 0
          /\ IsFiniteSet(DOMAIN Fresh.context)
      BY <1>1, <1>2, <2>3, FS_EmptySet, PersistenceAssumption
    <3> QED BY <3>1, <3>2 DEF Orderly
  <2>8. Directory'
    <3>1. /\ DOMAIN channels \subseteq SlugSet /\ IsFiniteSet(DOMAIN channels)
          /\ Cardinality(DOMAIN channels) \in Nat
      BY <1>1, MapFacts, SlugsFinite DEF Shape
    <3>2. Cardinality(DOMAIN channels') = Cardinality(DOMAIN channels) + 1
      BY <1>7, <2>4, <3>1, FS_AddElement
    <3>3. DirectoryBounded'
      BY <1>7, <3>1, <3>2, PersistenceAssumption DEF DirectoryBounded
    <3>4. \A p \in made : p[1] \in DOMAIN channels /\ p[1] # s
      BY <1>7 DEF IInv, Directory
    <3>5. \A p \in made' : p \in made \/ p = <<s, c>>
      BY <1>7
    <3>6. CreatedOnce'
      BY <3>4, <3>5 DEF IInv, Directory, DirectorySound, CreatedOnce
    <3>7. \A p \in made' : p[1] \in DOMAIN channels'
      BY <2>4, <3>4, <3>5
    <3> QED BY <3>3, <3>6, <3>7 DEF Directory, DirectorySound
  <2>9. ASSUME whole, s \notin unseen PROVE Numbered(s)' /\ Versioned(s)'
    <3>1. ~Mirrored(s)
      <4>1. DOMAIN channels \subseteq SlugSet /\ Cardinality(DOMAIN channels) \in Nat /\ max_channels \in Nat
        BY <1>1, MapFacts, SlugsFinite, PersistenceAssumption DEF Shape
      <4>2. ~(Cardinality(DOMAIN channels) >= max_channels)
        BY <1>7, <4>1
      <4> QED BY <1>2, <1>4, <1>7, <2>9, <4>2 DEF IInv, Ahead
    <3>2. (\A r \in db'.messages : r.slug # s) /\ (\A k \in Keys : <<s, k>> \notin DOMAIN db'.context)
      BY <1>1, <3>1 DEF Mirrored, Rows
    <3>3. \A t \in tasks' : t.kind \in {"message", "context"} => t.slug # s
      BY <1>7, <2>1, <2>2 DEF IInv, InHand
    <3>4. Numbered(s)'
      BY <2>3, <2>4, <3>2, <3>3 DEF Numbered
    <3>5. Versioned(s)'
      BY <3>2, <3>3 DEF Versioned
    <3> QED BY <3>4, <3>5
  <2> QED BY <1>1, <1>2, <1>7, <2>1, <2>2, <2>4, <2>6, <2>7, <2>8, <2>9, ChannelStep
<1> QED BY <1>3, <1>6, <1>7 DEF insert_channel
\* The newest messages with one more in sequence are in sequence, and each of
\* them is the new one or was there.
LEMMA HistoryExtends ==
    ASSUME NEW h \in Seq(Msg), NEW m \in Msg, NEW n \in Nat,
           \A i \in DOMAIN h : h[i].seq < m.seq /\ \A j \in 1 .. i - 1 : h[j].seq < h[i].seq
    PROVE  /\ Newest(Append(h, m), n) \in Seq(Msg)
           /\ Len(Newest(Append(h, m), n)) <= n /\ Len(Newest(Append(h, m), n)) <= Len(h) + 1
           /\ \A i \in DOMAIN Newest(Append(h, m), n) :
                 /\ \/ Newest(Append(h, m), n)[i] = m
                    \/ \E j \in DOMAIN h : Newest(Append(h, m), n)[i] = h[j]
                 /\ \A j \in 1 .. i - 1 :
                       Newest(Append(h, m), n)[j].seq < Newest(Append(h, m), n)[i].seq
<1> DEFINE a == Append(h, m)
           e == Newest(a, n)
<1>1. /\ Len(h) \in Nat /\ DOMAIN h = 1 .. Len(h) /\ a \in Seq(Msg) /\ Len(a) = Len(h) + 1
      /\ DOMAIN a = 1 .. Len(h) + 1 /\ a[Len(h) + 1] = m /\ \A i \in 1 .. Len(h) : a[i] = h[i]
  BY AppendProperties, LenProperties
<1> HIDE DEF a
<1>2. \A i \in DOMAIN a, j \in DOMAIN a : j < i => a[j].seq < a[i].seq
  <2>1. ASSUME NEW i \in DOMAIN a, NEW j \in DOMAIN a, j < i PROVE a[j].seq < a[i].seq
    <3>1. CASE i = Len(h) + 1
      BY <1>1, <2>1, <3>1
    <3>2. CASE i # Len(h) + 1
      BY <1>1, <2>1, <3>2
    <3> QED BY <3>1, <3>2
  <2> QED BY <2>1
<1>3. e \in Seq(Msg) /\ Len(e) <= n /\ Len(e) <= Len(a)
  BY <1>1, NewestFacts
<1> DEFINE d == Len(a) - Len(e)
<1>4. d \in Nat /\ \A i \in DOMAIN e : d + i \in DOMAIN a /\ e[i] = a[d + i]
  <2>1. Len(e) \in Nat
    BY <1>3, LenProperties
  <2> QED BY <1>1, <1>3, <2>1, NewestFacts
<1> HIDE DEF e, d
<1>5. DOMAIN e = 1 .. Len(e) /\ Len(e) \in Nat
  BY <1>3, LenProperties
<1>6. ASSUME NEW i \in DOMAIN e
      PROVE  e[i] = m \/ \E j \in DOMAIN h : e[i] = h[j]
  <2>1. d + i \in DOMAIN a /\ e[i] = a[d + i]
    BY <1>4
  <2>2. d + i = Len(h) + 1 \/ d + i \in DOMAIN h
    BY <1>1, <2>1
  <2> QED BY <1>1, <2>1, <2>2
<1>7. ASSUME NEW i \in DOMAIN e, NEW j \in 1 .. i - 1 PROVE e[j].seq < e[i].seq
  <2>1. j \in DOMAIN e /\ d + j < d + i
    BY <1>4, <1>5, <1>7
  <2> QED BY <1>2, <1>4, <2>1
<1> QED BY <1>1, <1>3, <1>6, <1>7 DEF e, a

\* post_message: the next number, in memory and in a write.
LEMMA PostKeeps ==
    ASSUME IInv, NEW s \in SlugSet, post_message(s)
    PROVE  IInv'
<1> DEFINE ch == channels[s]
           m == [seq |-> ch.next_seq, id |-> ops]
           h == Newest(Append(ch.messages, m), history_limit)
           n == [ch EXCEPT !.next_seq = ch.next_seq + 1, !.message_count = ch.message_count + 1,
                           !.messages = h]
           w == [kind |-> "message", slug |-> s, seq |-> m.seq, op |-> ops]
<1>1. /\ Accepted /\ s \in DOMAIN channels /\ Shape
      /\ channels' = [channels EXCEPT ![s] = n] /\ spawn_persist(w)
      /\ UNCHANGED <<phase, agents, calls, db, failures, boots, whole, unseen, written, made, cut>>
  BY DEF post_message, IInv
<1>2. /\ ops \in Nat /\ ops' = ops + 1 /\ ops' \in 0 .. MaxOps /\ phase # "down"
  BY <1>1, AcceptedCounts
<1>3. /\ channels \in [DOMAIN channels -> Channel] /\ DOMAIN channels \subseteq SlugSet
  BY <1>1, MapFacts DEF Shape
<1>4. ch \in Channel /\ Orderly(ch)
  BY <1>1, <1>3 DEF IInv, Memory
<1>5. /\ ch.next_seq \in 1 .. ops + 1 /\ ch.messages \in Seq(Msg) /\ ch.message_count \in Nat
      /\ Len(ch.messages) \in Nat /\ ch.message_count >= Len(ch.messages)
      /\ IsFiniteSet(DOMAIN ch.context)
      /\ \A i \in DOMAIN ch.messages :
            ch.messages[i].seq < ch.next_seq /\ \A j \in 1 .. i - 1 : ch.messages[j].seq < ch.messages[i].seq
  BY <1>4 DEF Channel, Orderly
<1>6. m \in Msg /\ m.seq = ch.next_seq /\ m.id = ops /\ history_limit \in Nat
  BY <1>2, <1>5, PersistenceAssumption DEF Msg
<1>7. /\ w \in Task /\ w.kind = "message" /\ w.slug = s /\ w.seq = ch.next_seq /\ w.op = ops
  BY <1>2, <1>5 DEF Task
<1> HIDE DEF m, w, ch
<1>8. /\ h \in Seq(Msg) /\ Len(h) <= history_limit /\ Len(h) <= Len(ch.messages) + 1
      /\ \A i \in DOMAIN h : /\ h[i] = m \/ \E j \in DOMAIN ch.messages : h[i] = ch.messages[j]
                             /\ \A j \in 1 .. i - 1 : h[j].seq < h[i].seq
  BY <1>5, <1>6, HistoryExtends
<1> HIDE DEF h
<1>9. /\ n \in Channel /\ n.next_seq = ch.next_seq + 1 /\ n.message_count = ch.message_count + 1
      /\ n.messages = h /\ n.context = ch.context
  <2>1. ch.next_seq + 1 \in Nat /\ ch.message_count + 1 \in Nat
    BY <1>2, <1>5
  <2> QED BY <1>4, <1>8, <2>1 DEF Channel
<1> HIDE DEF n
<1>10. /\ DOMAIN channels' = DOMAIN channels \cup {s} /\ channels'[s] = n
       /\ \A d \in DOMAIN channels : d # s => channels'[d] = channels[d]
       /\ channels' \in [DOMAIN channels -> Channel]
  BY <1>1, <1>3, <1>9
<1>11. channels' \in Maps(SlugSet, Channel)
  BY <1>3, <1>10 DEF Maps
<1>12. /\ tasks' \subseteq tasks \cup {w} /\ tasks' \subseteq Task
       /\ IsFiniteSet(tasks') /\ Cardinality(tasks') <= PERSIST_CONCURRENCY
  BY <1>1, <1>7, Spawned DEF Shape
<1>13. Shape'
  BY <1>1, <1>2, <1>11, <1>12 DEF Shape
<1>14. Orderly(channels[s])'
  <2>1. \A i \in DOMAIN h : h[i].seq < ch.next_seq + 1
    <3>1. \A j \in DOMAIN ch.messages : ch.messages[j].seq \in Nat
      <4>1. \A j \in DOMAIN ch.messages : ch.messages[j] \in Msg
        BY <1>5, ElementOfSeq, LenProperties
      <4> QED BY <4>1 DEF Msg
    <3> QED BY <1>5, <1>6, <1>8, <3>1
  <2>2. Len(h) \in Nat /\ n.message_count >= Len(h) /\ n.next_seq \in 1 .. ops' + 1
    BY <1>2, <1>5, <1>8, <1>9, LenProperties
  <2> QED BY <1>5, <1>8, <1>9, <1>10, <2>1, <2>2 DEF Orderly
<1>15. Directory'
  <2>1. DOMAIN channels' = DOMAIN channels
    BY <1>1, <1>10
  <2> QED BY <1>1, <2>1 DEF IInv, Directory, DirectorySound, CreatedOnce, DirectoryBounded
<1>16. ASSUME whole, s \notin unseen PROVE Numbered(s)' /\ Versioned(s)'
  <2>1. Numbered(s) /\ Versioned(s)
    BY <1>1, <1>16 DEF IInv, Ahead
  <2>2. \A r \in db.messages : r.slug = s => r.seq \in Nat /\ r.seq < ch.next_seq
    BY <1>1, <2>1 DEF Numbered, ch, Shape, Db, Row
  <2>3. \A t \in tasks : t.kind = "message" /\ t.slug = s => t.seq \in Nat /\ t.seq < ch.next_seq
    BY <1>1, <2>1 DEF Numbered, ch, IInv, InHand
  <2>4. ASSUME NEW r \in db.messages, r.slug = s
        PROVE  r.seq < ch.next_seq + 1 /\ \A i \in DOMAIN h : r.seq = h[i].seq => r.id = h[i].id
    <3>1. r.seq < ch.next_seq /\ r.seq \in Nat /\ r.seq # m.seq
      BY <1>5, <1>6, <2>2, <2>4
    <3>2. \A i \in DOMAIN ch.messages : r.seq = ch.messages[i].seq => r.id = ch.messages[i].id
      BY <2>1, <2>4 DEF Numbered, ch
    <3> QED BY <1>5, <1>8, <3>1, <3>2
  <2>5. ASSUME NEW t \in tasks', t.kind = "message", t.slug = s
        PROVE  /\ t.seq < ch.next_seq + 1
               /\ \A u \in tasks' : u.kind = "message" /\ u.slug = s /\ u.seq = t.seq => u.op = t.op
               /\ \A r \in db.messages : r.slug = s /\ r.seq = t.seq => r.id = t.op
               /\ \A i \in DOMAIN h : h[i].seq = t.seq => h[i].id = t.op
    <3>1. CASE t = w
      <4>1. \A i \in DOMAIN ch.messages : ch.messages[i].seq # t.seq
        BY <1>5, <1>7, <3>1
      <4>2. \A r \in db.messages : r.slug = s => r.seq # t.seq
        BY <1>5, <1>7, <2>2, <3>1
      <4>3. \A u \in tasks : u.kind = "message" /\ u.slug = s => u.seq # t.seq
        BY <1>5, <1>7, <2>3, <3>1
      <4> QED BY <1>5, <1>6, <1>7, <1>8, <1>12, <3>1, <4>1, <4>2, <4>3
    <3>2. CASE t # w
      <4>1. t \in tasks /\ t.seq \in Nat /\ t.seq < ch.next_seq
        BY <1>12, <2>3, <2>5, <3>2
      <4>2. t.seq # w.seq /\ t.seq # m.seq
        BY <1>5, <1>6, <1>7, <4>1
      <4>3. \A u \in tasks : u.kind = "message" /\ u.slug = s /\ u.seq = t.seq => u.op = t.op
        BY <2>1, <2>5, <4>1 DEF Numbered
      <4>4. \A r \in db.messages : r.slug = s /\ r.seq = t.seq => r.id = t.op
        BY <2>1, <2>5, <4>1 DEF Numbered
      <4>5. \A i \in DOMAIN ch.messages : ch.messages[i].seq = t.seq => ch.messages[i].id = t.op
        BY <2>1, <2>5, <4>1 DEF Numbered, ch
      <4>6. t.seq < ch.next_seq + 1
        BY <1>5, <4>1
      <4> QED BY <1>8, <1>12, <4>2, <4>3, <4>4, <4>5, <4>6
    <3> QED BY <3>1, <3>2
  <2>6. Numbered(s)'
    BY <1>1, <1>9, <1>10, <2>4, <2>5 DEF Numbered
  <2>7. Versioned(s)'
    BY <1>1, <1>7, <1>9, <1>10, <1>12, <2>1, VersionedKept DEF ch
  <2> QED BY <2>6, <2>7
<1>17. w.seq \in 1 .. ops'
  BY <1>2, <1>5, <1>7
<1> QED BY <1>1, <1>2, <1>7, <1>10, <1>12, <1>13, <1>14, <1>15, <1>16, <1>17, ChannelStep
\* set_context: the next version, in memory and in a write.
LEMMA SetContextKeeps ==
    ASSUME IInv, NEW s \in SlugSet, NEW k \in Keys, NEW internal, set_context(s, k, internal)
    PROVE  IInv'
<1> DEFINE ctx == channels[s].context
           v == IF k \in DOMAIN ctx THEN ctx[k].version + 1 ELSE 1
           e == [version |-> v, value |-> ops]
           p == Put(ctx, k, e)
           n == [channels[s] EXCEPT !.context = p]
           w == [kind |-> "context", slug |-> s, key |-> k, entry |-> e, op |-> ops]
<1>1. /\ Accepted /\ s \in DOMAIN channels /\ Shape
      /\ channels' = [channels EXCEPT ![s] = n] /\ spawn_persist(w)
      /\ k \in DOMAIN ctx \/ Cardinality(DOMAIN ctx) < MAX_CONTEXT_KEYS
      /\ UNCHANGED <<phase, agents, calls, db, failures, boots, whole, unseen, written, made, cut>>
  BY DEF set_context, IInv
<1>2. /\ ops \in Nat /\ ops' = ops + 1 /\ ops' \in 0 .. MaxOps /\ phase # "down"
  BY <1>1, AcceptedCounts
<1>3. /\ channels \in [DOMAIN channels -> Channel] /\ DOMAIN channels \subseteq SlugSet
  BY <1>1, MapFacts DEF Shape
<1>4. channels[s] \in Channel /\ Orderly(channels[s])
  BY <1>1, <1>3 DEF IInv, Memory
<1>5. /\ ctx \in Maps(Keys, Entry) /\ DOMAIN ctx \subseteq Keys /\ ctx \in [DOMAIN ctx -> Entry]
      /\ IsFiniteSet(DOMAIN ctx)
  BY <1>4, MapFacts DEF Channel, Orderly
<1>6. v \in Nat /\ (k \in DOMAIN ctx => ctx[k].version \in Nat /\ v = ctx[k].version + 1)
  BY <1>5 DEF Entry
<1> HIDE DEF v
<1>7. e \in Entry /\ e.version = v
  BY <1>2, <1>6 DEF Entry
<1> HIDE DEF e
<1>8. /\ w \in Task /\ w.kind = "context" /\ w.slug = s /\ w.key = k /\ w.entry = e
  BY <1>2, <1>7 DEF Task
<1>9. /\ DOMAIN p = DOMAIN ctx \cup {k} /\ p[k] = e
      /\ \A x \in DOMAIN ctx : x # k => p[x] = ctx[x]
  <2> HIDE DEF ctx
  <2> QED BY DEF Put
<1>10. p \in Maps(Keys, Entry) /\ IsFiniteSet(DOMAIN p)
  <2> HIDE DEF ctx
  <2>1. p \in Maps(Keys, Entry)
    BY <1>5, <1>7, PutMap
  <2>2. IsFiniteSet(DOMAIN p)
    BY <1>5, <1>9, FS_AddElement
  <2> QED BY <2>1, <2>2
<1> HIDE DEF p, w
<1>11. /\ n \in Channel /\ n.next_seq = channels[s].next_seq /\ n.message_count = channels[s].message_count
       /\ n.messages = channels[s].messages /\ n.context = p
  BY <1>4, <1>10 DEF Channel
<1> HIDE DEF n
<1>12. /\ DOMAIN channels' = DOMAIN channels \cup {s} /\ channels'[s] = n
       /\ \A d \in DOMAIN channels : d # s => channels'[d] = channels[d]
       /\ channels' \in [DOMAIN channels -> Channel]
  BY <1>1, <1>3, <1>11
<1>13. channels' \in Maps(SlugSet, Channel)
  BY <1>3, <1>12 DEF Maps
<1>14. /\ tasks' \subseteq tasks \cup {w} /\ tasks' \subseteq Task
       /\ IsFiniteSet(tasks') /\ Cardinality(tasks') <= PERSIST_CONCURRENCY
  BY <1>1, <1>8, Spawned DEF Shape
<1>15. Shape'
  BY <1>1, <1>2, <1>13, <1>14 DEF Shape
<1>16. Orderly(channels[s])'
  BY <1>2, <1>4, <1>10, <1>11, <1>12 DEF Orderly
<1>17. Directory'
  <2>1. DOMAIN channels' = DOMAIN channels
    BY <1>1, <1>12
  <2> QED BY <1>1, <2>1 DEF IInv, Directory, DirectorySound, CreatedOnce, DirectoryBounded
<1>18. ASSUME whole, s \notin unseen PROVE Numbered(s)' /\ Versioned(s)'
  <2>1. Numbered(s) /\ Versioned(s)
    BY <1>1, <1>18 DEF IInv, Ahead
  <2>2. Numbered(s)'
    <3>1. \A t \in tasks' : t.kind = "message" => t \in tasks
      BY <1>8, <1>14
    <3> QED BY <1>1, <1>11, <1>12, <2>1, <3>1 DEF Numbered
  <2>3. ASSUME NEW x \in Keys, <<s, x>> \in DOMAIN db.context
        PROVE  IF x \in DOMAIN p THEN p[x].version >= db.context[<<s, x>>].version
               ELSE Cardinality(DOMAIN p) >= MAX_CONTEXT_KEYS
    <3>1. IF x \in DOMAIN ctx THEN ctx[x].version >= db.context[<<s, x>>].version
          ELSE Cardinality(DOMAIN ctx) >= MAX_CONTEXT_KEYS
      BY <2>1, <2>3 DEF Versioned
    <3>2. Cardinality(DOMAIN ctx) \in Nat /\ MAX_CONTEXT_KEYS \in Nat
      BY <1>5, FS_CardinalityType, PersistenceAssumption
    <3>3. CASE x = k
      <4>1. k \in DOMAIN ctx
        BY <1>1, <3>1, <3>2, <3>3
      <4>2. db.context[<<s, x>>].version \in Nat
        <5>1. db.context \in Maps(SlugSet \X Keys, Entry)
          BY <1>1 DEF Shape, Db
        <5>2. db.context[<<s, x>>] \in Entry
          BY <2>3, <5>1, MapFacts
        <5> QED BY <5>2 DEF Entry
      <4> QED BY <1>6, <1>7, <1>9, <3>1, <3>3, <4>1, <4>2
    <3>4. CASE x # k /\ x \in DOMAIN ctx
      BY <1>9, <3>1, <3>4
    <3>5. CASE x # k /\ x \notin DOMAIN ctx
      <4>1. k \in DOMAIN ctx
        BY <1>1, <3>1, <3>2, <3>5
      <4>2. DOMAIN p = DOMAIN ctx
        BY <1>9, <4>1
      <4> QED BY <3>1, <3>5, <4>2
    <3> QED BY <3>3, <3>4, <3>5
  <2>4. ASSUME NEW t \in tasks', t.kind = "context", t.slug = s
        PROVE  t.key \in DOMAIN p /\ p[t.key].version >= t.entry.version
    <3>1. CASE t = w
      BY <1>6, <1>7, <1>8, <1>9, <3>1
    <3>2. CASE t # w
      <4>1. t \in tasks /\ t \in Task /\ t.key \in DOMAIN ctx /\ ctx[t.key].version >= t.entry.version
        BY <1>1, <1>14, <2>1, <2>4, <3>2 DEF Versioned
      <4>2. t.entry.version \in Nat
        BY <2>4, <4>1 DEF Task, Entry
      <4>3. CASE t.key = k
        BY <1>6, <1>7, <1>9, <4>1, <4>2, <4>3
      <4>4. CASE t.key # k
        BY <1>9, <4>1, <4>4
      <4> QED BY <4>3, <4>4
    <3> QED BY <3>1, <3>2
  <2>5. Versioned(s)'
    BY <1>1, <1>11, <1>12, <2>3, <2>4 DEF Versioned
  <2> QED BY <2>2, <2>5
<1> QED BY <1>1, <1>2, <1>8, <1>12, <1>14, <1>15, <1>16, <1>17, <1>18, ChannelStep
-----------------------------------------------------------------------------
(* The writes *)

\* A write that ran: memory is as it was, and the mirror is in order.
LEMMA WriteStep ==
    ASSUME IInv, NEW t \in tasks, phase # "down", tasks' = tasks \ {t},
           UNCHANGED <<phase, memory, calls, ops, failures, boots, whole, unseen, cut>>,
           db' \in Db, IsFiniteSet(db'.messages), IsFiniteSet(DOMAIN db'.context), Keyed',
           \A s \in SlugSet : Mirrored(s)' => Mirrored(s) \/ s \in DOMAIN channels,
           WrittenIsThere',
           whole => \A s \in DOMAIN channels \ unseen : Numbered(s)' /\ Versioned(s)'
    PROVE  IInv'
<1>1. UNCHANGED <<phase, channels, agents, made, calls, ops, failures, boots, whole, unseen, cut>> /\ Shape
  BY DEF memory, IInv
<1>2. IsFiniteSet(tasks') /\ Cardinality(tasks') <= PERSIST_CONCURRENCY
  <2>1. IsFiniteSet(tasks') /\ Cardinality(tasks') <= Cardinality(tasks)
    BY <1>1, FS_Subset DEF Shape
  <2>2. Cardinality(tasks) \in Nat /\ Cardinality(tasks') \in Nat /\ PERSIST_CONCURRENCY \in Nat
    BY <1>1, <2>1, FS_CardinalityType, PersistenceAssumption DEF Shape
  <2> QED BY <1>1, <2>1, <2>2 DEF Shape
<1>3. Shape'
  BY <1>1, <1>2 DEF Shape
<1>4. Memory'
  BY <1>1 DEF IInv, Memory, Orderly
<1>5. InHand' /\ Directory'
  BY <1>1 DEF IInv, InHand, Directory, DirectorySound, CreatedOnce, DirectoryBounded
<1>6. ASSUME whole PROVE Ahead'
  <2>1. \A s \in SlugSet : Mirrored(s)' =>
           s \in DOMAIN channels \cup unseen \/ Cardinality(DOMAIN channels) >= max_channels
    BY <1>6 DEF IInv, Ahead
  <2> QED BY <1>1, <1>6, <2>1 DEF Ahead
<1> QED BY <1>1, <1>3, <1>4, <1>5, <1>6 DEF IInv

\* insert_message: a row, unless the number has one.
LEMMA ApplyMessageKeeps ==
    ASSUME IInv, NEW t \in tasks, t.kind = "message", Apply(t)
    PROVE  IInv'
<1>1. /\ phase # "down" /\ tasks' = tasks \ {t} /\ db' = insert_message(t)
      /\ written' = IF whole /\ t.slug \notin unseen THEN written \cup {t.op} ELSE written
      /\ UNCHANGED <<phase, memory, calls, ops, failures, boots, whole, unseen, cut>>
      /\ UNCHANGED <<channels, ops, whole, unseen>> /\ Shape
  BY DEF Apply, IInv, memory
<1>2. /\ t \in Task /\ t.slug \in SlugSet /\ t.seq \in Nat /\ t.op \in Nat /\ t.seq \in 1 .. ops
      /\ t.slug \in DOMAIN channels
  <2>1. t \in Task /\ t.seq \in 1 .. ops /\ t.slug \in DOMAIN channels
    BY <1>1 DEF Shape, IInv, InHand
  <2> QED BY <2>1 DEF Task
<1> DEFINE r0 == [slug |-> t.slug, seq |-> t.seq, id |-> t.op]
           hit == \E r \in db.messages : r.slug = t.slug /\ r.seq = t.seq
<1>3. r0 \in Row /\ r0.slug = t.slug /\ r0.seq = t.seq /\ r0.id = t.op
  BY <1>2 DEF Row
<1> HIDE DEF r0
<1>4. db \in Db /\ IsFiniteSet(db.messages) /\ IsFiniteSet(DOMAIN db.context) /\ db.messages \subseteq Row
  BY <1>1 DEF Shape, Db
<1>5. /\ db' \in Db /\ db'.channels = db.channels /\ db'.context = db.context
      /\ hit => db'.messages = db.messages
      /\ ~hit => db'.messages = db.messages \cup {r0}
  <2>1. CASE hit
    BY <1>1, <1>4, <2>1 DEF insert_message
  <2>2. CASE ~hit
    <3>1. db' = [db EXCEPT !.messages = db.messages \cup {r0}]
      BY <1>1, <2>2 DEF insert_message, r0
    <3> QED BY <1>3, <1>4, <2>2, <3>1 DEF Db
  <2> QED BY <2>1, <2>2
<1>6. IsFiniteSet(db'.messages) /\ IsFiniteSet(DOMAIN db'.context)
  BY <1>4, <1>5, FS_AddElement
<1>7. Keyed'
  <2>1. \A r \in db'.messages : r \in db.messages \/ (r = r0 /\ ~hit)
    BY <1>5
  <2>2. \A r \in db'.messages : r.seq \in 1 .. ops'
    BY <1>1, <1>2, <1>3, <2>1 DEF IInv, Keyed
  <2>3. ASSUME NEW r \in db'.messages, NEW q \in db'.messages, r.slug = q.slug, r.seq = q.seq
        PROVE  r = q
    BY <1>3, <2>1, <2>3 DEF IInv, Keyed
  <2> QED BY <2>2, <2>3 DEF Keyed
<1>8. /\ \A s \in SlugSet : Mirrored(s)' => Mirrored(s) \/ s \in DOMAIN channels
      /\ WrittenIsThere'
      /\ whole => \A s \in DOMAIN channels \ unseen : Numbered(s)' /\ Versioned(s)'
  <2>2. ASSUME NEW s \in SlugSet, Mirrored(s)', s # t.slug PROVE Mirrored(s)
    <3>1. \A r \in db'.messages : r \in db.messages \/ r = r0
      BY <1>5
    <3> QED BY <1>3, <1>5, <2>2, <3>1 DEF Mirrored, Rows
  <2>3. whole /\ t.slug \notin unseen =>
           Numbered(t.slug) /\ \A r \in db.messages : r.slug = t.slug /\ r.seq = t.seq => r.id = t.op
    BY <1>2 DEF IInv, Ahead, Numbered
  <2>4. WrittenIsThere'
    <3>1. ASSUME NEW m \in written PROVE \E r \in db'.messages : r.id = m
      BY <1>5, <3>1 DEF IInv, WrittenIsThere
    <3>2. whole /\ t.slug \notin unseen => \E r \in db'.messages : r.id = t.op
      BY <1>3, <1>5, <2>3
    <3> QED BY <1>1, <3>1, <3>2 DEF WrittenIsThere
  <2>5. ASSUME whole, NEW s \in DOMAIN channels \ unseen PROVE Numbered(s)' /\ Versioned(s)'
    <3>1. Numbered(s) /\ Versioned(s)
      BY <2>5 DEF IInv, Ahead
    <3>2. Versioned(s)'
      BY <1>1, <1>5, <3>1, VersionedKept
    <3>3. CASE s # t.slug
      <4>1. \A r \in db'.messages : r.slug = s => r \in db.messages
        BY <1>3, <1>5, <3>3
      <4> QED BY <1>1, <3>1, <3>2, <4>1, NumberedKept
    <3>4. CASE s = t.slug
      <4>1. \A r \in db'.messages : r \in db.messages \/ r = r0
        BY <1>5
      <4>2. \A r \in db'.messages : r.slug = s => r.seq < channels[s].next_seq
        BY <1>3, <3>1, <3>4, <4>1 DEF Numbered
      <4>3. \A i \in DOMAIN channels[s].messages, r \in db'.messages :
              r.slug = s /\ r.seq = channels[s].messages[i].seq => r.id = channels[s].messages[i].id
        BY <1>3, <3>1, <3>4, <4>1 DEF Numbered
      <4>4. ASSUME NEW u \in tasks', u.kind = "message", u.slug = s
            PROVE  /\ u.seq < channels[s].next_seq
                   /\ \A x \in tasks' : x.kind = "message" /\ x.slug = s /\ x.seq = u.seq => x.op = u.op
                   /\ \A r \in db'.messages : r.slug = s /\ r.seq = u.seq => r.id = u.op
                   /\ \A i \in DOMAIN channels[s].messages :
                         channels[s].messages[i].seq = u.seq => channels[s].messages[i].id = u.op
        <5>1. u \in tasks
          BY <1>1
        <5>2. t.seq = u.seq => t.op = u.op
          BY <3>1, <3>4, <4>4, <5>1 DEF Numbered
        <5> QED BY <1>1, <1>3, <3>1, <3>4, <4>1, <4>4, <5>1, <5>2 DEF Numbered
      <4>5. Numbered(s)'
        BY <1>1, <4>2, <4>3, <4>4 DEF Numbered
      <4> QED BY <3>2, <4>5
    <3> QED BY <3>3, <3>4
  <2> QED BY <1>2, <2>2, <2>4, <2>5
<1> QED BY <1>1, <1>5, <1>6, <1>7, <1>8, WriteStep

\* save_context under the version guard of its SQL.
LEMMA ApplyContextKeeps ==
    ASSUME IInv, NEW t \in tasks, t.kind = "context", Apply(t)
    PROVE  IInv'
<1>1. /\ phase # "down" /\ tasks' = tasks \ {t} /\ db' = save_context(t)
      /\ written' = written
      /\ UNCHANGED <<phase, memory, calls, ops, failures, boots, whole, unseen, cut>>
      /\ UNCHANGED <<channels, ops, whole, unseen>> /\ Shape
  BY DEF Apply, IInv, memory
<1>2. t.slug \in SlugSet /\ t.key \in Keys /\ t.entry \in Entry /\ t.slug \in DOMAIN channels
  <2>1. t \in Task /\ t.slug \in DOMAIN channels
    BY <1>1 DEF Shape, IInv, InHand
  <2> QED BY <2>1 DEF Task
<1> DEFINE k == <<t.slug, t.key>>
           p == Put(db.context, k, t.entry)
<1>3. k \in SlugSet \X Keys
  BY <1>2
<1>4. /\ db \in Db /\ IsFiniteSet(db.messages) /\ IsFiniteSet(DOMAIN db.context)
      /\ db.context \in Maps(SlugSet \X Keys, Entry)
  BY <1>1 DEF Shape, Db
<1>5. db' = db \/ db' = [db EXCEPT !.context = p]
  BY <1>1 DEF save_context
<1>6. /\ DOMAIN p = DOMAIN db.context \cup {k} /\ p[k] = t.entry
      /\ \A x \in DOMAIN db.context : x # k => p[x] = db.context[x]
  <2> HIDE DEF k
  <2> QED BY DEF Put
<1>7. p \in Maps(SlugSet \X Keys, Entry) /\ IsFiniteSet(DOMAIN p)
  <2>1. p \in Maps(SlugSet \X Keys, Entry)
    <3> HIDE DEF k
    <3> QED BY <1>2, <1>3, <1>4, PutMap
  <2>2. IsFiniteSet(DOMAIN p)
    BY <1>4, <1>6, FS_AddElement
  <2> QED BY <2>1, <2>2
<1> HIDE DEF p, k
<1>8. /\ db' \in Db /\ db'.channels = db.channels /\ db'.messages = db.messages
      /\ db'.context = db.context \/ db'.context = p
  BY <1>4, <1>5, <1>7 DEF Db
<1>9. IsFiniteSet(db'.messages) /\ IsFiniteSet(DOMAIN db'.context)
  BY <1>4, <1>7, <1>8
<1>10. Keyed'
  BY <1>1, <1>8 DEF IInv, Keyed
<1>11. /\ \A s \in SlugSet : Mirrored(s)' => Mirrored(s) \/ s \in DOMAIN channels
       /\ WrittenIsThere'
       /\ whole => \A s \in DOMAIN channels \ unseen : Numbered(s)' /\ Versioned(s)'
  <2>1. k[1] = t.slug
    BY DEF k
  <2>2. WrittenIsThere'
    BY <1>1, <1>8 DEF IInv, WrittenIsThere
  <2>4. ASSUME NEW s \in SlugSet, Mirrored(s)', s # t.slug PROVE Mirrored(s)
    <3>1. \A x \in Keys : <<s, x>> # k
      BY <2>1, <2>4
    <3>2. \A x \in Keys : <<s, x>> \in DOMAIN db'.context => <<s, x>> \in DOMAIN db.context
      BY <1>6, <1>8, <3>1
    <3> QED BY <1>8, <2>4, <3>2 DEF Mirrored, Rows
  <2>3. ASSUME whole, NEW s \in DOMAIN channels \ unseen PROVE Numbered(s)' /\ Versioned(s)'
    <3>1. Numbered(s) /\ Versioned(s)
      BY <2>3 DEF IInv, Ahead
    <3>2. Numbered(s)'
      BY <1>1, <1>8, <3>1, NumberedKept
    <3>3. CASE s # t.slug
      <4>1. \A x \in Keys : <<s, x>> # k
        BY <2>1, <3>3
      <4>2. \A x \in Keys : <<s, x>> \in DOMAIN db'.context =>
               <<s, x>> \in DOMAIN db.context /\ db'.context[<<s, x>>] = db.context[<<s, x>>]
        BY <1>6, <1>8, <4>1
      <4> QED BY <1>1, <3>1, <3>2, <4>2, VersionedKept
    <3>4. CASE s = t.slug
      <4>1. t.key \in DOMAIN channels[s].context /\ channels[s].context[t.key].version >= t.entry.version
        BY <3>1, <3>4 DEF Versioned
      <4>2. ASSUME NEW x \in Keys, <<s, x>> \in DOMAIN db'.context
            PROVE  IF x \in DOMAIN channels[s].context
                   THEN channels[s].context[x].version >= db'.context[<<s, x>>].version
                   ELSE Cardinality(DOMAIN channels[s].context) >= MAX_CONTEXT_KEYS
        <5>1. CASE x = t.key /\ db'.context = p
          <6>1. <<s, x>> = k
            BY <3>4, <5>1 DEF k
          <6> QED BY <1>6, <4>1, <5>1, <6>1
        <5>2. CASE ~(x = t.key /\ db'.context = p)
          <6>1. x # t.key => <<s, x>> # k
            BY DEF k
          <6>2. <<s, x>> \in DOMAIN db.context /\ db'.context[<<s, x>>] = db.context[<<s, x>>]
            BY <1>6, <1>8, <4>2, <5>2, <6>1
          <6> QED BY <3>1, <6>2 DEF Versioned
        <5> QED BY <5>1, <5>2
      <4>3. \A u \in tasks' : u \in tasks
        BY <1>1
      <4>4. Versioned(s)'
        BY <1>1, <3>1, <4>2, <4>3 DEF Versioned
      <4> QED BY <3>2, <4>4
    <3> QED BY <3>3, <3>4
  <2> QED BY <1>2, <2>2, <2>3, <2>4
<1> QED BY <1>1, <1>8, <1>9, <1>10, <1>11, WriteStep

\* The other writes touch neither messages nor context.
LEMMA ApplyOtherKeeps ==
    ASSUME IInv, NEW t \in tasks, t.kind \in {"agent", "channel", "member"}, Apply(t)
    PROVE  IInv'
<1>1. /\ phase # "down" /\ tasks' = tasks \ {t} /\ written' = written
      /\ UNCHANGED <<phase, memory, calls, ops, failures, boots, whole, unseen, cut>>
      /\ UNCHANGED <<channels, ops, whole, unseen>> /\ Shape
      /\ t.kind = "agent" => db' = upsert_agent(t)
      /\ t.kind = "channel" => db' = upsert_channel(t)
      /\ t.kind = "member" => db' = db
  BY DEF Apply, IInv, memory
<1>2. t \in Task /\ (t.kind = "channel" => t.slug \in DOMAIN channels)
  BY <1>1 DEF Shape, IInv, InHand
<1>3. db \in Db /\ IsFiniteSet(db.messages) /\ IsFiniteSet(DOMAIN db.context) /\ DOMAIN channels \subseteq SlugSet
  BY <1>1, MapFacts DEF Shape
<1>4. /\ db' \in Db /\ db'.messages = db.messages /\ db'.context = db.context
  <2>1. CASE t.kind = "agent"
    <3>1. t.agent \in Agents /\ t.op \in Nat
      BY <1>2, <2>1 DEF Task
    <3>2. PICK p : p = Put(db.agents, t.agent, t.op)
      OBVIOUS
    <3>3. db.agents \in Maps(Agents, Nat)
      BY <1>3 DEF Db
    <3>4. p \in Maps(Agents, Nat)
      BY <3>1, <3>2, <3>3, PutMap
    <3>5. db' = [db EXCEPT !.agents = p]
      BY <1>1, <2>1, <3>2 DEF upsert_agent
    <3> QED BY <1>3, <3>4, <3>5 DEF Db
  <2>2. CASE t.kind = "channel"
    BY <1>1, <1>2, <1>3, <2>2 DEF upsert_channel, Db
  <2>3. CASE t.kind = "member"
    BY <1>1, <1>3, <2>3
  <2> QED BY <2>1, <2>2, <2>3
<1>5. Keyed'
  BY <1>1, <1>4 DEF IInv, Keyed
<1>6. /\ \A s \in SlugSet : Mirrored(s)' => Mirrored(s)
      /\ WrittenIsThere'
      /\ whole => \A s \in DOMAIN channels \ unseen : Numbered(s)' /\ Versioned(s)'
  <2>1. WrittenIsThere' /\ \A s \in SlugSet : Mirrored(s)' => Mirrored(s)
    BY <1>1, <1>4 DEF IInv, WrittenIsThere, Mirrored, Rows
  <2>2. ASSUME whole, NEW s \in DOMAIN channels \ unseen PROVE Numbered(s)' /\ Versioned(s)'
    <3>1. Numbered(s) /\ Versioned(s)
      BY <2>2 DEF IInv, Ahead
    <3> QED BY <1>1, <1>4, <3>1, NumberedKept, VersionedKept
  <2> QED BY <2>1, <2>2
<1> QED BY <1>1, <1>3, <1>4, <1>5, <1>6, WriteStep

\* A status that is set is looked at by the next restore only.
LEMMA SetStatusKeeps ==
    ASSUME IInv, NEW s \in SlugSet, SetStatus(s)
    PROVE  IInv'
<1>1. /\ UNCHANGED <<phase, channels, agents, made, calls, tasks, ops, failures, boots, whole, unseen, written, cut>>
      /\ Shape
  BY DEF SetStatus, memory, IInv
<1>2. PICK a : a \subseteq SlugSet /\ db' = [db EXCEPT !.archived = a]
  BY <1>1 DEF SetStatus, Shape, Db
<1>3. db' \in Db /\ db'.messages = db.messages /\ db'.context = db.context
  BY <1>1, <1>2 DEF Shape, Db
<1>4. Shape'
  BY <1>1, <1>3 DEF Shape
<1>5. Memory' /\ Keyed' /\ InHand'
  BY <1>1, <1>3 DEF IInv, Memory, Orderly, Keyed, InHand
<1>6. Directory' /\ WrittenIsThere'
  BY <1>1, <1>3 DEF IInv, Directory, DirectorySound, CreatedOnce, DirectoryBounded, WrittenIsThere
<1>7. ASSUME whole PROVE Ahead'
  <2>1. \A d \in DOMAIN channels \ unseen : Numbered(d)' /\ Versioned(d)'
    BY <1>1, <1>3, <1>7, NumberedKept, VersionedKept DEF IInv, Ahead
  <2>2. \A d \in SlugSet : Mirrored(d)' => Mirrored(d)
    BY <1>3 DEF Mirrored, Rows
  <2> QED BY <1>1, <1>7, <2>1, <2>2 DEF IInv, Ahead
<1> QED BY <1>1, <1>4, <1>5, <1>6, <1>7 DEF IInv
-----------------------------------------------------------------------------
(* Restoring *)

\* The rows of R from number n on.
From(R, n) == {q \in R : q.seq >= n}

\* Rows with different numbers: for every k up to their number there is one with
\* k of them from it on, and the fewer there are the higher its number.
LEMMA RowRanks ==
    ASSUME NEW R, IsFiniteSet(R), NEW N \in Nat, \A r \in R : r.seq \in 1 .. N,
           \A r, q \in R : r.seq = q.seq => r = q
    PROVE  /\ \A k \in 1 .. Cardinality(R) : \E r \in R : Cardinality(From(R, r.seq)) = k
           /\ \A r, q \in R : Cardinality(From(R, q.seq)) < Cardinality(From(R, r.seq)) => r.seq < q.seq
<1>1. \A n : From(R, n) \subseteq R /\ IsFiniteSet(From(R, n)) /\ Cardinality(From(R, n)) \in Nat
  BY FS_Subset, FS_CardinalityType DEF From
<1>2. ASSUME NEW k \in 1 .. Cardinality(R)
      PROVE  \E r \in R : Cardinality(From(R, r.seq)) = k
  <2> DEFINE Z == {n \in 0 .. N : Cardinality(From(R, N + 1 - n)) >= k}
  <2>0. Cardinality(R) \in Nat /\ k \in Nat /\ k > 0
    BY FS_CardinalityType
  <2>1. From(R, 1) = R /\ N + 1 - N = 1
    BY DEF From
  <2>2. N \in Z
    BY <2>0, <2>1
  <2>3. PICK x \in Z : \A y \in Z : x <= y
    <3>0. 0 .. N \subseteq Nat
      OBVIOUS
    <3>1. Z \subseteq Nat /\ Z # {}
      BY <2>2, <3>0, Zenon
    <3> HIDE DEF Z
    <3> QED BY <3>1, LeastNumber
  <2>4. From(R, N + 1) = {} /\ N + 1 - 0 = N + 1
    <3>1. \A r \in R : ~(r.seq >= N + 1)
      OBVIOUS
    <3> QED BY <3>1 DEF From
  <2>5. x # 0 /\ x \in 1 .. N
    <3>1. Cardinality(From(R, N + 1)) = 0
      BY <2>4, FS_EmptySet
    <3>2. x # 0
      BY <2>0, <2>3, <2>4, <3>1
    <3> QED BY <2>3, <3>2
  <2>6. PICK y \in 1 .. N : y = N + 1 - x
    BY <2>5
  <2>7. Cardinality(From(R, y)) >= k /\ Cardinality(From(R, y + 1)) < k
    <3>1. x - 1 \in 0 .. N /\ x - 1 \notin Z /\ N + 1 - (x - 1) = y + 1
      BY <2>3, <2>5, <2>6
    <3> QED BY <1>1, <2>0, <2>3, <2>6, <3>1
  <2>8. \E r \in R : r.seq = y
    <3>1. SUFFICES ASSUME \A r \in R : r.seq # y PROVE FALSE
      OBVIOUS
    <3>2. From(R, y) = From(R, y + 1)
      <4>1. \A r \in R : r.seq >= y <=> r.seq >= y + 1
        BY <3>1
      <4> QED BY <4>1 DEF From
    <3> QED BY <1>1, <2>0, <2>7, <3>2
  <2>9. PICK r \in R : r.seq = y
    BY <2>8
  <2>10. Cardinality(From(R, y)) = Cardinality(From(R, y + 1)) + 1
    <3>1. From(R, y) = From(R, y + 1) \cup {r} /\ r \notin From(R, y + 1)
      <4>1. (\A q \in R : q.seq >= y <=> q.seq >= y + 1 \/ q = r) /\ ~(r.seq >= y + 1)
        BY <2>9
      <4> QED BY <4>1 DEF From
    <3> QED BY <1>1, <3>1, FS_AddElement
  <2>11. Cardinality(From(R, y)) = k
    BY <1>1, <2>0, <2>7, <2>10
  <2> QED BY <2>9, <2>11
<1>3. ASSUME NEW r \in R, NEW q \in R, Cardinality(From(R, q.seq)) < Cardinality(From(R, r.seq))
      PROVE  r.seq < q.seq
  <2>1. SUFFICES ASSUME q.seq <= r.seq PROVE FALSE
    OBVIOUS
  <2>2. From(R, r.seq) \subseteq From(R, q.seq)
    <3>1. \A x \in R : x.seq >= r.seq => x.seq >= q.seq
      BY <2>1
    <3> QED BY <3>1 DEF From
  <2>3. Cardinality(From(R, r.seq)) <= Cardinality(From(R, q.seq))
    BY <1>1, <2>2, FS_Subset
  <2> QED BY <1>1, <1>3, <2>3
<1> QED BY <1>2, <1>3

\* The window that a restore reads: rows of the channel, in sequence, no more than
\* the limit.
LEMMA WindowFacts ==
    ASSUME Shape, Keyed, NEW s \in SlugSet
    PROVE  /\ Window(s) \in Seq(Msg)
           /\ Len(Window(s)) <= history_limit /\ Len(Window(s)) <= Cardinality(Rows(s))
           /\ Cardinality(Rows(s)) \in Nat
           /\ \A i \in DOMAIN Window(s) :
                 /\ \E r \in Rows(s) : Window(s)[i].seq = r.seq /\ Window(s)[i].id = r.id
                 /\ \A j \in 1 .. i - 1 : Window(s)[j].seq < Window(s)[i].seq
<1> DEFINE R == Rows(s)
           kept == Min({history_limit, Cardinality(R)})
           at(i) == CHOOSE r \in R : retained_rank(r) = kept + 1 - i
<1>1. /\ IsFiniteSet(R) /\ R \subseteq db.messages /\ \A r \in R : r.slug = s /\ r.seq \in 1 .. ops /\ r.id \in Nat
  <2>1. R \subseteq db.messages /\ db.messages \subseteq Row /\ \A r \in R : r.slug = s
    BY DEF Rows, Shape, Db
  <2>2. IsFiniteSet(R)
    BY <2>1, FS_Subset DEF Shape
  <2> QED BY <2>1, <2>2 DEF Keyed, Row
<1>2. \A r, q \in R : r.seq = q.seq => r = q
  BY <1>1 DEF Keyed
<1>3. Cardinality(R) \in Nat /\ history_limit \in Nat /\ ops \in Nat
  BY <1>1, FS_CardinalityType, PersistenceAssumption DEF Shape
<1>4. kept \in Nat /\ kept <= history_limit /\ kept <= Cardinality(R)
  BY <1>3, MinOfTwo
<1>5. /\ \A k \in 1 .. Cardinality(R) : \E r \in R : Cardinality(From(R, r.seq)) = k
      /\ \A r, q \in R : Cardinality(From(R, q.seq)) < Cardinality(From(R, r.seq)) => r.seq < q.seq
  <2> HIDE DEF R
  <2> QED BY <1>1, <1>2, <1>3, RowRanks
<1>6. \A r \in R : retained_rank(r) = Cardinality(From(R, r.seq))
  BY <1>1 DEF retained_rank, From
<1>7. Window(s) = [i \in 1 .. kept |-> [seq |-> at(i).seq, id |-> at(i).id]]
  BY DEF Window
<1> HIDE DEF R, kept
<1>8. \A i \in 1 .. kept : at(i) \in R /\ Cardinality(From(R, at(i).seq)) = kept + 1 - i
  <2>1. ASSUME NEW i \in 1 .. kept PROVE \E r \in R : retained_rank(r) = kept + 1 - i
    <3>1. kept + 1 - i \in 1 .. Cardinality(R)
      BY <1>3, <1>4
    <3> QED BY <1>5, <1>6, <3>1
  <2>2. \A i \in 1 .. kept : at(i) \in R /\ retained_rank(at(i)) = kept + 1 - i
    BY <2>1
  <2> HIDE DEF at
  <2> QED BY <1>6, <2>2
<1> HIDE DEF at
<1>9. \A i, j \in 1 .. kept : j < i => at(j).seq < at(i).seq
  <2>1. ASSUME NEW i \in 1 .. kept, NEW j \in 1 .. kept, j < i PROVE at(j).seq < at(i).seq
    <3>1. Cardinality(From(R, at(i).seq)) < Cardinality(From(R, at(j).seq))
      BY <1>4, <1>8, <2>1
    <3> QED BY <1>5, <1>8, <3>1
  <2> QED BY <2>1
<1>10. \A i \in 1 .. kept : /\ [seq |-> at(i).seq, id |-> at(i).id] \in Msg
                            /\ Window(s)[i].seq = at(i).seq /\ Window(s)[i].id = at(i).id
  BY <1>1, <1>7, <1>8 DEF Msg
<1>11. Window(s) \in Seq(Msg) /\ Len(Window(s)) = kept /\ DOMAIN Window(s) = 1 .. kept
  BY <1>4, <1>7, <1>10, IsASeq
<1>12. \A i \in 1 .. kept : \E r \in R : Window(s)[i].seq = r.seq /\ Window(s)[i].id = r.id
  BY <1>8, <1>10
<1>13. \A i \in 1 .. kept : \A j \in 1 .. i - 1 : Window(s)[j].seq < Window(s)[i].seq
  <2>1. ASSUME NEW i \in 1 .. kept, NEW j \in 1 .. i - 1 PROVE Window(s)[j].seq < Window(s)[i].seq
    <3>1. j \in 1 .. kept /\ j < i
      BY <1>4
    <3> QED BY <1>9, <1>10, <3>1
  <2> QED BY <2>1
<1> QED BY <1>3, <1>4, <1>11, <1>12, <1>13 DEF R

\* The high water is a number given out, and no row of the channel is above it.
LEMMA MaxSeqFacts ==
    ASSUME Shape, Keyed, NEW s \in SlugSet
    PROVE  MaxSeq(s) \in 0 .. ops /\ \A r \in Rows(s) : r.seq <= MaxSeq(s)
<1> DEFINE T == {0} \cup {r.seq : r \in Rows(s)}
           U == {n \in Nat : \A y \in T : n >= y}
<1>1. ops \in Nat /\ T \subseteq 0 .. ops
  BY PersistenceAssumption DEF Shape, Keyed, Rows
<1>2. ops \in U
  BY <1>1
<1>3. PICK x \in U : \A y \in U : x <= y
  <2>1. U \subseteq Nat /\ U # {}
    BY <1>2
  <2> HIDE DEF U
  <2> QED BY <2>1, LeastNumber
<1> HIDE DEF T
<1>4. x \in T
  <2>1. SUFFICES ASSUME x \notin T PROVE FALSE
    OBVIOUS
  <2>2. 0 \in T
    BY DEF T
  <2>3. x - 1 \in U
    BY <1>1, <1>3, <2>1, <2>2
  <2> QED BY <1>3, <2>3
<1>5. \E z \in T : \A y \in T : z >= y
  BY <1>3, <1>4
<1>6. MaxSeq(s) = Max(T)
  BY DEF MaxSeq, T
<1>7. MaxSeq(s) \in T /\ \A y \in T : MaxSeq(s) >= y
  BY <1>5, <1>6 DEF Max
<1>8. \A r \in Rows(s) : r.seq \in T
  BY DEF T
<1> QED BY <1>1, <1>7, <1>8
\* A channel as load_state leaves it after the messages: above every row of it, its
\* history some of the rows.
LEMMA RestoredFacts ==
    ASSUME Shape, Keyed, NEW s \in SlugSet, NEW ctx \in Maps(Keys, Entry), IsFiniteSet(DOMAIN ctx),
           NEW ch, ch = [next_seq |-> MaxSeq(s) + 1, message_count |-> Cardinality(Rows(s)),
                         messages |-> Window(s), context |-> ctx]
    PROVE  /\ ch \in Channel /\ Orderly(ch) /\ ch.context = ctx
           /\ \A r \in Rows(s) : r.seq < ch.next_seq
           /\ \A i \in DOMAIN ch.messages :
                 \E r \in Rows(s) : ch.messages[i].seq = r.seq /\ ch.messages[i].id = r.id
<1>1. /\ Window(s) \in Seq(Msg)
      /\ Len(Window(s)) <= history_limit /\ Len(Window(s)) <= Cardinality(Rows(s))
      /\ Cardinality(Rows(s)) \in Nat
      /\ \A i \in DOMAIN Window(s) :
            /\ \E r \in Rows(s) : Window(s)[i].seq = r.seq /\ Window(s)[i].id = r.id
            /\ \A j \in 1 .. i - 1 : Window(s)[j].seq < Window(s)[i].seq
  BY WindowFacts
<1>2. MaxSeq(s) \in 0 .. ops /\ \A r \in Rows(s) : r.seq <= MaxSeq(s)
  BY MaxSeqFacts
<1>3. ops \in Nat /\ MaxSeq(s) \in Nat /\ MaxSeq(s) + 1 \in Nat /\ \A r \in Rows(s) : r.seq \in Nat
  BY <1>2, PersistenceAssumption DEF Shape, Keyed, Rows
<1>5. /\ ch \in Channel /\ ch.next_seq = MaxSeq(s) + 1 /\ ch.message_count = Cardinality(Rows(s))
      /\ ch.messages = Window(s) /\ ch.context = ctx
  BY <1>1, <1>3 DEF Channel
<1>6. \A r \in Rows(s) : r.seq < MaxSeq(s) + 1
  BY <1>2, <1>3
<1>7. \A i \in DOMAIN Window(s) : Window(s)[i].seq < MaxSeq(s) + 1
  BY <1>1, <1>6
<1>8. Len(Window(s)) \in Nat /\ MaxSeq(s) + 1 \in 1 .. ops + 1
  BY <1>1, <1>2, <1>3, LenProperties
<1>9. Orderly(ch)
  BY <1>1, <1>5, <1>7, <1>8 DEF Orderly
<1> QED BY <1>1, <1>5, <1>6, <1>9

\* Before the context is restored it is empty.
LEMMA RestoredEmpty ==
    /\ << >> \in Maps(Keys, Entry) /\ DOMAIN << >> = {} /\ IsFiniteSet({})
    /\ Fresh \in Channel /\ (ops \in Nat => Orderly(Fresh))
<1>1. << >> \in Maps(Keys, Entry) /\ DOMAIN << >> = {} /\ IsFiniteSet({})
  BY EmptyMap, FS_EmptySet
<1>2. /\ Fresh \in Channel /\ Fresh.next_seq = 1 /\ Fresh.message_count = 0 /\ Len(Fresh.messages) = 0
      /\ DOMAIN Fresh.messages = {} /\ DOMAIN Fresh.context = {}
  BY <1>1 DEF Fresh, Channel
<1>3. ops \in Nat => Orderly(Fresh)
  BY <1>1, <1>2, PersistenceAssumption DEF Orderly
<1> QED BY <1>1, <1>2, <1>3

\* A process that starts: no write is in hand, nothing was made yet.
LEMMA BootStep ==
    ASSUME IInv, Boot, agents' \in Maps(Agents, Nat), whole' \in BOOLEAN,
           NEW S, S \subseteq db.channels, Cardinality(S) <= max_channels, DOMAIN channels' = S,
           channels' \in [S -> Channel], \A s \in S : Orderly(channels[s])',
           whole' => Ahead'
    PROVE  IInv'
<1>1. /\ phase = "down" /\ phase' = "up" /\ Shape
      /\ UNCHANGED <<calls, tasks, db, failures, written, ops, made, cut>>
  BY DEF Boot, mirror, IInv
<1>2. tasks = {} /\ DOMAIN channels = {} /\ made = {}
  BY <1>1 DEF IInv, InHand, Directory
<1>3. S \subseteq SlugSet
  BY <1>1 DEF Shape, Db
<1>4. channels' \in Maps(SlugSet, Channel)
  BY <1>3 DEF Maps
<1>5. Shape'
  BY <1>1, <1>4 DEF Shape
<1>6. Memory' /\ Keyed' /\ InHand'
  BY <1>1, <1>2 DEF Memory, Keyed, InHand, IInv
<1>7. Directory'
  BY <1>1, <1>2 DEF Directory, DirectorySound, CreatedOnce, DirectoryBounded
<1>8. WrittenIsThere'
  BY <1>1 DEF IInv, WrittenIsThere
<1> QED BY <1>5, <1>6, <1>7, <1>8 DEF IInv

\* What load_channels and load_agents may return.
LEMMA Loaded ==
    ASSUME IInv
    PROVE  /\ \A A \in SUBSET DOMAIN db.agents : Restrict(db.agents, A) \in Maps(Agents, Nat)
           /\ \A S : load_channels(S) =>
                 /\ S \subseteq db.channels /\ S \subseteq SlugSet /\ Cardinality(S) <= max_channels
                 /\ S # Active => Cardinality(S) >= max_channels
<1>1. db.agents \in Maps(Agents, Nat) /\ Active \subseteq db.channels /\ Active \subseteq SlugSet
  BY DEF IInv, Shape, Db, Active
<1>2. ASSUME NEW A \in SUBSET DOMAIN db.agents PROVE Restrict(db.agents, A) \in Maps(Agents, Nat)
  <2>1. A \subseteq Agents /\ \A a \in A : db.agents[a] \in Nat
    BY <1>1, MapFacts
  <2>2. Restrict(db.agents, A) \in [A -> Nat]
    BY <2>1 DEF Restrict
  <2> QED BY <2>1, <2>2 DEF Maps
<1>3. ASSUME NEW S, load_channels(S)
      PROVE  /\ S \subseteq db.channels /\ S \subseteq SlugSet /\ Cardinality(S) <= max_channels
             /\ S # Active => Cardinality(S) >= max_channels
  <2>1. S \subseteq Active /\ Cardinality(S) = Min({max_channels, Cardinality(Active)})
    BY <1>3 DEF load_channels
  <2>2. IsFiniteSet(Active) /\ Cardinality(Active) \in Nat /\ max_channels \in Nat
    BY <1>1, SlugsFinite, PersistenceAssumption
  <2>3. Cardinality(S) \in {max_channels, Cardinality(Active)} /\ Cardinality(S) <= max_channels
    BY <2>1, <2>2, MinOfTwo
  <2>4. Cardinality(Active) = Cardinality(S) => Active = S
    BY <2>1, <2>2, FS_Subset
  <2> QED BY <1>1, <2>1, <2>2, <2>3, <2>4
<1> QED BY <1>2, <1>3

\* The keys a restore leaves behind found no room.
LEMMA RestoredKeys ==
    ASSUME IInv, NEW s \in SlugSet, NEW K, restore_context(s, K)
    PROVE  LET ctx == [k \in K |-> db.context[<<s, k>>]]
           IN  /\ ctx \in Maps(Keys, Entry) /\ IsFiniteSet(DOMAIN ctx) /\ DOMAIN ctx = K
               /\ \A k \in Keys : <<s, k>> \in DOMAIN db.context =>
                     IF k \in DOMAIN ctx THEN ctx[k].version >= db.context[<<s, k>>].version
                     ELSE Cardinality(DOMAIN ctx) >= MAX_CONTEXT_KEYS
<1> DEFINE stored == {k \in Keys : <<s, k>> \in DOMAIN db.context}
           ctx == [k \in K |-> db.context[<<s, k>>]]
<1>1. /\ K \subseteq stored /\ Cardinality(K) = Min({MAX_CONTEXT_KEYS, Cardinality(stored)})
  BY DEF restore_context
<1>2. /\ DOMAIN db.context \subseteq SlugSet \X Keys /\ db.context \in [DOMAIN db.context -> Entry]
      /\ IsFiniteSet(DOMAIN db.context)
  <2>1. db.context \in Maps(SlugSet \X Keys, Entry) /\ IsFiniteSet(DOMAIN db.context)
    BY DEF IInv, Shape, Db
  <2> QED BY <2>1, MapFacts
<1>3. IsFiniteSet(stored)
  <2> DEFINE P == {p \in DOMAIN db.context : p[1] = s}
             f == [p \in P |-> p[2]]
  <2>1. IsFiniteSet(P)
    BY <1>2, FS_Subset
  <2>2. \A p \in P : p[2] \in stored
    <3>1. ASSUME NEW p \in P PROVE p[2] \in stored
      <4>1. p \in SlugSet \X Keys /\ p[1] = s /\ p \in DOMAIN db.context
        BY <1>2
      <4>2. p[2] \in Keys /\ p = <<s, p[2]>>
        BY <4>1
      <4> QED BY <4>1, <4>2
    <3> QED BY <3>1
  <2>3. \A k \in stored : <<s, k>> \in P /\ f[<<s, k>>] = k
    OBVIOUS
  <2>4. f \in [P -> stored]
    BY <2>2
  <2> HIDE DEF P, stored, f
  <2>5. f \in Surjection(P, stored)
    BY <2>3, <2>4 DEF Surjection
  <2> QED BY <2>1, <2>5, FS_Surjection
<1>4. /\ IsFiniteSet(K) /\ Cardinality(K) \in Nat /\ Cardinality(stored) \in Nat /\ MAX_CONTEXT_KEYS \in Nat
      /\ Cardinality(stored) = Cardinality(K) => stored = K
  BY <1>1, <1>3, FS_Subset, FS_CardinalityType, PersistenceAssumption
<1>5. Cardinality(K) \in {MAX_CONTEXT_KEYS, Cardinality(stored)}
  BY <1>1, <1>4, MinOfTwo
<1>6. \A k \in stored : k \in K \/ Cardinality(K) >= MAX_CONTEXT_KEYS
  BY <1>4, <1>5
<1>7. \A k \in stored : db.context[<<s, k>>] \in Entry /\ db.context[<<s, k>>].version \in Nat
  BY <1>2 DEF Entry
<1>8. DOMAIN ctx = K /\ \A k \in K : ctx[k] = db.context[<<s, k>>]
  OBVIOUS
<1>9. ctx \in [K -> Entry] /\ K \subseteq Keys
  BY <1>1, <1>7
<1>10. ctx \in Maps(Keys, Entry)
  BY <1>9 DEF Maps
<1>11. ASSUME NEW k \in Keys, <<s, k>> \in DOMAIN db.context
       PROVE  IF k \in DOMAIN ctx THEN ctx[k].version >= db.context[<<s, k>>].version
              ELSE Cardinality(DOMAIN ctx) >= MAX_CONTEXT_KEYS
  <2>1. k \in stored
    BY <1>11
  <2> HIDE DEF stored, ctx
  <2> QED BY <1>6, <1>7, <1>8, <2>1
<1> QED BY <1>4, <1>8, <1>10, <1>11
\* load_state rebuilds memory ahead of the rows it found.
LEMMA LoadStateKeeps ==
    ASSUME IInv, load_state
    PROVE  IInv'
<1>1. /\ Boot /\ whole' = TRUE /\ unseen' = {s \in SlugSet : Mirrored(s) /\ s \notin Active}
      /\ phase = "down" /\ phase' = "up" /\ Shape /\ Keyed
      /\ UNCHANGED <<calls, tasks, db, failures, written, ops, made, cut>> /\ tasks = {}
  BY DEF load_state, Boot, mirror, IInv, InHand
<1>2. agents' \in Maps(Agents, Nat)
  BY Loaded DEF load_state
<1>3. PICK S \in SUBSET Active, K \in [SlugSet -> SUBSET Keys] :
          /\ load_channels(S) /\ \A s \in SlugSet : restore_context(s, K[s])
          /\ channels' = [s \in S |->
                [restore_messages(s) EXCEPT !.context = [k \in K[s] |-> db.context[<<s, k>>]]]]
  BY DEF load_state
<1>4. /\ S \subseteq db.channels /\ S \subseteq SlugSet /\ Cardinality(S) <= max_channels
      /\ S # Active => Cardinality(S) >= max_channels
  BY <1>3, Loaded
<1>5. DOMAIN channels' = S
  BY <1>3
<1>6. ASSUME NEW s \in S
      PROVE  /\ channels'[s] \in Channel /\ Orderly(channels[s])'
             /\ Numbered(s)' /\ Versioned(s)'
  <2> DEFINE ctx == [k \in K[s] |-> db.context[<<s, k>>]]
  <2>1. /\ ctx \in Maps(Keys, Entry) /\ IsFiniteSet(DOMAIN ctx)
        /\ \A k \in Keys : <<s, k>> \in DOMAIN db.context =>
              IF k \in DOMAIN ctx THEN ctx[k].version >= db.context[<<s, k>>].version
              ELSE Cardinality(DOMAIN ctx) >= MAX_CONTEXT_KEYS
    BY <1>3, <1>4, RestoredKeys
  <2>2. channels'[s] = [restore_messages(s) EXCEPT !.context = ctx]
    BY <1>3
  <2> HIDE DEF ctx
  <2>3. PICK ch : ch = channels'[s]
    OBVIOUS
  <2>4. ch = [next_seq |-> MaxSeq(s) + 1, message_count |-> Cardinality(Rows(s)),
              messages |-> Window(s), context |-> ctx]
    BY <2>2, <2>3 DEF restore_messages
  <2>5. /\ ch \in Channel /\ Orderly(ch) /\ ch.context = ctx
        /\ \A r \in Rows(s) : r.seq < ch.next_seq
        /\ \A i \in DOMAIN ch.messages :
              \E r \in Rows(s) : ch.messages[i].seq = r.seq /\ ch.messages[i].id = r.id
    BY <1>1, <1>4, <2>1, <2>4, RestoredFacts
  <2>6. Orderly(channels[s])'
    BY <1>1, <2>3, <2>5 DEF Orderly
  <2>7. Numbered(s)'
    <3>1. \A r \in db'.messages : r.slug = s => r.seq < channels'[s].next_seq
      BY <1>1, <2>3, <2>5 DEF Rows
    <3>2. ASSUME NEW i \in DOMAIN channels'[s].messages, NEW r \in db'.messages, r.slug = s,
                 r.seq = channels'[s].messages[i].seq
          PROVE  r.id = channels'[s].messages[i].id
      <4>1. PICK q \in Rows(s) : ch.messages[i].seq = q.seq /\ ch.messages[i].id = q.id
        BY <2>3, <2>5
      <4>2. q \in db.messages /\ q.slug = s /\ r \in db.messages
        BY <1>1, <4>1 DEF Rows
      <4>3. q = r
        BY <1>1, <2>3, <3>2, <4>1, <4>2 DEF Keyed
      <4> QED BY <2>3, <4>1, <4>3
    <3> QED BY <1>1, <3>1, <3>2 DEF Numbered
  <2>8. Versioned(s)'
    <3>1. channels'[s].context = ctx /\ tasks' = {} /\ db' = db
      BY <1>1, <2>3, <2>5
    <3> QED BY <2>1, <3>1 DEF Versioned
  <2> QED BY <2>3, <2>5, <2>6, <2>7, <2>8
<1>7. channels' \in [S -> Channel]
  BY <1>3, <1>6
<1>8. Ahead'
  <2>1. ASSUME NEW s \in SlugSet, Mirrored(s)', s \notin DOMAIN channels' \cup unseen'
        PROVE  Cardinality(DOMAIN channels') >= max_channels
    <3>1. Mirrored(s)
      BY <1>1, <2>1 DEF Mirrored, Rows
    <3>2. s \in Active
      BY <1>1, <2>1, <3>1
    <3> QED BY <1>4, <1>5, <2>1, <3>2
  <2> QED BY <1>5, <1>6, <2>1 DEF Ahead
<1> QED BY <1>1, <1>2, <1>4, <1>5, <1>6, <1>7, <1>8, BootStep

\* A restore that fails keeps what was loaded so far; the process is not whole any more.
LEMMA LoadStateFailsKeeps ==
    ASSUME IInv, LoadStateFails
    PROVE  IInv'
<1>1. /\ Boot /\ whole' = FALSE /\ Shape /\ Keyed /\ UNCHANGED <<ops, db>> /\ ops \in Nat
  BY PersistenceAssumption DEF LoadStateFails, Boot, mirror, IInv, Shape
<1>2. PICK after \in {"nothing", "agents", "channels", "messages"} :
          /\ IF after = "nothing" THEN agents' = << >>
             ELSE \E A \in SUBSET DOMAIN db.agents :
                     load_agents(A) /\ agents' = Restrict(db.agents, A)
          /\ IF after \in {"nothing", "agents"} THEN channels' = << >>
             ELSE \E S \in SUBSET Active :
                     /\ load_channels(S)
                     /\ channels' = [s \in S |->
                           IF after = "channels" THEN Fresh ELSE restore_messages(s)]
  BY DEF LoadStateFails
<1>3. agents' \in Maps(Agents, Nat)
  BY <1>2, Loaded, EmptyMap
<1>4. CASE after \in {"nothing", "agents"}
  <2>1. channels' = << >>
    BY <1>2, <1>4
  <2>2. DOMAIN channels' = {} /\ channels' \in [{} -> Channel]
    BY <2>1
  <2>3. Cardinality({}) <= max_channels
    BY FS_EmptySet, PersistenceAssumption
  <2> QED BY <1>1, <1>3, <2>2, <2>3, BootStep
<1>5. CASE after \notin {"nothing", "agents"}
  <2>1. PICK S \in SUBSET Active :
           /\ load_channels(S)
           /\ channels' = [s \in S |-> IF after = "channels" THEN Fresh ELSE restore_messages(s)]
    BY <1>2, <1>5
  <2>2. S \subseteq db.channels /\ S \subseteq SlugSet /\ Cardinality(S) <= max_channels
    BY <2>1, Loaded
  <2>3. ASSUME NEW s \in S PROVE channels'[s] \in Channel /\ Orderly(channels[s])'
    <3>1. PICK ch : ch = channels'[s]
      OBVIOUS
    <3>2. ch = Fresh \/ ch = restore_messages(s)
      BY <2>1, <3>1
    <3>3. CASE ch = Fresh
      <4>1. ch \in Channel /\ Orderly(ch)
        BY <1>1, <3>3, RestoredEmpty
      <4> QED BY <1>1, <3>1, <4>1 DEF Orderly
    <3>4. CASE ch = restore_messages(s)
      <4>1. ch = [next_seq |-> MaxSeq(s) + 1, message_count |-> Cardinality(Rows(s)),
                  messages |-> Window(s), context |-> << >>]
        BY <3>4 DEF restore_messages
      <4>2. ch \in Channel /\ Orderly(ch)
        BY <1>1, <2>2, <4>1, RestoredEmpty, RestoredFacts
      <4> QED BY <1>1, <3>1, <4>2 DEF Orderly
    <3> QED BY <3>2, <3>3, <3>4
  <2>4. DOMAIN channels' = S /\ channels' \in [S -> Channel]
    BY <2>1, <2>3
  <2> QED BY <1>1, <1>3, <2>2, <2>3, <2>4, BootStep
<1> QED BY <1>4, <1>5

-----------------------------------------------------------------------------
(* The theorems *)

\* The invariant holds before the first start.
LEMMA InitIInv == Init => IInv
<1> SUFFICES ASSUME Init PROVE IInv
  OBVIOUS
<1>1. /\ phase = "up" /\ channels = << >> /\ agents = << >> /\ made = {}
      /\ calls = [c \in Callers |-> Idle]
      /\ tasks = {} /\ written = {} /\ whole = TRUE /\ ops = 0
      /\ db = [agents |-> << >>, channels |-> {}, archived |-> {}, messages |-> {}, context |-> << >>]
  BY DEF Init
<1>2. DOMAIN channels = {} /\ channels \in Maps(SlugSet, Channel) /\ agents \in Maps(Agents, Nat)
  BY <1>1, EmptyMap
<1>3. /\ db.channels = {} /\ db.messages = {} /\ db.context = << >> /\ DOMAIN db.context = {}
  BY <1>1, EmptyMap
<1>4. db \in Db
  <2>1. << >> \in Maps(Agents, Nat) /\ << >> \in Maps(SlugSet \X Keys, Entry)
    BY EmptyMap
  <2> QED BY <1>1, <2>1 DEF Db
<1>5. IsFiniteSet({}) /\ Cardinality({}) = 0
  BY FS_EmptySet
<1>6. Shape
  BY <1>1, <1>2, <1>3, <1>4, <1>5, PersistenceAssumption DEF Shape, Call
<1>7. Memory /\ Keyed /\ InHand
  BY <1>1, <1>2, <1>3 DEF Memory, Keyed, InHand
<1>8. Directory
  BY <1>1, <1>2, <1>5, PersistenceAssumption DEF Directory, DirectorySound, CreatedOnce, DirectoryBounded
<1>9. Ahead /\ WrittenIsThere
  BY <1>1, <1>2, <1>3 DEF Ahead, WrittenIsThere, Mirrored, Rows
<1> QED BY <1>6, <1>7, <1>8, <1>9 DEF IInv

\* A write takes effect, of whichever kind it is.
LEMMA ApplyKeeps ==
    ASSUME IInv, NEW t \in tasks, Apply(t)
    PROVE  IInv'
<1>1. t.kind \in {"agent", "channel", "member", "message", "context"}
  BY DEF IInv, Shape, Task
<1> QED BY <1>1, ApplyMessageKeeps, ApplyContextKeeps, ApplyOtherKeeps

\* Every step keeps the invariant.
LEMMA NextIInv == IInv /\ [Next]_vars => IInv'
<1> SUFFICES ASSUME IInv, [Next]_vars PROVE IInv'
  OBVIOUS
<1>1. ASSUME NEW a \in Agents, register_agent(a) PROVE IInv'
  BY <1>1, RegisterAgentKeeps
<1>2. ASSUME NEW s \in SlugSet, ChangeMember(s) \/ post_message(s) \/ SetStatus(s) PROVE IInv'
  BY <1>2, ChangeMemberKeeps, PostKeeps, SetStatusKeeps
<1>3. ASSUME NEW s \in SlugSet, NEW k \in Keys, NEW internal \in BOOLEAN, set_context(s, k, internal)
      PROVE  IInv'
  BY <1>3, SetContextKeeps
<1>4. ASSUME NEW s \in SlugSet, NEW c \in Callers, create_or_get_channel(c, s) PROVE IInv'
  BY <1>4, CreateKeeps
<1>5. ASSUME NEW c \in Callers, resolve_channel(c) \/ insert_channel(c) PROVE IInv'
  BY <1>5, ResolveKeeps, InsertKeeps
<1>6. ASSUME NEW t \in tasks, Apply(t) \/ Fail(t) PROVE IInv'
  BY <1>6, ApplyKeeps, FailKeeps
<1>7. CASE Shutdown \/ flush_persistence
  BY <1>7, ShutdownKeeps
<1>8. CASE Stop \/ load_state \/ LoadStateFails
  BY <1>8, StopKeeps, LoadStateKeeps, LoadStateFailsKeeps
<1>9. CASE UNCHANGED vars
  <2>1. UNCHANGED <<phase, channels, agents, calls, tasks, db, ops, whole, unseen, written, made>>
    BY <1>9 DEF vars
  <2>2. Shape' /\ Memory' /\ Keyed' /\ InHand'
    BY <2>1 DEF IInv, Shape, Memory, Orderly, Keyed, InHand
  <2>3. Directory' /\ WrittenIsThere'
    BY <2>1 DEF IInv, Directory, DirectorySound, CreatedOnce, DirectoryBounded, WrittenIsThere
  <2>4. Ahead => Ahead'
    BY <2>1 DEF Ahead, Numbered, Versioned, Mirrored, Rows
  <2> QED BY <2>1, <2>2, <2>3, <2>4 DEF IInv
<1> QED BY <1>1, <1>2, <1>3, <1>4, <1>5, <1>6, <1>7, <1>8, <1>9 DEF Next

\* The invariant holds in every reachable state.
THEOREM Invariance == Spec => []IInv
BY InitIInv, NextIInv, PTL DEF Spec

\* The variables keep their types through writes, shutdown, crash and restore: the
\* writes in hand fit the permits, the histories their limit.
THEOREM TypeCorrect == Spec => []TypeOK
<1>1. IInv => TypeOK
  <2> SUFFICES ASSUME IInv PROVE TypeOK
    OBVIOUS
  <2>1. DOMAIN channels \subseteq SlugSet /\ DOMAIN agents \subseteq Agents
    BY MapFacts DEF IInv, Shape
  <2>2. db.channels \subseteq SlugSet /\ ops \in 0 .. MaxOps /\ MaxOps \in Nat
    BY PersistenceAssumption DEF IInv, Shape, Db
  <2>3. \A s \in DOMAIN channels :
           /\ channels[s].next_seq \in 1 .. (MaxOps + 1)
           /\ Len(channels[s].messages) <= history_limit
           /\ channels[s].message_count >= Len(channels[s].messages)
    BY <2>2 DEF IInv, Memory, Orderly
  <2> QED BY <2>1, <2>2, <2>3 DEF TypeOK, IInv, Shape
<1> QED BY <1>1, Invariance, PTL

\* state.rs, create_or_get_channel and resolve_channel: however many creators passed
\* their first look, one of them is told it made a slug, and the directory stays
\* within max_channels, after any restore too.
THEOREM DirectoryIsSound == Spec => []DirectorySound
<1>1. IInv => DirectorySound
  BY DEF IInv, Directory
<1> QED BY <1>1, Invariance, PTL

\* db.rs, insert_message, save_context and load_state: for every channel but those whose
\* rows load_state did not ask for (archived, or without a row of their own), memory
\* leads the mirror, a message reported as written is there, and a number is one
\* message's, for any order, loss and failure of the writes, any change of a status
\* and any crash and restore, whether or not the schema takes a null channel_id.
THEOREM MirrorIsConsistent == Spec => []MirrorConsistent
<1>1. IInv => MirrorConsistent
  <2> SUFFICES ASSUME IInv PROVE MirrorConsistent
    OBVIOUS
  <2>1. MemoryLeadsMirror
    BY DEF IInv, Ahead, Numbered, Versioned, MemoryLeadsMirror, Followed, Rows
  <2>2. OneMessagePerSeq
    <3>1. ASSUME NEW s \in Followed, NEW i \in DOMAIN channels[s].messages
          PROVE  /\ \A r \in Rows(s) : r.seq = channels[s].messages[i].seq => r.id = channels[s].messages[i].id
                 /\ \A j \in 1 .. (i - 1) : channels[s].messages[j].seq < channels[s].messages[i].seq
      <4>1. Numbered(s) /\ Orderly(channels[s])
        BY <3>1 DEF IInv, Ahead, Memory, Followed
      <4> QED BY <3>1, <4>1 DEF Numbered, Orderly, Rows
    <3> QED BY <3>1 DEF OneMessagePerSeq
  <2> QED BY <2>1, <2>2 DEF MirrorConsistent, IInv
<1> QED BY <1>1, Invariance, PTL

\* db.rs, save_context: the writes of one key run in any order, and no step replaces a
\* stored value by one that is not newer, or removes it.
THEOREM ContextAdvances == Spec => ContextNeverGoesBack
<1> DEFINE A == \A k \in DOMAIN db.context :
                   /\ k \in DOMAIN db'.context
                   /\ db'.context[k] # db.context[k] => db'.context[k].version > db.context[k].version
<1>1. IInv /\ [Next]_vars => [A]_vars
  <2> SUFFICES ASSUME IInv, Next PROVE A
    OBVIOUS
  <2>1. CASE db'.context = db.context
    BY <2>1
  <2>2. ASSUME NEW t \in tasks, t.kind = "context", db' = save_context(t) PROVE A
    <3>1. t \in Task /\ db \in Db /\ db.context \in Maps(SlugSet \X Keys, Entry)
      BY DEF IInv, Shape, Db
    <3>2. t.entry.version \in Nat /\ \A k \in DOMAIN db.context : db.context[k].version \in Nat
      <4>1. t.entry \in Entry
        BY <2>2, <3>1 DEF Task
      <4>2. \A k \in DOMAIN db.context : db.context[k] \in Entry
        BY <3>1, MapFacts
      <4> QED BY <4>1, <4>2 DEF Entry
    <3>3. PICK x : x = <<t.slug, t.key>>
      OBVIOUS
    <3>4. CASE x \in DOMAIN db.context /\ db.context[x].version >= t.entry.version
      BY <2>2, <3>3, <3>4 DEF save_context
    <3>5. CASE ~(x \in DOMAIN db.context /\ db.context[x].version >= t.entry.version)
      <4>1. PICK p : p = Put(db.context, x, t.entry)
        OBVIOUS
      <4>2. db' = [db EXCEPT !.context = p]
        BY <2>2, <3>3, <3>5, <4>1 DEF save_context
      <4>3. db'.context = p
        BY <3>1, <4>2 DEF Db
      <4>4. /\ DOMAIN p = DOMAIN db.context \cup {x} /\ p[x] = t.entry
            /\ \A y \in DOMAIN db.context : y # x => p[y] = db.context[y]
        BY <4>1 DEF Put
      <4> QED BY <3>2, <3>5, <4>3, <4>4
    <3> QED BY <3>4, <3>5
  <2>3. ASSUME NEW t \in tasks, Apply(t) PROVE A
    <3>1. db \in Db /\ t \in Task
      BY DEF IInv, Shape
    <3>2. CASE t.kind = "context"
      BY <2>2, <2>3, <3>2 DEF Apply
    <3>3. CASE t.kind = "message"
      BY <2>1, <2>3, <3>1, <3>3 DEF Apply, insert_message, Db
    <3>4. CASE t.kind \in {"agent", "channel", "member"}
      BY <2>1, <2>3, <3>1, <3>4 DEF Apply, upsert_agent, upsert_channel, Db
    <3> QED BY <3>1, <3>2, <3>3, <3>4 DEF Task
  <2>4. CASE db' = db
    BY <2>1, <2>4
  <2>5. ASSUME NEW s \in SlugSet, SetStatus(s) PROVE A
    <3>1. db'.context = db.context
      BY <2>5 DEF SetStatus, IInv, Shape, Db
    <3> QED BY <2>1, <3>1
  <2> QED BY <2>3, <2>4, <2>5 DEF Next, register_agent, ChangeMember, post_message, set_context,
            create_or_get_channel, resolve_channel, insert_channel, Fail, Shutdown,
            flush_persistence, Stop, load_state, LoadStateFails, Boot, mirror
<1>2. Spec => [][A]_vars
  BY <1>1, Invariance, PTL DEF Spec
<1> QED BY <1>2 DEF ContextNeverGoesBack
=============================================================================
