--------------------------- MODULE ChannelBusProofs ---------------------------
(***************************************************************************)
(* Proofs about ChannelBus and about who may use it (AccessControl), for    *)
(* every set of agents, posters and connections, every history and ring     *)
(* capacity and every bound.                                                *)
(*                                                                         *)
(* History: eviction stops at the first suffix within the limits, and one   *)
(* message always is, so what is kept is a non-empty run that ends with the *)
(* newest message. Streams: the events broadcast number the messages in     *)
(* order and without a gap, and a receiver's cursor cuts them in two: what  *)
(* lies before it was written, skipped with a notice or is no newer than    *)
(* the high-water mark, what lies behind it is newer than anything written. *)
(***************************************************************************)
EXTENDS ChannelBus, AccessControl, FiniteSetTheorems, SequenceTheorems,
        WellFoundedInduction, TLAPS

-----------------------------------------------------------------------------
(* The inductive invariant *)

Event == [type : {"message"}, seq : Nat, from : Agents]
         \cup [type : {"joined", "left"}, agent_key : Agents]
Frame == Event \cup [type : {"lagged"}, dropped : Int]
Conn == [phase : {"idle", "joined", "captured", "live", "closed"}, since : Nat, cursor : Nat,
         high_water : Nat, owed : SUBSET Nat, out : Seq(Frame)]
Parked == {NoPost} \cup [phase : {"seated"}, from : Agents, size : Sizes]

\* The variables hold what the handlers put there.
Shape ==
    /\ members \subseteq Agents
    /\ messages \in Seq(Message)
    /\ next_seq \in Nat \ {0}
    /\ sent \in Seq(Event)
    /\ post \in [Posters -> Parked]
    /\ conn \in [Conns -> Conn]

\* The seats, and what was announced of them.
Seats == IsFiniteSet(members) /\ MembershipSound

\* The events broadcast number the messages: each carries a number that was
\* given out, every number given out is there, and they ascend.
LogComplete ==
    /\ \A i \in DOMAIN sent : IsMessage(sent[i]) => sent[i].seq \in 1 .. next_seq - 1
    /\ \A i, j \in DOMAIN sent :
          i < j /\ IsMessage(sent[i]) /\ IsMessage(sent[j]) => sent[i].seq < sent[j].seq
    /\ \A s \in 1 .. next_seq - 1 : \E i \in DOMAIN sent : IsMessage(sent[i]) /\ sent[i].seq = s

\* A connection before its replay: the receiver was captured together with the
\* high-water mark, so its cursor cuts the log exactly at the mark.
Waits(c) ==
    /\ conn[c].phase # "live" => conn[c].out = <<>>
    /\ conn[c].phase \in {"captured", "live"} => conn[c].cursor \in 1 .. Len(sent) + 1
    /\ conn[c].phase = "captured" =>
          \A i \in DOMAIN sent : IsMessage(sent[i]) =>
              (i < conn[c].cursor <=> sent[i].seq <= conn[c].high_water)

Has(out, s) == \E j \in DOMAIN out : IsMessage(out[j]) /\ out[j].seq = s
HasNotice(out) == \E j \in DOMAIN out : out[j].type = "lagged"

\* A live connection: what is still to be read is newer than all it wrote, and
\* what was read after the mark was written, unless a notice says otherwise.
Streams(c) ==
    conn[c].phase = "live" =>
        /\ \A j \in DOMAIN conn[c].out, i \in conn[c].cursor .. Len(sent) :
              IsMessage(conn[c].out[j]) /\ IsMessage(sent[i]) => conn[c].out[j].seq < sent[i].seq
        /\ \A i \in 1 .. conn[c].cursor - 1 :
              IsMessage(sent[i]) /\ sent[i].seq > conn[c].high_water =>
                  Has(conn[c].out, sent[i].seq) \/ HasNotice(conn[c].out)

\* Nothing a connection holds is from the future.
Marks ==
    \A c \in Conns :
        /\ conn[c].cursor <= Len(sent) + 1 /\ conn[c].high_water < next_seq
        /\ \A j \in DOMAIN conn[c].out : IsMessage(conn[c].out[j]) => conn[c].out[j].seq < next_seq

IInv ==
    /\ Shape /\ Seats /\ HistoryIsNewestRun /\ LogComplete /\ Marks
    /\ \A c \in Conns : Waits(c) /\ Streams(c)
    /\ StreamFaithful

-----------------------------------------------------------------------------
(* Numbers and finite sets *)

\* The least-number principle, for a set of naturals.
LEMMA LeastNumber ==
    ASSUME NEW T, T \subseteq Nat, T # {}
    PROVE  \E x \in T : \A y \in T : x <= y
<1> DEFINE R == OpToRel(<, Nat)
<1>1. R = {ss \in Nat \X Nat : ss[1] < ss[2]}
  BY DEF OpToRel
<1>2. IsWellFoundedOn(R, Nat)
  BY NatLessThanWellFounded
<1> HIDE DEF R
<1>3. PICK x \in T : \A y \in T : <<y, x>> \notin R
  BY <1>2, WFMin
<1>4. ASSUME NEW y \in T
      PROVE  x <= y
  <2>1. x \in Nat /\ y \in Nat /\ <<y, x>> \notin R
    BY <1>3
  <2>2. \A ss \in Nat \X Nat : ss \in R <=> ss[1] < ss[2]
    BY <1>1
  <2>3. <<y, x>> \in Nat \X Nat /\ <<y, x>>[1] = y /\ <<y, x>>[2] = x
    BY <2>1
  <2>4. ~(y < x)
    BY <2>1, <2>2, <2>3
  <2> QED BY <2>1, <2>4
<1> QED BY <1>4

\* The elements of T up to n.
UpTo(T, n) == {j \in T : j <= n}

\* A finite set of places has a k-th place for every k up to its size, and of
\* two places the later one has more of them up to it.
LEMMA Ranks ==
    ASSUME NEW N \in Nat, NEW T, T \subseteq 1 .. N
    PROVE  /\ IsFiniteSet(T) /\ Cardinality(T) \in Nat
           /\ \A k \in 1 .. Cardinality(T) : \E i \in T : Cardinality(UpTo(T, i)) = k
           /\ \A i, j \in T : Cardinality(UpTo(T, i)) < Cardinality(UpTo(T, j)) => i < j
<1>0. \A j \in T : j \in Nat /\ 1 <= j /\ j <= N
  OBVIOUS
<1>1. IsFiniteSet(1 .. N)
  BY FS_Interval
<1>2. IsFiniteSet(T)
  BY <1>1, FS_Subset
<1>3. \A n : UpTo(T, n) \subseteq T /\ IsFiniteSet(UpTo(T, n)) /\ Cardinality(UpTo(T, n)) \in Nat
  BY <1>2, FS_Subset, FS_CardinalityType DEF UpTo
<1>4. ASSUME NEW k \in 1 .. Cardinality(T)
      PROVE  \E i \in T : Cardinality(UpTo(T, i)) = k
  <2> DEFINE Z == {n \in 0 .. N : Cardinality(UpTo(T, n)) >= k}
  <2>0. Cardinality(T) \in Nat /\ k \in Nat
    BY <1>2, FS_CardinalityType
  <2>1. UpTo(T, N) = T
    BY <1>0 DEF UpTo
  <2>2. N \in Z
    BY <2>0, <2>1
  <2>3. PICK x \in Z : \A y \in Z : x <= y
    <3>1. Z \subseteq Nat /\ Z # {}
      BY <2>2
    <3> HIDE DEF Z
    <3> QED BY <3>1, LeastNumber
  <2>4. UpTo(T, 0) = {}
    <3>1. \A j \in T : ~(j <= 0)
      BY <1>0
    <3> QED BY <3>1 DEF UpTo
  <2>5. x # 0 /\ x \in 1 .. N
    BY <2>0, <2>3, <2>4, FS_EmptySet
  <2>6. Cardinality(UpTo(T, x - 1)) < k
    <3>1. x - 1 \in 0 .. N /\ x - 1 \notin Z
      BY <2>3, <2>5
    <3> QED BY <1>3, <2>0, <3>1
  <2>7. x \in T
    <3>1. SUFFICES ASSUME x \notin T PROVE FALSE
      OBVIOUS
    <3>2. UpTo(T, x) = UpTo(T, x - 1)
      <4>1. \A j \in T : j <= x <=> j <= x - 1
        BY <1>0, <2>5, <3>1
      <4> QED BY <4>1 DEF UpTo
    <3> QED BY <1>3, <2>0, <2>3, <2>6, <3>2
  <2>8. Cardinality(UpTo(T, x)) = Cardinality(UpTo(T, x - 1)) + 1
    <3>1. UpTo(T, x) = UpTo(T, x - 1) \cup {x} /\ x \notin UpTo(T, x - 1)
      <4>1. (\A j \in T : j <= x <=> j <= x - 1 \/ j = x) /\ ~(x <= x - 1)
        BY <1>0, <2>5
      <4> QED BY <2>7, <4>1 DEF UpTo
    <3> QED BY <1>3, <3>1, FS_AddElement
  <2>9. Cardinality(UpTo(T, x)) = k
    BY <1>3, <2>0, <2>3, <2>6, <2>8
  <2> QED BY <2>7, <2>9
<1>5. ASSUME NEW i \in T, NEW j \in T, Cardinality(UpTo(T, i)) < Cardinality(UpTo(T, j))
      PROVE  i < j
  <2>1. SUFFICES ASSUME j <= i PROVE FALSE
    BY <1>0
  <2>2. UpTo(T, j) \subseteq UpTo(T, i)
    <3>1. \A k \in T : k <= j => k <= i
      BY <1>0, <2>1
    <3> QED BY <3>1 DEF UpTo
  <2>3. Cardinality(UpTo(T, j)) <= Cardinality(UpTo(T, i))
    BY <1>3, <2>2, FS_Subset
  <2> QED BY <1>3, <1>5, <2>3
<1> QED BY <1>2, <1>4, <1>5, FS_CardinalityType

-----------------------------------------------------------------------------
(* History *)

\* Eviction keeps a non-empty suffix within the limits: a single message always
\* fits.
LEMMA EvictedRun ==
    ASSUME NEW ms \in Seq(Message), Len(ms) > 0
    PROVE  /\ ~OverBudget(Evicted(ms))
           /\ \E n \in 0 .. Len(ms) - 1 : Evicted(ms) = SubSeq(ms, n + 1, Len(ms))
<1> DEFINE Rest(k) == SubSeq(ms, k + 1, Len(ms))
           T == {k \in 0 .. Len(ms) : ~OverBudget(Rest(k))}
           Stop(k) == ~OverBudget(Rest(k)) /\ \A j \in 0 .. k - 1 : OverBudget(Rest(j))
           n == CHOOSE k \in 0 .. Len(ms) : Stop(k)
<1>0. Len(ms) \in Nat \ {0}
  BY LenProperties
<1>1. Len(ms) - 1 \in T
  <2>1. Rest(Len(ms) - 1) \in Seq(Message) /\ Len(Rest(Len(ms) - 1)) = 1
    BY <1>0, SubSeqProperties
  <2>2. ~OverBudget(Rest(Len(ms) - 1))
    BY <2>1, ChannelBusConstants DEF OverBudget
  <2> QED BY <1>0, <2>2
<1>2. PICK x \in T : \A y \in T : x <= y
  <2>0. 0 .. Len(ms) \subseteq Nat
    BY <1>0
  <2>1. T \subseteq Nat /\ T # {}
    BY <1>1, <2>0, Zenon
  <2> HIDE DEF T
  <2> QED BY <2>1, LeastNumber
<1>3. x \in 0 .. Len(ms) /\ Stop(x)
  <2>1. ASSUME NEW j \in 0 .. x - 1
        PROVE  OverBudget(Rest(j))
    <3>1. x \in Nat /\ x <= Len(ms) /\ j \in Nat /\ j < x
      BY <1>0, <1>2, <2>1
    <3>2. j \in 0 .. Len(ms) /\ j \notin T
      BY <1>0, <1>2, <3>1
    <3> QED BY <3>2
  <2> QED BY <1>2, <2>1
<1> HIDE DEF Stop
<1>4. n \in 0 .. Len(ms) /\ Stop(n)
  BY <1>3
<1>5. Evicted(ms) = Rest(n)
  BY DEF Evicted, Stop
<1> HIDE DEF n
<1>6. ~OverBudget(Rest(n)) /\ \A j \in 0 .. n - 1 : OverBudget(Rest(j))
  BY <1>4 DEF Stop
<1>7. n # Len(ms)
  <2>1. SUFFICES ASSUME n = Len(ms) PROVE FALSE
    OBVIOUS
  <2>2. Len(ms) - 1 \in 0 .. n - 1
    BY <1>0, <2>1
  <2> QED BY <1>1, <1>6, <2>2
<1> QED BY <1>0, <1>4, <1>5, <1>6, <1>7

\* A post keeps the history the unbroken run of the newest messages.
LEMMA PostKeepsRun ==
    ASSUME Shape, HistoryIsNewestRun, NEW m \in Message, m.seq = next_seq,
           messages' = Evicted(Append(messages, m)), next_seq' = next_seq + 1
    PROVE  messages' \in Seq(Message) /\ HistoryIsNewestRun'
<1> DEFINE ms == Append(messages, m)
<1>1. /\ ms \in Seq(Message) /\ Len(ms) = Len(messages) + 1 /\ Len(messages) \in Nat
      /\ \A i \in 1 .. Len(messages) : ms[i] = messages[i]
      /\ ms[Len(messages) + 1] = m
  BY AppendProperties, LenProperties DEF Shape
<1>2. next_seq \in Nat
  BY DEF Shape
<1>3. \A i \in 1 .. Len(ms) : ms[i].seq = next_seq - (Len(ms) - i)
  <2>1. \A i \in 1 .. Len(messages) : messages[i].seq = next_seq - 1 - (Len(messages) - i)
    BY LenProperties DEF HistoryIsNewestRun, Shape
  <2> QED BY <1>1, <1>2, <2>1
<1> HIDE DEF ms
<1>4. ~OverBudget(Evicted(ms)) /\ \E n \in 0 .. Len(ms) - 1 : Evicted(ms) = SubSeq(ms, n + 1, Len(ms))
  <2>1. Len(ms) > 0
    BY <1>1
  <2> QED BY <1>1, <2>1, EvictedRun
<1>5. PICK n \in 0 .. Len(ms) - 1 : Evicted(ms) = SubSeq(ms, n + 1, Len(ms))
  BY <1>4
<1>6. messages' = SubSeq(ms, n + 1, Len(ms)) /\ ~OverBudget(messages')
  BY <1>4, <1>5 DEF ms
<1>7. /\ messages' \in Seq(Message) /\ Len(messages') = Len(ms) - n
      /\ \A i \in 1 .. Len(ms) - n : messages'[i] = ms[n + i]
  BY <1>1, <1>6, SubSeqProperties
<1>8. DOMAIN messages' = 1 .. Len(ms) - n
  BY <1>7, LenProperties
<1>9. \A i \in DOMAIN messages' : messages'[i].seq = next_seq' - 1 - (Len(messages') - i)
  <2>1. n \in Nat /\ Len(ms) \in Nat /\ next_seq' = next_seq + 1
    BY <1>1
  <2>2. ASSUME NEW i \in 1 .. Len(ms) - n
        PROVE  messages'[i].seq = next_seq' - 1 - (Len(messages') - i)
    <3>1. n + i \in 1 .. Len(ms) /\ messages'[i] = ms[n + i]
      BY <1>7, <2>1, <2>2
    <3>2. messages'[i].seq = next_seq - (Len(ms) - (n + i))
      BY <1>3, <3>1
    <3> QED BY <1>2, <1>7, <2>1, <2>2, <3>2
  <2> QED BY <1>8, <2>2
<1>10. messages' # <<>>
  BY <1>1, <1>7
<1>11. OverBudget(messages)' <=> OverBudget(messages')
  OBVIOUS
<1> QED BY <1>6, <1>7, <1>9, <1>10, <1>11 DEF HistoryIsNewestRun

\* The replay is a sequence of message frames, none above the mark, that ascend.
LEMMA ReplayAscends ==
    ASSUME Shape, HistoryIsNewestRun, NEW c \in Conns
    PROVE  /\ ReplayFrames(c) \in Seq(Frame)
           /\ \A k \in DOMAIN ReplayFrames(c) :
                 /\ IsMessage(ReplayFrames(c)[k]) /\ ReplayFrames(c)[k].seq \in Nat
                 /\ ReplayFrames(c)[k].seq <= conn[c].high_water
           /\ \A k, l \in DOMAIN ReplayFrames(c) :
                 k < l => ReplayFrames(c)[k].seq < ReplayFrames(c)[l].seq
<1> DEFINE T == Due(c)
           At(k) == CHOOSE i \in T : Cardinality(UpTo(T, i)) = k
           N == Cardinality(T)
<1>1. /\ Len(messages) \in Nat /\ DOMAIN messages = 1 .. Len(messages)
      /\ \A i \in 1 .. Len(messages) : messages[i] \in Message
  BY LenProperties, ElementOfSeq DEF Shape
<1>2. T \subseteq 1 .. Len(messages)
  BY <1>1 DEF Due
<1>3. /\ N \in Nat
      /\ \A k \in 1 .. N : \E i \in T : Cardinality(UpTo(T, i)) = k
      /\ \A i, j \in T : Cardinality(UpTo(T, i)) < Cardinality(UpTo(T, j)) => i < j
  BY <1>1, <1>2, Ranks
<1>4. ReplayFrames(c) = [k \in 1 .. N |-> MessageEvent(messages[At(k)])]
  BY DEF ReplayFrames, UpTo
<1>5. \A i \in T : messages[i].seq <= conn[c].high_water
  BY DEF Due
<1> HIDE DEF T
<1>6. \A k \in 1 .. N : At(k) \in T /\ Cardinality(UpTo(T, At(k))) = k
  BY <1>3
<1> HIDE DEF At, N
<1>7. \A k, l \in 1 .. N : k < l => At(k) < At(l)
  BY <1>3, <1>6
<1>8. \A i, j \in T : i < j => messages[i].seq < messages[j].seq
  BY <1>1, <1>2 DEF HistoryIsNewestRun, Shape
<1>9. \A k \in 1 .. N : /\ MessageEvent(messages[At(k)]) \in Frame
                        /\ IsMessage(MessageEvent(messages[At(k)]))
                        /\ MessageEvent(messages[At(k)]).seq = messages[At(k)].seq
                        /\ messages[At(k)].seq \in Nat
  BY <1>1, <1>2, <1>6 DEF MessageEvent, IsMessage, Frame, Event, Message
<1>10. ReplayFrames(c) \in Seq(Frame) /\ DOMAIN ReplayFrames(c) = 1 .. N
  BY <1>3, <1>4, <1>9, IsASeq
<1> QED BY <1>4, <1>5, <1>6, <1>7, <1>8, <1>9, <1>10

-----------------------------------------------------------------------------
(* Membership *)

\* Two events are the same only if they say the same.
LEMMA PresenceDiffers ==
    ASSUME NEW a, NEW b
    PROVE  /\ Presence(a, "joined") # Presence(b, "left")
           /\ Presence(a, "joined") = Presence(b, "joined") => a = b
           /\ Presence(a, "left") = Presence(b, "left") => a = b
           /\ \A m : MessageEvent(m) # Presence(b, "left") /\ MessageEvent(m) # Presence(b, "joined")
<1>1. ASSUME NEW k, NEW l
      PROVE  Presence(a, k) = Presence(b, l) => a = b /\ k = l
  <2>1. /\ Presence(a, k).agent_key = a /\ Presence(b, l).agent_key = b
        /\ Presence(a, k).type = k /\ Presence(b, l).type = l
    BY DEF Presence
  <2> QED BY <2>1
<1>2. ASSUME NEW m, NEW k, k # "message"
      PROVE  MessageEvent(m) # Presence(b, k)
  <2>1. MessageEvent(m).type = "message" /\ Presence(b, k).type = k
    BY DEF MessageEvent, Presence
  <2> QED BY <1>2, <2>1
<1> QED BY <1>1, <1>2

\* a's last presence event announced that it joined.
Announced(a) ==
    \E i \in DOMAIN sent :
        /\ sent[i] = Presence(a, "joined")
        /\ \A j \in i + 1 .. Len(sent) : sent[j] # Presence(a, "left")

\* An event changes whose presence is announced only by announcing it.
LEMMA AnnouncedBy ==
    ASSUME Shape, NEW e, sent' = Append(sent, e), NEW b
    PROVE  /\ e = Presence(b, "joined") => Announced(b)'
           /\ e = Presence(b, "left") => ~Announced(b)'
           /\ e # Presence(b, "joined") /\ e # Presence(b, "left") => (Announced(b)' <=> Announced(b))
<1>1. /\ Len(sent) \in Nat /\ DOMAIN sent = 1 .. Len(sent)
      /\ Len(sent') = Len(sent) + 1 /\ DOMAIN sent' = 1 .. Len(sent) + 1
      /\ \A i \in 1 .. Len(sent) : sent'[i] = sent[i]
      /\ sent'[Len(sent) + 1] = e
  BY DEF Shape
<1>2. ASSUME e = Presence(b, "joined") PROVE Announced(b)'
  <2>1. \A j \in Len(sent) + 1 + 1 .. Len(sent') : sent'[j] # Presence(b, "left")
    BY <1>1
  <2>2. Len(sent) + 1 \in DOMAIN sent'
    BY <1>1
  <2> QED BY <1>1, <1>2, <2>1, <2>2 DEF Announced
<1>3. ASSUME e = Presence(b, "left"), Announced(b)' PROVE FALSE
  <2>1. PICK i \in DOMAIN sent' : /\ sent'[i] = Presence(b, "joined")
                                  /\ \A j \in i + 1 .. Len(sent') : sent'[j] # Presence(b, "left")
    BY <1>3 DEF Announced
  <2>2. i # Len(sent) + 1
    BY <1>1, <1>3, <2>1, PresenceDiffers
  <2>3. Len(sent) + 1 \in i + 1 .. Len(sent')
    BY <1>1, <2>1, <2>2
  <2> QED BY <1>1, <1>3, <2>1, <2>3
<1>4. ASSUME e # Presence(b, "joined"), e # Presence(b, "left")
      PROVE  Announced(b)' <=> Announced(b)
  BY <1>1, <1>4 DEF Announced
<1> QED BY <1>2, <1>3, <1>4

\* PresenceTellsMembership, agent by agent.
LEMMA MembersAnnounced ==
    /\ PresenceTellsMembership <=> members = {a \in Agents : Announced(a)}
    /\ PresenceTellsMembership' <=> members' = {a \in Agents : Announced(a)'}
BY DEF PresenceTellsMembership, Announced

\* join_locked: an agent that has a seat keeps it; a new one gets a free one and is announced.
LEMMA SeatedKeeps ==
    ASSUME Shape, Seats, NEW a \in Agents, Seated(a)
    PROVE  Seats' /\ members' \subseteq Agents
<1>1. CASE UNCHANGED <<members, sent>>
  BY <1>1 DEF Shape, Seats, MembershipSound, SeatsBounded, PresenceTellsMembership
<1>2. CASE /\ a \notin members /\ HasSeat /\ members' = members \cup {a}
           /\ sent' = Append(sent, Presence(a, "joined"))
  <2>1. IsFiniteSet(members) /\ Cardinality(members) \in Nat
    BY FS_CardinalityType DEF Seats
  <2>2. IsFiniteSet(members') /\ Cardinality(members') = Cardinality(members) + 1
    BY <1>2, <2>1, FS_AddElement
  <2>3. Cardinality(members') <= MAX_MEMBERS
    BY <1>2, <2>1, <2>2, ChannelBusConstants DEF HasSeat
  <2>4. \A b : Announced(b)' <=> b = a \/ Announced(b)
    BY <1>2, AnnouncedBy, PresenceDiffers
  <2>5. PresenceTellsMembership'
    BY <1>2, <2>4, MembersAnnounced DEF Seats, MembershipSound
  <2> QED BY <1>2, <2>2, <2>3, <2>5 DEF Shape, Seats, MembershipSound, SeatsBounded
<1> QED BY <1>1, <1>2 DEF Seated

\* A leave gives the seat back and is announced.
LEMMA LeaveKeeps ==
    ASSUME Shape, Seats, NEW a \in Agents, a \in members, members' = members \ {a},
           sent' = Append(sent, Presence(a, "left"))
    PROVE  Seats' /\ members' \subseteq Agents
<1>1. IsFiniteSet(members) /\ Cardinality(members) \in Nat
  BY FS_CardinalityType DEF Seats
<1>2. /\ IsFiniteSet(members') /\ Cardinality(members') = Cardinality(members) - 1
  BY <1>1, FS_RemoveElement
<1>3. Cardinality(members') <= MAX_MEMBERS
  BY <1>1, <1>2, ChannelBusConstants DEF Seats, MembershipSound, SeatsBounded
<1>4. \A b : Announced(b)' <=> b # a /\ Announced(b)
  BY AnnouncedBy, PresenceDiffers
<1>5. PresenceTellsMembership'
  BY <1>4, MembersAnnounced DEF Seats, MembershipSound
<1> QED BY <1>2, <1>3, <1>5 DEF Shape, Seats, MembershipSound, SeatsBounded

-----------------------------------------------------------------------------
(* Streams *)

\* No connection reads or writes anything; one may be about to subscribe.
Undisturbed ==
    \A c \in Conns :
        /\ UNCHANGED <<conn[c].out, conn[c].cursor, conn[c].high_water>>
        /\ UNCHANGED conn[c].phase \/ (conn[c].phase = "idle" /\ conn'[c].phase = "joined")

\* What a client saw does not change while nothing is written.
LEMMA OutKept ==
    ASSUME StreamFaithful, Undisturbed
    PROVE  StreamFaithful'
<1>1. DeliveredInOrder'
  BY DEF StreamFaithful, DeliveredInOrder, Undisturbed
<1>2. LiveGapsSignalled'
  BY DEF StreamFaithful, LiveGapsSignalled, Undisturbed
<1> QED BY <1>1, <1>2 DEF StreamFaithful

\* What a step may do to the log: nothing, announce a presence, or number a
\* message and announce that.
Logged ==
    \/ UNCHANGED <<sent, next_seq>>
    \/ \E e \in Event :
          /\ sent' = Append(sent, e)
          /\ \/ ~IsMessage(e) /\ UNCHANGED next_seq
             \/ IsMessage(e) /\ e.seq = next_seq /\ next_seq' = next_seq + 1

\* A new event lies behind every cursor and is newer than everything before it.
LEMMA LogKeeps ==
    ASSUME Shape, LogComplete, Marks, \A c \in Conns : Waits(c) /\ Streams(c),
           Undisturbed, Logged
    PROVE  LogComplete' /\ Marks' /\ \A c \in Conns : Waits(c)' /\ Streams(c)'
<1>1. CASE UNCHANGED <<sent, next_seq>>
  <2>1. LogComplete' /\ Marks'
    BY <1>1 DEF LogComplete, Marks, Undisturbed
  <2>2. ASSUME NEW c \in Conns PROVE Waits(c)' /\ Streams(c)'
    BY <1>1 DEF Waits, Streams, Undisturbed
  <2> QED BY <2>1, <2>2
<1>2. ASSUME NEW e \in Event, sent' = Append(sent, e),
             \/ ~IsMessage(e) /\ UNCHANGED next_seq
             \/ IsMessage(e) /\ e.seq = next_seq /\ next_seq' = next_seq + 1
      PROVE  LogComplete' /\ Marks' /\ \A c \in Conns : Waits(c)' /\ Streams(c)'
  <2>1. /\ Len(sent) \in Nat /\ DOMAIN sent = 1 .. Len(sent)
        /\ Len(sent') = Len(sent) + 1 /\ DOMAIN sent' = 1 .. Len(sent) + 1
        /\ \A i \in 1 .. Len(sent) : sent'[i] = sent[i]
        /\ sent'[Len(sent) + 1] = e
    BY <1>2 DEF Shape
  <2>2. next_seq \in Nat \ {0} /\ (next_seq' = next_seq \/ next_seq' = next_seq + 1)
    BY <1>2 DEF Shape
  <2>3. \A i \in 1 .. Len(sent) : IsMessage(sent[i]) => sent[i].seq \in Nat /\ sent[i].seq < next_seq
    BY <2>1, <2>2 DEF LogComplete
  <2>4. LogComplete'
    <3>1. \A i \in DOMAIN sent' : IsMessage(sent'[i]) => sent'[i].seq \in 1 .. next_seq' - 1
      BY <1>2, <2>1, <2>2 DEF LogComplete
    <3>2. ASSUME NEW i \in DOMAIN sent', NEW j \in DOMAIN sent', i < j,
                 IsMessage(sent'[i]), IsMessage(sent'[j])
          PROVE  sent'[i].seq < sent'[j].seq
      <4>1. CASE j = Len(sent) + 1
        BY <1>2, <2>1, <2>2, <2>3, <3>2, <4>1
      <4>2. CASE j # Len(sent) + 1
        BY <2>1, <3>2, <4>2 DEF LogComplete
      <4> QED BY <4>1, <4>2
    <3>3. ASSUME NEW n \in 1 .. next_seq' - 1
          PROVE  \E i \in DOMAIN sent' : IsMessage(sent'[i]) /\ sent'[i].seq = n
      <4>1. CASE n \in 1 .. next_seq - 1
        BY <2>1, <4>1 DEF LogComplete
      <4>2. CASE n \notin 1 .. next_seq - 1
        <5>1. n = next_seq /\ IsMessage(e) /\ e.seq = next_seq
          BY <1>2, <2>2, <4>2
        <5> QED BY <2>1, <5>1
      <4> QED BY <4>1, <4>2
    <3> QED BY <3>1, <3>2, <3>3 DEF LogComplete
  <2>5. Marks'
    <3>1. ASSUME NEW c \in Conns
          PROVE  /\ conn[c].cursor \in Nat /\ conn[c].high_water \in Nat
                 /\ \A j \in DOMAIN conn[c].out :
                       IsMessage(conn[c].out[j]) => conn[c].out[j].seq \in Nat
      BY ElementOfSeq DEF Shape, Conn, Frame, Event, IsMessage
    <3> QED BY <2>1, <2>2, <3>1 DEF Marks, Undisturbed
  <2>6. ASSUME NEW c \in Conns
        PROVE  Waits(c)' /\ Streams(c)'
    <3>1. /\ conn[c].cursor \in Nat /\ conn[c].high_water \in Nat /\ conn[c].high_water < next_seq
          /\ conn'[c].out = conn[c].out /\ conn'[c].cursor = conn[c].cursor
          /\ conn'[c].high_water = conn[c].high_water
          /\ conn'[c].phase \in {"captured", "live"} => conn'[c].phase = conn[c].phase
          /\ conn'[c].phase # "live" => conn[c].phase # "live"
      BY DEF Shape, Conn, Marks, Undisturbed
    <3>2. Waits(c)'
      <4>1. (conn[c].phase # "live" => conn[c].out = <<>>)'
        BY <3>1 DEF Waits
      <4>2. (conn[c].phase \in {"captured", "live"} => conn[c].cursor \in 1 .. Len(sent) + 1)'
        BY <2>1, <3>1 DEF Waits
      <4>3. ASSUME conn'[c].phase = "captured", NEW i \in DOMAIN sent', IsMessage(sent'[i])
            PROVE  i < conn'[c].cursor <=> sent'[i].seq <= conn'[c].high_water
        <5>1. CASE i = Len(sent) + 1
          <6>1. ~(e.seq <= conn[c].high_water)
            BY <1>2, <2>1, <2>2, <3>1, <4>3, <5>1
          <6>2. ~(i < conn[c].cursor)
            BY <2>1, <3>1, <4>3, <5>1 DEF Waits
          <6> QED BY <2>1, <3>1, <5>1, <6>1, <6>2
        <5>2. CASE i # Len(sent) + 1
          BY <2>1, <3>1, <4>3, <5>2 DEF Waits
        <5> QED BY <5>1, <5>2
      <4> QED BY <4>1, <4>2, <4>3 DEF Waits
    <3>3. Streams(c)'
      <4> SUFFICES ASSUME conn'[c].phase = "live" PROVE Streams(c)'
        BY DEF Streams
      <4>0. conn[c].phase = "live" /\ conn[c].cursor \in 1 .. Len(sent) + 1
        BY <3>1 DEF Waits
      <4>1. ASSUME NEW j \in DOMAIN conn[c].out, IsMessage(conn[c].out[j]), IsMessage(e)
            PROVE  conn[c].out[j].seq < e.seq
        BY <1>2, <4>1 DEF Marks
      <4>2. ASSUME NEW j \in DOMAIN conn'[c].out, NEW i \in conn'[c].cursor .. Len(sent'),
                   IsMessage(conn'[c].out[j]), IsMessage(sent'[i])
            PROVE  conn'[c].out[j].seq < sent'[i].seq
        <5>1. CASE i = Len(sent) + 1
          BY <2>1, <3>1, <4>1, <4>2, <5>1
        <5>2. CASE i # Len(sent) + 1
          <6>1. i \in conn[c].cursor .. Len(sent) /\ i \in 1 .. Len(sent)
            BY <2>1, <3>1, <4>0, <4>2, <5>2
          <6> QED BY <2>1, <3>1, <4>0, <4>2, <6>1 DEF Streams
        <5> QED BY <5>1, <5>2
      <4>3. ASSUME NEW i \in 1 .. conn'[c].cursor - 1, IsMessage(sent'[i]),
                   sent'[i].seq > conn'[c].high_water
            PROVE  Has(conn'[c].out, sent'[i].seq) \/ HasNotice(conn'[c].out)
        <5>1. i \in 1 .. conn[c].cursor - 1 /\ i \in 1 .. Len(sent)
          BY <2>1, <3>1, <4>0, <4>3
        <5> QED BY <2>1, <3>1, <4>0, <4>3, <5>1 DEF Streams
      <4> QED BY <4>2, <4>3 DEF Streams, Has, HasNotice
    <3> QED BY <3>2, <3>3
  <2> QED BY <2>4, <2>5, <2>6
<1> QED BY <1>1, <1>2 DEF Logged

\* DeliveredInOrder and LiveGapsSignalled, for what one connection wrote.
Ascending(out) ==
    \A i, j \in DOMAIN out :
        i < j /\ IsMessage(out[i]) /\ IsMessage(out[j]) => out[i].seq < out[j].seq
Gapless(out, mark) ==
    \A i \in DOMAIN out : IsMessage(out[i]) =>
        \A n \in mark + 1 .. out[i].seq - 1 :
            \/ \E j \in 1 .. i - 1 : IsMessage(out[j]) /\ out[j].seq = n
            \/ \E j \in 1 .. i - 1 : out[j].type = "lagged"

\* StreamFaithful is a statement about each connection on its own.
LEMMA FaithfulByConn ==
    /\ StreamFaithful <=> \A c \in Conns : Ascending(conn[c].out) /\ Gapless(conn[c].out, conn[c].high_water)
    /\ StreamFaithful' <=>
          \A c \in Conns : Ascending(conn'[c].out) /\ Gapless(conn'[c].out, conn'[c].high_water)
BY DEF StreamFaithful, DeliveredInOrder, LiveGapsSignalled, Ascending, Gapless

\* A step of one connection's task: the invariant is kept if that connection is
\* left in order.
LEMMA OneConnection ==
    ASSUME IInv, NEW c \in Conns, UNCHANGED <<members, messages, next_seq, sent, post>>,
           NEW k \in Conn, conn' = [conn EXCEPT ![c] = k],
           k.cursor <= Len(sent) + 1, k.high_water < next_seq,
           \A j \in DOMAIN k.out : IsMessage(k.out[j]) => k.out[j].seq < next_seq,
           Ascending(k.out), Gapless(k.out, k.high_water), Waits(c)', Streams(c)'
    PROVE  IInv'
<1>1. conn'[c] = k /\ (\A d \in Conns : d # c => conn'[d] = conn[d]) /\ conn' \in [Conns -> Conn]
  BY DEF IInv, Shape
<1>2. Shape' /\ Seats' /\ HistoryIsNewestRun' /\ LogComplete'
  <2>1. Shape'
    BY <1>1 DEF IInv, Shape
  <2>2. Seats'
    BY DEF IInv, Seats, MembershipSound, SeatsBounded, PresenceTellsMembership
  <2>3. OverBudget(messages)' <=> OverBudget(messages)
    OBVIOUS
  <2>4. HistoryIsNewestRun'
    BY <2>3 DEF IInv, HistoryIsNewestRun
  <2>5. LogComplete'
    BY DEF IInv, LogComplete
  <2> QED BY <2>1, <2>2, <2>4, <2>5
<1>3. Marks'
  BY <1>1 DEF IInv, Marks
<1>4. \A d \in Conns : Waits(d)' /\ Streams(d)'
  BY <1>1 DEF IInv, Waits, Streams
<1>5. StreamFaithful'
  BY <1>1, FaithfulByConn DEF IInv
<1> QED BY <1>2, <1>3, <1>4, <1>5 DEF IInv

\* A connection that was sent nothing is faithful.
LEMMA EmptyOut ==
    /\ <<>> \in Seq(Frame) /\ Ascending(<<>>) /\ \A m : Gapless(<<>>, m)
BY DEF Ascending, Gapless

\* Appending a frame that is no message disturbs nothing.
LEMMA AppendNotice ==
    ASSUME NEW out \in Seq(Frame), NEW mark, Ascending(out), Gapless(out, mark),
           NEW f \in Frame, ~IsMessage(f)
    PROVE  /\ Ascending(Append(out, f)) /\ Gapless(Append(out, f), mark)
           /\ \A n : Has(Append(out, f), n) <=> Has(out, n)
<1>1. /\ Len(out) \in Nat /\ DOMAIN out = 1 .. Len(out)
      /\ DOMAIN Append(out, f) = 1 .. Len(out) + 1
      /\ \A i \in 1 .. Len(out) : Append(out, f)[i] = out[i]
      /\ Append(out, f)[Len(out) + 1] = f
  OBVIOUS
<1> DEFINE o == Append(out, f)
<1> HIDE DEF o
<1>2. Ascending(o)
  BY <1>1 DEF Ascending, o
<1>3. ASSUME NEW i \in DOMAIN o, IsMessage(o[i]), NEW n \in mark + 1 .. o[i].seq - 1
      PROVE  \/ \E j \in 1 .. i - 1 : IsMessage(o[j]) /\ o[j].seq = n
             \/ \E j \in 1 .. i - 1 : o[j].type = "lagged"
  <2>1. i \in 1 .. Len(out) /\ o[i] = out[i] /\ \A j \in 1 .. i - 1 : o[j] = out[j]
    BY <1>1, <1>3 DEF o
  <2> QED BY <1>1, <1>3, <2>1 DEF Gapless
<1>4. \A n : Has(o, n) <=> Has(out, n)
  BY <1>1 DEF Has, o
<1> QED BY <1>2, <1>3, <1>4 DEF Gapless, o

\* Appending a message that is newer than all before it, when everything
\* between the mark and it was written or given notice of.
LEMMA AppendMessage ==
    ASSUME NEW out \in Seq(Frame), NEW mark, Ascending(out), Gapless(out, mark),
           NEW f \in Frame, IsMessage(f),
           \A j \in DOMAIN out : IsMessage(out[j]) => out[j].seq < f.seq,
           \A n \in mark + 1 .. f.seq - 1 : Has(out, n) \/ HasNotice(out)
    PROVE  Ascending(Append(out, f)) /\ Gapless(Append(out, f), mark)
<1>1. /\ Len(out) \in Nat /\ DOMAIN out = 1 .. Len(out)
      /\ DOMAIN Append(out, f) = 1 .. Len(out) + 1
      /\ \A i \in 1 .. Len(out) : Append(out, f)[i] = out[i]
      /\ Append(out, f)[Len(out) + 1] = f
  OBVIOUS
<1> DEFINE o == Append(out, f)
<1> HIDE DEF o
<1>2. Ascending(o)
  <2>1. ASSUME NEW i \in DOMAIN o, NEW j \in DOMAIN o, i < j, IsMessage(o[i]), IsMessage(o[j])
        PROVE  o[i].seq < o[j].seq
    <3>1. i \in 1 .. Len(out) /\ o[i] = out[i]
      BY <1>1, <2>1 DEF o
    <3>2. CASE j = Len(out) + 1
      BY <1>1, <2>1, <3>1, <3>2 DEF o
    <3>3. CASE j # Len(out) + 1
      BY <1>1, <2>1, <3>1, <3>3 DEF o, Ascending
    <3> QED BY <3>2, <3>3
  <2> QED BY <2>1 DEF Ascending
<1>3. ASSUME NEW i \in DOMAIN o, IsMessage(o[i]), NEW n \in mark + 1 .. o[i].seq - 1
      PROVE  \/ \E j \in 1 .. i - 1 : IsMessage(o[j]) /\ o[j].seq = n
             \/ \E j \in 1 .. i - 1 : o[j].type = "lagged"
  <2>1. CASE i = Len(out) + 1
    <3>1. Has(out, n) \/ HasNotice(out)
      BY <1>1, <1>3, <2>1 DEF o
    <3>2. 1 .. i - 1 = DOMAIN out /\ \A j \in DOMAIN out : o[j] = out[j]
      BY <1>1, <2>1 DEF o
    <3> QED BY <3>1, <3>2 DEF Has, HasNotice
  <2>2. CASE i # Len(out) + 1
    <3>1. i \in 1 .. Len(out) /\ o[i] = out[i] /\ \A j \in 1 .. i - 1 : o[j] = out[j]
      BY <1>1, <1>3, <2>2 DEF o
    <3> QED BY <1>1, <1>3, <3>1 DEF Gapless
  <2> QED BY <2>1, <2>2
<1> QED BY <1>2, <1>3 DEF Gapless, o

-----------------------------------------------------------------------------
(* The steps *)

\* The receiver is taken at the end of what was broadcast.
LEMMA CaptureKeeps ==
    ASSUME IInv, NEW c \in Conns, SubscribeCapture(c)
    PROVE  IInv'
<1> DEFINE ph == IF c \in TcpConns THEN "captured" ELSE "live"
           ow == IF c \in TcpConns
                 THEN {s \in {messages[i].seq : i \in DOMAIN messages} : s > conn[c].since} ELSE {}
           k == [conn[c] EXCEPT !.phase = ph, !.cursor = Len(sent) + 1, !.high_water = next_seq - 1,
                                !.owed = ow]
<1>1. /\ Shape /\ LogComplete /\ conn[c] \in Conn /\ conn[c].phase = "joined" /\ conn[c].out = <<>>
      /\ Len(sent) \in Nat /\ DOMAIN sent = 1 .. Len(sent) /\ next_seq \in Nat \ {0}
  BY DEF IInv, Shape, Waits, SubscribeCapture
<1>2. ow \subseteq Nat
  <2>1. messages \in Seq(Message) /\ DOMAIN messages = 1 .. Len(messages)
    BY <1>1 DEF Shape
  <2>2. \A i \in DOMAIN messages : messages[i] \in Message
    BY <2>1, ElementOfSeq
  <2>3. \A i \in DOMAIN messages : messages[i].seq \in Nat
    BY <2>2 DEF Message
  <2> QED BY <2>3
<1>3. conn' = [conn EXCEPT ![c] = k] /\ UNCHANGED <<members, messages, next_seq, sent, post>>
  BY DEF SubscribeCapture, HighWater
<1>p. ph \in {"captured", "live"} /\ Len(sent) + 1 \in Nat /\ next_seq - 1 \in Nat
  BY <1>1
<1> HIDE DEF ow, ph
<1>4. /\ k \in Conn /\ k.phase = ph /\ k.cursor = Len(sent) + 1 /\ k.high_water = next_seq - 1
      /\ k.out = <<>>
  BY <1>1, <1>2, <1>p DEF Conn
<1> HIDE DEF k
<1>5. conn'[c] = k
  BY <1>1, <1>3 DEF Shape
<1>6. \A i \in DOMAIN sent : IsMessage(sent[i]) => i < k.cursor /\ sent[i].seq <= k.high_water
  BY <1>1, <1>4 DEF LogComplete
<1>7. Waits(c)'
  BY <1>1, <1>3, <1>4, <1>5, <1>6 DEF Waits, ph
<1>8. Streams(c)'
  <2>1. \A i \in 1 .. k.cursor - 1 : i \in DOMAIN sent /\ (IsMessage(sent[i]) => ~(sent[i].seq > k.high_water))
    BY <1>1, <1>4, <1>6 DEF LogComplete
  <2>2. DOMAIN k.out = {}
    BY <1>4
  <2> QED BY <1>3, <1>5, <2>1, <2>2 DEF Streams
<1>9. k.cursor <= Len(sent) + 1 /\ k.high_water < next_seq /\ DOMAIN k.out = {}
  BY <1>1, <1>4
<1> QED BY <1>3, <1>4, <1>7, <1>8, <1>9, EmptyOut, OneConnection

\* Replay writes what history still has between the cursor and the high water, in order.
LEMMA ReplayKeeps ==
    ASSUME IInv, NEW c \in Conns, Replay(c)
    PROVE  IInv'
<1> DEFINE F == ReplayFrames(c)
           k == [conn[c] EXCEPT !.phase = "live", !.out = F]
<1>1. /\ Shape /\ LogComplete /\ Marks /\ Waits(c)
      /\ conn[c] \in Conn /\ conn[c].phase = "captured" /\ conn[c].out = <<>>
      /\ Len(sent) \in Nat /\ DOMAIN sent = 1 .. Len(sent) /\ next_seq \in Nat \ {0}
      /\ conn[c].cursor \in 1 .. Len(sent) + 1 /\ conn[c].high_water \in Nat
      /\ conn[c].high_water < next_seq
  BY DEF IInv, Shape, Waits, Marks, Replay, Conn
<1>2. /\ F \in Seq(Frame)
      /\ \A n \in DOMAIN F : IsMessage(F[n]) /\ F[n].seq \in Nat /\ F[n].seq <= conn[c].high_water
      /\ \A n, m \in DOMAIN F : n < m => F[n].seq < F[m].seq
  BY <1>1, ReplayAscends DEF IInv
<1>3. conn[c].out \o F = F
  BY <1>1, <1>2, ConcatEmptySeq
<1> HIDE DEF F
<1>4. conn' = [conn EXCEPT ![c] = k] /\ UNCHANGED <<members, messages, next_seq, sent, post>>
  BY <1>3 DEF Replay, F
<1>5. /\ k \in Conn /\ k.phase = "live" /\ k.cursor = conn[c].cursor
      /\ k.high_water = conn[c].high_water /\ k.out = F
  BY <1>1, <1>2 DEF Conn
<1> HIDE DEF k
<1>6. conn'[c] = k
  BY <1>1, <1>4 DEF Shape
<1>7. Ascending(F) /\ Gapless(F, k.high_water)
  <2>1. \A n \in DOMAIN F : k.high_water + 1 .. F[n].seq - 1 = {}
    BY <1>1, <1>2, <1>5
  <2> QED BY <1>2, <2>1 DEF Ascending, Gapless
<1>8. Waits(c)'
  BY <1>1, <1>4, <1>5, <1>6 DEF Waits
<1>9. Streams(c)'
  <2>1. ASSUME NEW j \in DOMAIN F, NEW i \in k.cursor .. Len(sent), IsMessage(sent[i])
        PROVE  F[j].seq < sent[i].seq
    <3>1. i \in DOMAIN sent /\ ~(i < conn[c].cursor)
      BY <1>1, <1>5
    <3>2. ~(sent[i].seq <= conn[c].high_water)
      BY <1>1, <2>1, <3>1 DEF Waits
    <3>3. sent[i].seq \in Nat
      BY <1>1, <2>1, <3>1 DEF LogComplete
    <3> QED BY <1>1, <1>2, <3>2, <3>3
  <2>2. ASSUME NEW i \in 1 .. k.cursor - 1, IsMessage(sent[i])
        PROVE  ~(sent[i].seq > k.high_water)
    <3>1. i \in DOMAIN sent /\ i < conn[c].cursor
      BY <1>1, <1>5
    <3>2. sent[i].seq <= conn[c].high_water /\ sent[i].seq \in Nat
      BY <1>1, <2>2, <3>1 DEF Waits, LogComplete
    <3> QED BY <1>1, <1>5, <3>2
  <2> QED BY <1>4, <1>5, <1>6, <2>1, <2>2 DEF Streams
<1>10. /\ k.cursor <= Len(sent) + 1 /\ k.high_water < next_seq
       /\ \A j \in DOMAIN k.out : IsMessage(k.out[j]) => k.out[j].seq < next_seq
  BY <1>1, <1>2, <1>5
<1> QED BY <1>4, <1>5, <1>7, <1>8, <1>9, <1>10, OneConnection

\* A client goes away, or is dropped.
LEMMA DisconnectKeeps ==
    ASSUME IInv, NEW c \in Conns, Disconnect(c)
    PROVE  IInv'
<1> DEFINE k == [NewConn EXCEPT !.phase = "closed"]
<1>1. /\ k \in Conn /\ k.phase = "closed" /\ k.out = <<>> /\ k.cursor = 0 /\ k.high_water = 0
  BY EmptyOut DEF NewConn, Conn
<1>2. conn' = [conn EXCEPT ![c] = k] /\ UNCHANGED <<members, messages, next_seq, sent, post>>
  BY DEF Disconnect
<1> HIDE DEF k
<1>3. conn'[c] = k /\ Len(sent) \in Nat /\ next_seq \in Nat \ {0} /\ DOMAIN k.out = {}
  BY <1>1, <1>2 DEF IInv, Shape
<1>4. Waits(c)' /\ Streams(c)'
  BY <1>1, <1>3 DEF Waits, Streams
<1>5. k.cursor <= Len(sent) + 1 /\ k.high_water < next_seq
  BY <1>1, <1>3
<1> QED BY <1>1, <1>2, <1>3, <1>4, <1>5, EmptyOut, OneConnection

\* One recv of the forwarder task: a message, a presence event, a lag or a message it skips.
LEMMA ForwardKeeps ==
    ASSUME IInv, NEW c \in Conns, Forward(c)
    PROVE  IInv'
<1> DEFINE out == conn[c].out
           cur == conn[c].cursor
           hw == conn[c].high_water
<1>1. /\ Shape /\ LogComplete /\ Marks /\ Waits(c) /\ Streams(c)
      /\ conn[c] \in Conn /\ conn[c].phase = "live"
      /\ Len(sent) \in Nat /\ DOMAIN sent = 1 .. Len(sent) /\ next_seq \in Nat \ {0}
      /\ cur \in 1 .. Len(sent) /\ hw \in Nat /\ hw < next_seq
      /\ out \in Seq(Frame) /\ Len(out) \in Nat /\ DOMAIN out = 1 .. Len(out)
      /\ \A j \in DOMAIN out : IsMessage(out[j]) => out[j].seq < next_seq
  BY DEF IInv, Shape, Waits, Marks, Forward, Conn
<1>2. Ascending(out) /\ Gapless(out, hw)
  BY FaithfulByConn DEF IInv
<1>3. UNCHANGED <<members, messages, next_seq, sent, post>>
  BY DEF Forward
<1>4. CASE cur < RingStart
  <2> DEFINE f == Lagged(RingStart - cur)
             k == [conn[c] EXCEPT !.cursor = RingStart, !.out = Append(out, f)]
  <2>1. RingStart \in 1 .. Len(sent)
    BY <1>1, <1>4, ChannelBusConstants DEF RingStart
  <2>2. f \in Frame /\ ~IsMessage(f) /\ f.type = "lagged"
    BY <1>1, <2>1 DEF Lagged, Frame, IsMessage
  <2>3. conn' = [conn EXCEPT ![c] = k]
    BY <1>4 DEF Forward, RecvLagged
  <2> HIDE DEF f
  <2>4. Append(out, f) \in Seq(Frame) /\ RingStart \in Nat
    BY <1>1, <2>1, <2>2
  <2>5. /\ k \in Conn /\ k.phase = "live" /\ k.cursor = RingStart /\ k.high_water = hw
        /\ k.out = Append(out, f)
    BY <1>1, <2>4 DEF Conn
  <2> HIDE DEF k
  <2>6. conn'[c] = k
    BY <1>1, <2>3 DEF Shape
  <2>7. /\ DOMAIN k.out = 1 .. Len(out) + 1 /\ k.out[Len(out) + 1] = f
        /\ \A j \in 1 .. Len(out) : k.out[j] = out[j]
    BY <1>1, <2>5
  <2>8. Ascending(k.out) /\ Gapless(k.out, k.high_water)
    BY <1>1, <1>2, <2>2, <2>5, AppendNotice
  <2>9. \A j \in DOMAIN k.out : IsMessage(k.out[j]) => j \in DOMAIN out /\ k.out[j] = out[j]
    BY <1>1, <2>2, <2>7
  <2>10. Waits(c)'
    BY <1>1, <1>3, <2>1, <2>5, <2>6 DEF Waits
  <2>11. Streams(c)'
    <3>1. HasNotice(k.out)
      BY <1>1, <2>2, <2>7 DEF HasNotice
    <3>2. ASSUME NEW j \in DOMAIN k.out, NEW i \in k.cursor .. Len(sent),
                 IsMessage(k.out[j]), IsMessage(sent[i])
          PROVE  k.out[j].seq < sent[i].seq
      <4>1. i \in cur .. Len(sent)
        BY <1>1, <1>4, <2>1, <2>5, <3>2
      <4> QED BY <1>1, <2>9, <3>2, <4>1 DEF Streams
    <3> QED BY <1>3, <2>6, <3>1, <3>2 DEF Streams
  <2>12. /\ k.cursor <= Len(sent) + 1 /\ k.high_water < next_seq
         /\ \A j \in DOMAIN k.out : IsMessage(k.out[j]) => k.out[j].seq < next_seq
    BY <1>1, <2>1, <2>5, <2>9
  <2> QED BY <1>3, <2>3, <2>5, <2>8, <2>10, <2>11, <2>12, OneConnection
<1>5. CASE ~(cur < RingStart)
  <2> DEFINE e == sent[cur]
             k == [conn[c] EXCEPT !.cursor = cur + 1, !.out = Append(out, e)]
  <2>1. e \in Event /\ e \in Frame /\ cur \in DOMAIN sent
    BY <1>1, ElementOfSeq DEF Shape, Frame
  <2>2. IsMessage(e) => e.seq \in Nat /\ e.seq < next_seq
    BY <1>1, <2>1 DEF LogComplete
  <2>3. conn' = [conn EXCEPT ![c] = k]
    BY <1>5 DEF Forward, RecvEvent
  <2> HIDE DEF e
  <2>4. Append(out, e) \in Seq(Frame) /\ cur + 1 \in Nat
    BY <1>1, <2>1
  <2>5. /\ k \in Conn /\ k.phase = "live" /\ k.cursor = cur + 1 /\ k.high_water = hw
        /\ k.out = Append(out, e)
    BY <1>1, <2>4 DEF Conn
  <2> HIDE DEF k
  <2>6. conn'[c] = k
    BY <1>1, <2>3 DEF Shape
  <2>7. /\ DOMAIN k.out = 1 .. Len(out) + 1 /\ k.out[Len(out) + 1] = e
        /\ \A j \in 1 .. Len(out) : k.out[j] = out[j]
    BY <1>1, <2>5
  <2>8. Ascending(k.out) /\ Gapless(k.out, k.high_water)
    <3>1. CASE IsMessage(e)
      <4>1. \A j \in DOMAIN out : IsMessage(out[j]) => out[j].seq < e.seq
        BY <1>1, <3>1 DEF Streams, e
      <4>2. ASSUME NEW n \in hw + 1 .. e.seq - 1
            PROVE  Has(out, n) \/ HasNotice(out)
        <5>1. n \in 1 .. next_seq - 1 /\ n \in Nat /\ n > hw /\ n < e.seq
          BY <1>1, <2>2, <3>1, <4>2
        <5>2. PICK i \in DOMAIN sent : IsMessage(sent[i]) /\ sent[i].seq = n
          BY <1>1, <5>1 DEF LogComplete
        <5>3. i < cur
          <6>1. SUFFICES ASSUME ~(i < cur) PROVE FALSE
            OBVIOUS
          <6>2. CASE i = cur
            BY <2>2, <3>1, <5>1, <5>2, <6>2 DEF e
          <6>3. CASE i # cur
            <7>1. i \in Nat /\ cur \in Nat /\ cur < i
              BY <1>1, <5>2, <6>1, <6>3
            <7>2. IsMessage(sent[cur]) /\ cur \in DOMAIN sent
              BY <2>1, <3>1 DEF e
            <7> HIDE DEF cur
            <7>3. sent[cur].seq < sent[i].seq
              BY <1>1, <5>2, <7>1, <7>2 DEF LogComplete
            <7> QED BY <2>2, <3>1, <5>1, <5>2, <7>3 DEF e
          <6> QED BY <6>2, <6>3
        <5> QED BY <1>1, <5>1, <5>2, <5>3 DEF Streams
      <4> QED BY <1>1, <1>2, <2>1, <2>5, <3>1, <4>1, <4>2, AppendMessage
    <3>2. CASE ~IsMessage(e)
      BY <1>1, <1>2, <2>1, <2>5, <3>2, AppendNotice
    <3> QED BY <3>1, <3>2
  <2>10. Waits(c)'
    BY <1>1, <1>3, <2>5, <2>6 DEF Waits
  <2>11. Streams(c)'
    <3>1. ASSUME NEW j \in DOMAIN k.out, NEW i \in k.cursor .. Len(sent),
                 IsMessage(k.out[j]), IsMessage(sent[i])
          PROVE  k.out[j].seq < sent[i].seq
      <4>1. i \in cur .. Len(sent) /\ i \in DOMAIN sent /\ cur < i
        BY <1>1, <2>5
      <4>2. CASE j = Len(out) + 1
        BY <1>1, <2>1, <2>7, <3>1, <4>1, <4>2 DEF LogComplete, e
      <4>3. CASE j # Len(out) + 1
        <5>1. j \in DOMAIN out /\ k.out[j] = out[j]
          BY <1>1, <2>7, <3>1, <4>3
        <5> QED BY <1>1, <3>1, <4>1, <5>1 DEF Streams
      <4> QED BY <4>2, <4>3
    <3>2. ASSUME NEW i \in 1 .. k.cursor - 1, IsMessage(sent[i]), sent[i].seq > k.high_water
          PROVE  Has(k.out, sent[i].seq) \/ HasNotice(k.out)
      <4>1. CASE i = cur
        <5>1. Len(out) + 1 \in DOMAIN k.out
          BY <1>1, <2>7
        <5> QED BY <2>7, <3>2, <4>1, <5>1 DEF Has, e
      <4>2. CASE i # cur
        <5>1. i \in 1 .. cur - 1
          BY <1>1, <2>5, <3>2, <4>2
        <5>2. Has(out, sent[i].seq) \/ HasNotice(out)
          BY <1>1, <2>5, <3>2, <5>1 DEF Streams
        <5>3. \A j \in DOMAIN out : j \in DOMAIN k.out /\ k.out[j] = out[j]
          BY <1>1, <2>7
        <5> QED BY <5>2, <5>3 DEF Has, HasNotice
      <4> QED BY <4>1, <4>2
    <3> QED BY <1>3, <2>6, <3>1, <3>2 DEF Streams
  <2>12. /\ k.cursor <= Len(sent) + 1 /\ k.high_water < next_seq
         /\ \A j \in DOMAIN k.out : IsMessage(k.out[j]) => k.out[j].seq < next_seq
    BY <1>1, <2>2, <2>5, <2>7
  <2> QED BY <1>3, <2>3, <2>5, <2>8, <2>10, <2>11, <2>12, OneConnection
<1> QED BY <1>4, <1>5

\* What every step outside the connections' tasks comes down to.
LEMMA ChannelStep ==
    ASSUME IInv, Shape', Seats', HistoryIsNewestRun', Undisturbed, Logged
    PROVE  IInv'
BY LogKeeps, OutKept DEF IInv

\* A seat taken or found is announced in the log, or leaves it alone.
LEMMA SeatedLogs ==
    ASSUME Shape, NEW a \in Agents, Seated(a), UNCHANGED next_seq
    PROVE  Logged /\ sent' \in Seq(Event)
<1>1. Presence(a, "joined") \in Event /\ ~IsMessage(Presence(a, "joined"))
  BY DEF Presence, Event, IsMessage
<1>2. CASE UNCHANGED <<members, sent>>
  BY <1>2 DEF Logged, Shape
<1>3. CASE sent' = Append(sent, Presence(a, "joined"))
  BY <1>1, <1>3 DEF Logged, Shape
<1> QED BY <1>2, <1>3 DEF Seated

\* The history is what it was.
LEMMA HistoryKept ==
    ASSUME HistoryIsNewestRun, UNCHANGED <<messages, next_seq>>
    PROVE  HistoryIsNewestRun'
<1>1. OverBudget(messages)' <=> OverBudget(messages)
  OBVIOUS
<1> QED BY <1>1 DEF HistoryIsNewestRun

\* join of an agent that only takes part.
LEMMA JoinKeeps ==
    ASSUME IInv, NEW a \in Agents, join(a)
    PROVE  IInv'
<1>1. Seated(a) /\ UNCHANGED <<messages, next_seq, post, conn>> /\ Shape /\ Seats
  BY DEF join, IInv
<1>2. Seats' /\ members' \subseteq Agents
  BY <1>1, SeatedKeeps
<1>3. Logged /\ sent' \in Seq(Event)
  BY <1>1, SeatedLogs
<1>4. Shape'
  BY <1>1, <1>2, <1>3 DEF Shape
<1>5. HistoryIsNewestRun' /\ Undisturbed
  BY <1>1, HistoryKept DEF IInv, Undisturbed
<1> QED BY <1>2, <1>3, <1>4, <1>5, ChannelStep

\* leave of a member.
LEMMA LeavingKeeps ==
    ASSUME IInv, NEW a \in Agents, leave(a)
    PROVE  IInv'
<1>1. /\ a \in members /\ members' = members \ {a} /\ sent' = Append(sent, Presence(a, "left"))
      /\ UNCHANGED <<messages, next_seq, post, conn>> /\ Shape /\ Seats
  BY DEF leave, IInv
<1>2. Seats' /\ members' \subseteq Agents
  BY <1>1, LeaveKeeps
<1>3. Presence(a, "left") \in Event /\ ~IsMessage(Presence(a, "left"))
  BY DEF Presence, Event, IsMessage
<1>4. Logged /\ sent' \in Seq(Event)
  BY <1>1, <1>3 DEF Logged, Shape
<1>5. Shape'
  BY <1>1, <1>2, <1>4 DEF Shape
<1>6. HistoryIsNewestRun' /\ Undisturbed
  BY <1>1, HistoryKept DEF IInv, Undisturbed
<1> QED BY <1>2, <1>4, <1>5, <1>6, ChannelStep

\* post_message up to its first unlock.
LEMMA PostJoinKeeps ==
    ASSUME IInv, NEW p \in Posters, PostJoin(p)
    PROVE  IInv'
<1>1. UNCHANGED <<messages, next_seq, conn>> /\ Shape /\ Seats
  BY DEF PostJoin, IInv
<1>2. PICK a \in Agents, size \in Sizes :
          /\ Seated(a)
          /\ post' = [post EXCEPT ![p] = [phase |-> "seated", from |-> a, size |-> size]]
  BY DEF PostJoin
<1>3. Seats' /\ members' \subseteq Agents
  BY <1>1, <1>2, SeatedKeeps
<1>4. Logged /\ sent' \in Seq(Event)
  BY <1>1, <1>2, SeatedLogs
<1>5. [phase |-> "seated", from |-> a, size |-> size] \in Parked
  BY DEF Parked
<1>6. Shape'
  BY <1>1, <1>2, <1>3, <1>4, <1>5 DEF Shape
<1>7. HistoryIsNewestRun' /\ Undisturbed
  BY <1>1, HistoryKept DEF IInv, Undisturbed
<1> QED BY <1>3, <1>4, <1>6, <1>7, ChannelStep

\* The second critical section of post_message: number, append, evict, broadcast.
LEMMA PostAppendKeeps ==
    ASSUME IInv, NEW p \in Posters, PostAppend(p)
    PROVE  IInv'
<1> DEFINE m == [seq |-> next_seq, from |-> post[p].from, size |-> post[p].size]
           e == MessageEvent(m)
<1>1. /\ post[p] # NoPost /\ next_seq' = next_seq + 1 /\ messages' = Evicted(Append(messages, m))
      /\ sent' = Append(sent, e) /\ post' = [post EXCEPT ![p] = NoPost]
      /\ UNCHANGED <<members, conn>> /\ Shape /\ Seats /\ HistoryIsNewestRun
  BY DEF PostAppend, IInv
<1>2. post[p] \in Parked /\ next_seq \in Nat \ {0}
  BY <1>1 DEF Shape
<1>3. post[p].from \in Agents /\ post[p].size \in Sizes
  BY <1>1, <1>2 DEF Parked
<1>4. m \in Message /\ m.seq = next_seq
  BY <1>2, <1>3 DEF Message
<1>5. e \in Event /\ IsMessage(e) /\ e.seq = next_seq
  BY <1>4 DEF Event, MessageEvent, IsMessage, Message
<1>6. messages' \in Seq(Message) /\ HistoryIsNewestRun'
  BY <1>1, <1>4, PostKeepsRun
<1>7. \A b : Announced(b)' <=> Announced(b)
  BY <1>1, AnnouncedBy, PresenceDiffers
<1> HIDE DEF m, e
<1>8. Logged /\ sent' \in Seq(Event)
  BY <1>1, <1>5 DEF Logged, Shape
<1>9. Seats'
  <2>1. PresenceTellsMembership'
    BY <1>1, <1>7, MembersAnnounced DEF Seats, MembershipSound
  <2> QED BY <1>1, <2>1 DEF Seats, MembershipSound, SeatsBounded
<1>10. Shape'
  BY <1>1, <1>2, <1>6, <1>8 DEF Shape, Parked
<1>11. Undisturbed
  BY <1>1 DEF Undisturbed
<1> QED BY <1>6, <1>8, <1>9, <1>10, <1>11, ChannelStep

\* The join of a TCP subscribe.
LEMMA SubscribeJoinKeeps ==
    ASSUME IInv, NEW c \in Conns, SubscribeJoin(c)
    PROVE  IInv'
<1>1. UNCHANGED <<messages, next_seq, post>> /\ Shape /\ Seats /\ conn[c].phase = "idle"
  BY DEF SubscribeJoin, IInv
<1>2. PICK since \in Nat : conn' = [conn EXCEPT ![c].phase = "joined", ![c].since = since]
  BY ChannelBusConstants DEF SubscribeJoin
<1>3. conn \in [Conns -> Conn]
  BY <1>1 DEF Shape
<1>4. conn' \in [Conns -> Conn] /\ Undisturbed
  BY <1>1, <1>2, <1>3 DEF Conn, Undisturbed
<1>5. CASE UNCHANGED <<members, sent>>
  <2>1. Seats' /\ Shape' /\ Logged
    BY <1>1, <1>4, <1>5
       DEF Seats, MembershipSound, SeatsBounded, PresenceTellsMembership, Shape, Logged
  <2> QED BY <1>1, <1>4, <2>1, HistoryKept, ChannelStep DEF IInv
<1>6. ASSUME NEW a \in Agents, Seated(a) PROVE IInv'
  <2>1. Seats' /\ members' \subseteq Agents
    BY <1>1, <1>6, SeatedKeeps
  <2>2. Logged /\ sent' \in Seq(Event)
    BY <1>1, <1>6, SeatedLogs
  <2>3. Shape'
    BY <1>1, <1>4, <2>1, <2>2 DEF Shape
  <2> QED BY <1>1, <1>4, <2>1, <2>2, <2>3, HistoryKept, ChannelStep DEF IInv
<1> QED BY <1>5, <1>6 DEF SubscribeJoin

-----------------------------------------------------------------------------
(* The theorems *)

\* The invariant holds of an empty channel.
LEMMA InitIInv == Init => IInv
<1> SUFFICES ASSUME Init PROVE IInv
  OBVIOUS
<1>1. /\ members = {} /\ messages = <<>> /\ next_seq = 1 /\ sent = <<>>
      /\ post = [p \in Posters |-> NoPost] /\ conn = [c \in Conns |-> NewConn]
  BY DEF Init
<1>2. NewConn \in Conn /\ NewConn.phase = "idle" /\ NewConn.out = <<>> /\ NewConn.cursor = 0
      /\ NewConn.high_water = 0
  BY EmptyOut DEF NewConn, Conn
<1>3. Shape
  BY <1>1, <1>2 DEF Shape, Parked
<1>4. Seats
  <2>1. IsFiniteSet(members) /\ Cardinality(members) = 0
    BY <1>1, FS_EmptySet
  <2>2. PresenceTellsMembership
    BY <1>1 DEF PresenceTellsMembership
  <2> QED BY <2>1, <2>2, ChannelBusConstants DEF Seats, MembershipSound, SeatsBounded
<1>5. HistoryIsNewestRun
  <2>1. ~OverBudget(messages)
    BY <1>1, ChannelBusConstants DEF OverBudget
  <2> QED BY <1>1, <2>1 DEF HistoryIsNewestRun
<1>6. LogComplete
  BY <1>1 DEF LogComplete
<1>7. \A c \in Conns : conn[c] = NewConn
  BY <1>1
<1>8. Marks /\ \A c \in Conns : Waits(c) /\ Streams(c)
  BY <1>1, <1>2, <1>7 DEF Marks, Waits, Streams
<1>9. StreamFaithful
  BY <1>2, <1>7, EmptyOut, FaithfulByConn
<1> QED BY <1>3, <1>4, <1>5, <1>6, <1>8, <1>9 DEF IInv

\* Every step keeps the invariant.
LEMMA NextIInv == IInv /\ [Next]_vars => IInv'
<1> SUFFICES ASSUME IInv, [Next]_vars PROVE IInv'
  OBVIOUS
<1>1. ASSUME NEW a \in Agents, join(a) \/ leave(a) PROVE IInv'
  BY <1>1, JoinKeeps, LeavingKeeps
<1>2. ASSUME NEW p \in Posters, PostJoin(p) \/ PostAppend(p) PROVE IInv'
  BY <1>2, PostJoinKeeps, PostAppendKeeps
<1>3. ASSUME NEW c \in Conns,
             SubscribeJoin(c) \/ SubscribeCapture(c) \/ Replay(c) \/ Forward(c) \/ Disconnect(c)
      PROVE  IInv'
  BY <1>3, SubscribeJoinKeeps, CaptureKeeps, ReplayKeeps, ForwardKeeps, DisconnectKeeps
<1>4. CASE UNCHANGED vars
  <2>1. UNCHANGED <<members, messages, next_seq, sent, post, conn>> /\ Undisturbed /\ Logged
    BY <1>4 DEF vars, Undisturbed, Logged
  <2>2. Seats' /\ Shape' /\ HistoryIsNewestRun'
    BY <2>1, HistoryKept
       DEF IInv, Seats, MembershipSound, SeatsBounded, PresenceTellsMembership, Shape
  <2> QED BY <2>1, <2>2, ChannelStep
<1> QED BY <1>1, <1>2, <1>3, <1>4 DEF Next

\* The invariant holds in every reachable state.
THEOREM Invariance == Spec => []IInv
BY InitIInv, NextIInv, PTL DEF Spec

\* Every handler and task leaves the channel and its connections in their
\* domains; no receiver's cursor or mark ever lies beyond the log.
THEOREM TypeCorrect == Spec => []TypeOK
<1>1. IInv => TypeOK
  <2> SUFFICES ASSUME IInv PROVE TypeOK
    OBVIOUS
  <2>1. Shape /\ Marks
    BY DEF IInv
  <2>2. \A i \in DOMAIN sent : IsMessage(sent[i]) \/ IsPresence(sent[i])
    BY <2>1, ElementOfSeq DEF Shape, Event, IsMessage, IsPresence
  <2>3. \A p \in Posters : post[p].phase \in {"idle", "seated"}
    BY <2>1 DEF Shape, Parked, NoPost
  <2>4. Len(sent) \in Nat /\ next_seq \in Nat \ {0}
    BY <2>1 DEF Shape
  <2>5. \A c \in Conns :
          /\ conn[c].phase \in {"idle", "joined", "captured", "live", "closed"}
          /\ conn[c].cursor \in 0 .. Len(sent) + 1
          /\ conn[c].high_water \in 0 .. next_seq - 1
    BY <2>1, <2>4 DEF Shape, Conn, Marks
  <2> QED BY <2>1, <2>2, <2>3, <2>5 DEF TypeOK, Shape
<1> QED BY <1>1, Invariance, PTL

\* state.rs, join, post_message and subscribe: however their sections interleave,
\* no more than MAX_MEMBERS agents are seated, and the presence events broadcast
\* under the lock tell exactly who is.
THEOREM SeatsAndPresenceAgree == Spec => []MembershipSound
<1>1. IInv => MembershipSound
  BY DEF IInv, Seats
<1> QED BY <1>1, Invariance, PTL

\* state.rs, post_message: the retained history is the unbroken run of the newest
\* messages within its count and byte limits, and never empty once one was posted.
THEOREM HistoryIsARun == Spec => []HistoryIsNewestRun
<1>1. IInv => HistoryIsNewestRun
  BY DEF IInv
<1> QED BY <1>1, Invariance, PTL

\* tcp.rs and http.rs, the forwarders: for every ring capacity and history limit,
\* a client gets no message twice or out of order, and none of the live part is
\* left out without a lagged notice.
THEOREM StreamsAreFaithful == Spec => []StreamFaithful
<1>1. IInv => StreamFaithful
  BY DEF IInv
<1> QED BY <1>1, Invariance, PTL

(***************************************************************************)
(* AccessControl: who may use the channels.  A line over TCP and its twin   *)
(* over HTTP ask for the same scope in the name of the same agent, so the   *)
(* two transports cannot differ in what they let through.                   *)
(***************************************************************************)

\* How the segments of a path are compared.
LEMMA PathFacts ==
    /\ \A a, d : Len(<<a>>) = 1 /\ (EndsWith(<<a>>, <<d>>) <=> a = d)
    /\ \A a, b, d : Len(<<a, b>>) = 2 /\ (EndsWith(<<a, b>>, <<d>>) <=> b = d)
    /\ \A a, b, c, d : Len(<<a, b, c>>) = 3 /\ (EndsWith(<<a, b, c>>, <<d>>) <=> c = d)
<1>1. ASSUME NEW a, NEW d
      PROVE  EndsWith(<<a>>, <<d>>) <=> a = d
  <2>1. Reverse(<<a>>) = <<a>> /\ Reverse(<<d>>) = <<d>>
    BY DEF Reverse
  <2> QED BY <2>1 DEF EndsWith, IsSuffix, IsPrefix
<1>2. ASSUME NEW a, NEW b, NEW d
      PROVE  EndsWith(<<a, b>>, <<d>>) <=> b = d
  <2>1. Reverse(<<a, b>>) = <<b, a>> /\ Reverse(<<d>>) = <<d>>
    BY DEF Reverse
  <2> QED BY <2>1 DEF EndsWith, IsSuffix, IsPrefix
<1>3. ASSUME NEW a, NEW b, NEW c, NEW d
      PROVE  EndsWith(<<a, b, c>>, <<d>>) <=> c = d
  <2>1. Reverse(<<a, b, c>>) = <<c, b, a>> /\ Reverse(<<d>>) = <<d>>
    BY DEF Reverse
  <2>2. /\ Len(<<d>>) = 1 /\ Len(<<c, b, a>>) = 3
    OBVIOUS
  <2>4. /\ SubSeq(<<d>>, 1, 1) = [i \in 1..1 |-> d]
        /\ SubSeq(<<c, b, a>>, 1, 1) = [i \in 1..1 |-> c]
    OBVIOUS
  <2>3. IsPrefix(<<d>>, <<c, b, a>>) <=> c = d
    BY <2>2, <2>4 DEF IsPrefix
  <2> QED BY <2>1, <2>3 DEF EndsWith, IsSuffix
<1> QED BY <1>1, <1>2, <1>3

\* The route of a TCP operation asks for the same scope, names the agent by the field that
\* the handler reads, and is not public.
LEMMA TwinRoute ==
    ASSUME NEW q, q.op \in TcpOps
    PROVE  /\ access_rule(MethodOf(q.op), PathOf(q))
                = Rule(TcpRule(q).scope, IF q.op \in NamingOps THEN HandlerField(q.op) ELSE None)
           /\ ~is_public_path(PathOf(q))
           /\ is_context_write(MethodOf(q.op), PathOf(q)) <=> q.op = "set_context"
<1>1. CASE q.op = "register"
  BY <1>1, PathFacts DEF MethodOf, PathOf, access_rule, TcpRule, HandlerField, NamingOps,
     Rule, is_public_path, is_context_write, Under
<1>2. CASE q.op \in {"list_channels", "create_channel"}
  BY <1>2, PathFacts DEF MethodOf, PathOf, access_rule, ChannelRule, TcpRule, HandlerField,
     NamingOps, Rule, is_public_path, is_context_write, Under
<1>3. CASE q.op \in {"search", "resolve"}
  BY <1>3, PathFacts DEF MethodOf, PathOf, access_rule, ChannelRule, TcpRule, HandlerField,
     NamingOps, Rule, is_public_path, is_context_write, Under
<1>4. CASE q.op \in {"history", "post"}
  BY <1>4, PathFacts DEF MethodOf, PathOf, access_rule, ChannelRule, TcpRule, HandlerField,
     NamingOps, Rule, is_public_path, is_context_write, Under
<1>5. CASE q.op \in {"subscribe", "members"}
  BY <1>5, PathFacts DEF MethodOf, PathOf, access_rule, ChannelRule, TcpRule, HandlerField,
     NamingOps, Rule, is_public_path, is_context_write, Under
<1>6. CASE q.op \in {"get_context", "set_context"}
  BY <1>6, PathFacts DEF MethodOf, PathOf, access_rule, ChannelRule, TcpRule, HandlerField,
     NamingOps, Rule, is_public_path, is_context_write, Under
<1>7. CASE q.op \in {"join", "leave"}
  BY <1>7, PathFacts DEF MethodOf, PathOf, access_rule, ChannelRule, TcpRule, HandlerField,
     NamingOps, Rule, is_public_path, is_context_write, Under
<1> QED BY <1>1, <1>2, <1>3, <1>4, <1>5, <1>6, <1>7 DEF TcpOps, NamingOps

LEMMA TcpScopeIsKnown ==
    ASSUME NEW q, q.op \in TcpOps
    PROVE  /\ TcpRule(q).scope \in KNOWN_SCOPES
           /\ q.op \in NamingOps => HandlerField(q.op) \in Fields /\ TcpRule(q).identity_field = q.agent
BY DEF TcpOps, NamingOps, TcpRule, Rule, KNOWN_SCOPES, HandlerField, Fields

\* What the middleware makes of the HTTP twin of a line, for a token that is not the
\* operator's when there are scoped credentials.
LEMMA TwinEnforced ==
    ASSUME NEW s, NEW q, q.op \in TcpOps, NEW token, token # None,
           scoped_mode(s), ~is_admin_token(s, token)
    PROVE  /\ enforce(s, HttpOf(q, token)).passed <=>
                   /\ ~(q.op = "set_context" /\ q.key # None /\ is_reserved_context_key(q.key))
                   /\ authenticate(s, token) # None
                   /\ TcpRule(q).scope \in authenticate(s, token).scopes
                   /\ q.op \in NamingOps => q.agent = authenticate(s, token).agent_key
           /\ enforce(s, HttpOf(q, token)).passed => auth(s, enforce(s, HttpOf(q, token)))
<1> DEFINE h    == HttpOf(q, token)
           rule == access_rule(h.method, h.path)
           who  == authenticate(s, token)
<1>1. /\ h.method = MethodOf(q.op) /\ h.path = PathOf(q) /\ h.token = token /\ ~h.too_large
      /\ h.body = [f \in Fields \cup {"key"} |->
                      IF f = "key" THEN q.key
                      ELSE IF f = HandlerField(q.op) THEN q.agent ELSE "nobody"]
  BY DEF HttpOf
<1>2. /\ rule = Rule(TcpRule(q).scope, IF q.op \in NamingOps THEN HandlerField(q.op) ELSE None)
      /\ ~is_public_path(h.path)
      /\ is_context_write(h.method, h.path) <=> q.op = "set_context"
  BY <1>1, TwinRoute
<1>3. /\ rule # None /\ rule.scope = TcpRule(q).scope
      /\ rule.identity_field # None <=> q.op \in NamingOps
      /\ q.op \in NamingOps => rule.identity_field = HandlerField(q.op)
  BY <1>2, TcpScopeIsKnown, NoneAssumption DEF Rule
<1>4. q.op \in NamingOps => FieldOf(h.body, HandlerField(q.op)) = q.agent
  BY <1>1, TcpScopeIsKnown DEF FieldOf, Fields
<1>5. contains_reserved_context_key(h.body) <=> q.key # None /\ is_reserved_context_key(q.key)
  BY <1>1 DEF contains_reserved_context_key, FieldOf
<1> HIDE DEF h, rule, who
<1>6. enforce(s, h).passed <=>
        /\ ~(q.op = "set_context" /\ q.key # None /\ is_reserved_context_key(q.key))
        /\ who # None /\ rule.scope \in who.scopes
        /\ q.op \in NamingOps => q.agent = who.agent_key
  BY <1>1, <1>2, <1>3, <1>4, <1>5 DEF enforce, Denied, Passed, rule, who
<1>7. enforce(s, h).passed => auth(s, enforce(s, h))
  BY <1>1, <1>2 DEF enforce, Denied, Passed, auth
<1> QED BY <1>3, <1>6, <1>7 DEF h, who

\* Without scoped credentials, and for the operator, only the reserved keys are closed.
LEMMA TwinUnscoped ==
    ASSUME NEW s, NEW q, q.op \in TcpOps, NEW token, token # None,
           ~scoped_mode(s) \/ is_admin_token(s, token),
           s.global_bearer \in {None, token},
           q.op = "set_context" => ~is_reserved_context_key(q.key)
    PROVE  HttpAllows(s, HttpOf(q, token))
<1> DEFINE h == HttpOf(q, token)
<1>1. /\ h.method = MethodOf(q.op) /\ h.path = PathOf(q) /\ h.token = token /\ ~h.too_large
      /\ h.body = [f \in Fields \cup {"key"} |->
                      IF f = "key" THEN q.key
                      ELSE IF f = HandlerField(q.op) THEN q.agent ELSE "nobody"]
  BY DEF HttpOf
<1>2. is_context_write(h.method, h.path) <=> q.op = "set_context"
  BY <1>1, TwinRoute
<1>3. contains_reserved_context_key(h.body) => is_reserved_context_key(q.key)
  BY <1>1 DEF contains_reserved_context_key, FieldOf
<1> HIDE DEF h
<1>4. enforce(s, h) = Passed(None, token)
  BY <1>1, <1>2, <1>3 DEF enforce
<1> QED BY <1>4 DEF HttpAllows, auth, Passed, h

\* A principal that a token gives is what the token is authenticated as.
LEMMA PrincipalFacts ==
    ASSUME NEW s, NEW q, NEW token, authentication_required(s), ~is_admin_token(s, token),
           TcpAllows(TcpPrincipal_authenticate(s, initial(s), token), q)
    PROVE  /\ authenticate(s, token) # None /\ scoped_mode(s)
           /\ authorize_adapter(authenticate(s, token), q)
<1> DEFINE who == authenticate(s, token)
           principal == TcpPrincipal_authenticate(s, initial(s), token)
<1>1. initial(s) = Unauthenticated /\ Candidate(s, token) = who
  BY DEF initial, Candidate, authenticate_principal
<1>2. principal # Unauthenticated
  <2>1. Unauthenticated.kind # Open.kind /\ Unauthenticated.kind # Operator.kind
    BY DEF Unauthenticated, Open, Operator
  <2>2. Unauthenticated \notin {Open, Operator}
    BY <2>1
  <2>3. ~authorize(Unauthenticated, q)
    BY <2>2 DEF authorize
  <2> QED BY <2>3 DEF TcpAllows
<1>3. who # None /\ principal = who
  BY <1>1, <1>2 DEF TcpPrincipal_authenticate
<1>4. who.kind = "adapter"
  BY <1>3 DEF authenticate
<1>5. who \notin {Unauthenticated, Open, Operator}
  BY <1>4 DEF Unauthenticated, Open, Operator
<1>6. authorize_adapter(who, q)
  BY <1>3, <1>5 DEF TcpAllows, authorize
<1>7. scoped_mode(s)
  BY <1>3 DEF scoped_mode, authenticate
<1> QED BY <1>3, <1>6, <1>7

\* Whatever credentials and bearer the process was given, a token that may do something
\* over TCP may do the same over HTTP, in the name of the same agent.
THEOREM TcpIsWithinHttp ==
    ASSUME NEW s, NEW q, q.op \in TcpOps, q.op \in NamingOps => q.agent # None,
           NEW token, token # None
    PROVE  TcpWithinHttp(s, q, token)
<1> SUFFICES ASSUME TcpAllows(TcpPrincipal_authenticate(s, initial(s), token), q)
             PROVE  HttpAllows(s, HttpOf(q, token))
  BY DEF TcpWithinHttp
<1>1. q.op = "set_context" => ~is_reserved_context_key(q.key)
  BY DEF TcpAllows
<1>2. CASE ~authentication_required(s)
  BY <1>1, <1>2, TwinUnscoped DEF authentication_required
<1>3. CASE is_admin_token(s, token)
  BY <1>1, <1>3, TwinUnscoped DEF is_admin_token
<1>4. CASE authentication_required(s) /\ ~is_admin_token(s, token)
  <2>1. /\ authenticate(s, token) # None /\ scoped_mode(s)
        /\ TcpRule(q).scope \in authenticate(s, token).scopes
        /\ TcpRule(q).identity_field \in {None, authenticate(s, token).agent_key}
    BY <1>4, PrincipalFacts DEF authorize_adapter
  <2>2. q.op \in NamingOps => q.agent = authenticate(s, token).agent_key
    BY <2>1, TcpScopeIsKnown
  <2> QED BY <1>1, <1>4, <2>1, <2>2, TwinEnforced DEF HttpAllows
<1> QED BY <1>2, <1>3, <1>4

\* Among the credentials the process accepted, a token is one agent's: it is authenticated
\* as that agent, and no request that names another one passes with it, over TCP whatever
\* it asks for, over HTTP unless it opens a stream.
THEOREM TokenStandsForOne ==
    ASSUME NEW bearer, NEW document, NEW s, s = from_optional_json(bearer, document), s # None,
           s.credentials \in Seq([token_id : Texts, token : Texts, agent_key : Texts,
                                  scopes : SUBSET KNOWN_SCOPES, enabled : BOOLEAN]),
           None \notin Texts, NEW c \in ToSet(s.credentials), NEW lines
    PROVE  StandsForOne(s, c, {q \in lines : q.op \in TcpOps})
<1>0. CredentialsAccepted(s.global_bearer, s.credentials)
  BY DEF from_optional_json
<1>1. PICK i \in DOMAIN s.credentials : c = s.credentials[i]
  BY DEF ToSet
<1>2. i \in Int
  BY <1>1
<1>3. \A j \in DOMAIN s.credentials : s.credentials[j].token = c.token => j = i
  BY <1>0, <1>1 DEF CredentialsAccepted, IsInjective
<1>4. {j \in DOMAIN s.credentials : s.credentials[j].token = c.token} = {i}
  BY <1>1, <1>3
<1>5. Min({i}) = i
  BY <1>2 DEF Min
<1>6. authenticate(s, c.token)
        = [kind |-> "adapter", token_id |-> c.token_id, agent_key |-> c.agent_key,
           scopes |-> c.scopes]
  BY <1>1, <1>4, <1>5 DEF authenticate
<1>7. ~is_admin_token(s, c.token) /\ c.token # None /\ scoped_mode(s)
  BY <1>0, <1>1 DEF is_admin_token, CredentialsAccepted, scoped_mode
<1>8. authenticate_principal(s, c.token).agent_key = c.agent_key
  BY <1>6, <1>7 DEF authenticate_principal
<1>9. ASSUME NEW q, q.op \in TcpOps, HttpAllows(s, HttpOf(q, c.token))
      PROVE  Names(q) \in {None, c.agent_key} \/ q.op = "subscribe"
  <2>1. enforce(s, HttpOf(q, c.token)).passed
    BY <1>9 DEF HttpAllows
  <2>2. q.op \in NamingOps => q.agent = authenticate(s, c.token).agent_key
    BY <1>7, <1>9, <2>1, TwinEnforced
  <2> QED BY <1>6, <2>2 DEF Names
<1>10. ASSUME NEW q, q.op \in TcpOps,
              TcpAllows(TcpPrincipal_authenticate(s, initial(s), c.token), q)
       PROVE  Names(q) \in {None, c.agent_key}
  <2>1. authentication_required(s)
    BY <1>7 DEF authentication_required
  <2>2. TcpRule(q).identity_field \in {None, c.agent_key}
    BY <1>6, <1>7, <1>10, <2>1, PrincipalFacts DEF authorize_adapter
  <2>3. q.op \in NamingOps \cup {"subscribe"} => TcpRule(q).identity_field = q.agent
    BY DEF NamingOps, TcpRule, Rule
  <2> QED BY <2>2, <2>3 DEF Names
<1> QED BY <1>8, <1>9, <1>10 DEF StandsForOne

\* Once a connection has a principal, a further token leaves it alone.
LEMMA PrincipalStays ==
    ASSUME NEW s, NEW principal, principal # Unauthenticated, NEW token
    PROVE  TcpPrincipal_authenticate(s, principal, token) = principal
BY DEF TcpPrincipal_authenticate
=============================================================================
