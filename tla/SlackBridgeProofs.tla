-------------------------- MODULE SlackBridgeProofs --------------------------
(***************************************************************************)
(* Proofs about SlackBridge, for every set of messages, modals, settings    *)
(* and every number of deliveries, failures and crashes.                    *)
(*                                                                         *)
(* A record is the claim of an id: only the claimer of an unknown id makes  *)
(* a worker, and an id that became known stays known, because a journal     *)
(* that could have lost its line cannot be opened again.  The worker alone  *)
(* writes what was posted, after the post; what it carries in memory and    *)
(* what the record says differ only in the last loop.                       *)
(***************************************************************************)
EXTENDS SlackBridge, FiniteSetTheorems, TLAPS

-----------------------------------------------------------------------------
(* The inductive invariant *)

\* The deliveries in hand have numbers of their own, and ask for what Slack delivered.
Numbered ==
    /\ IsFiniteSet(holding) /\ checked \cap holding = {}
    /\ \A d \in checked \cup holding :
        /\ d.no < bound.deliveries
        /\ d.id \in Messages => d.sel = Addressed(d.id)

\* A restart finds the id, or does not happen.
Durable(i) == tail = "corrupt" \/ disk[i].state # "none"

\* What became known of an id stays known to the process and to the journal.
Known(i) ==
    /\ work[i].pc # "idle" => rec[i].state \in {"claimed", "workflow_created"}
    /\ i \in cancelling => rec[i].state # "none"
    /\ rec[i].state # "none" => up /\ Durable(i)
    /\ up /\ rec[i].state = "none" => disk[i].state \in {"none", "claimed"}
    /\ i \in acked \/ flow[i].made > 0 => Durable(i) /\ (up => rec[i].state # "none")

\* An id has no workflow before its worker asks for one.
Made(i) ==
    /\ flow[i].made <= 1
    /\ work[i].pc \in {"create", "announce", "dispatch"} => flow[i].made = 0

\* What a worker carries.
MessageStages == {"create", "start_failure", "poll", "fetch", "post", "final"}
Carries(i) ==
    LET w == work[i]
    IN  /\ w.pc # "idle" => (w.pc \in MessageStages <=> i \in Messages)
        /\ w.pc \in MessageStages =>
            /\ w.sel = Addressed(i) /\ w.todo \subseteq w.sel /\ w.sel \subseteq Pair
            /\ rec[i].posted \subseteq w.sel
        /\ w.pc \in MessageStages \ {"final"} => w.posted = rec[i].posted
        /\ w.pc \in {"poll", "fetch", "post", "final"} => w.sel = Pair

\* What a record says was posted is in the thread, and a completed one is complete.
Told(i, m) == {<<m, "reply">>, <<m, "failure">>} \cap thread[i] # {}
Truthful(i, r) ==
    /\ \A m \in r.posted : Told(i, m)
    /\ r.state = "completed" /\ ~dry_run => work[i].pc = "idle" /\ r.posted = Addressed(i)

Each(i) ==
    /\ Known(i) /\ Made(i) /\ Carries(i)
    /\ i \in Messages => Truthful(i, rec[i]) /\ Truthful(i, disk[i])

IInv == TypeOK /\ Numbered /\ PermitsConserved /\ \A i \in Ids : Each(i)

-----------------------------------------------------------------------------
(* Facts about the operators *)

\* Once the journal cannot be read it stays so, and a line that was logged is there,
\* or the journal cannot be read.
LEMMA JournalFacts ==
    ASSUME TypeOK, NEW i \in Ids, NEW r \in EventRecord, NEW ok \in BOOLEAN, Journaled(i, r, ok)
    PROVE  /\ rec' = [rec EXCEPT ![i] = IF ok THEN r ELSE rec[i]]
           /\ \E l \in {r, disk[i]} : disk' = [disk EXCEPT ![i] = l]
           /\ tail' \in {"clean", "unterminated", "corrupt"}
           /\ tail = "corrupt" => tail' = "corrupt"
           /\ ok => tail' = "corrupt" \/ disk'[i] = r
           /\ bound' \in Counts /\ bound'.deliveries = bound.deliveries
<1>0. /\ disk = [disk EXCEPT ![i] = disk[i]] /\ rec = [rec EXCEPT ![i] = rec[i]]
      /\ bound.troubles + 1 \in Nat
  BY DEF TypeOK, Counts
<1>1. ASSUME NEW what \in {"line", "nothing", "part", "no_newline"}, Wrote(i, r, what)
      PROVE  /\ \E l \in {r, disk[i]} : disk' = [disk EXCEPT ![i] = l]
             /\ tail' \in {"clean", "unterminated", "corrupt"}
             /\ tail = "corrupt" => tail' = "corrupt"
             /\ what = "line" => tail' = "corrupt" \/ disk'[i] = r
  <2>1. CASE tail = "corrupt"
    BY <1>0, <1>1, <2>1 DEF Wrote, TypeOK
  <2>2. CASE tail = "unterminated"
    BY <1>0, <1>1, <2>2 DEF Wrote, TypeOK
  <2>3. CASE tail = "clean"
    <3>1. CASE what = "part"
      BY <1>0, <1>1, <2>3, <3>1 DEF Wrote, TypeOK
    <3>2. CASE what = "nothing"
      BY <1>0, <1>1, <2>3, <3>2 DEF Wrote, TypeOK
    <3>3. CASE what = "no_newline"
      BY <1>0, <1>1, <2>3, <3>3 DEF Wrote, TypeOK
    <3>4. CASE what = "line"
      BY <1>0, <1>1, <2>3, <3>4 DEF Wrote, TypeOK
    <3> QED BY <1>1, <3>1, <3>2, <3>3, <3>4
  <2> QED BY <2>1, <2>2, <2>3 DEF TypeOK
<1>2. CASE ok
  BY <1>0, <1>1, <1>2 DEF Journaled, Logged, TypeOK, Counts
<1>3. CASE ~ok
  BY <1>0, <1>1, <1>3 DEF Journaled, NotLogged, Trouble, TypeOK, Counts
<1> QED BY <1>2, <1>3

\* The same of a line that is written for sure, and of a step without one.
LEMMA LoggedFacts ==
    ASSUME TypeOK, NEW i \in Ids, NEW r \in EventRecord, Logged(i, r)
    PROVE  /\ rec' = [rec EXCEPT ![i] = r]
           /\ \E l \in {r, disk[i]} : disk' = [disk EXCEPT ![i] = l]
           /\ tail' \in {"clean", "unterminated", "corrupt"}
           /\ tail = "corrupt" => tail' = "corrupt"
           /\ tail' = "corrupt" \/ disk'[i] = r
<1>0. disk = [disk EXCEPT ![i] = disk[i]]
  BY DEF TypeOK
<1> QED BY <1>0 DEF Logged, Wrote, TypeOK

LEMMA TroubleFacts ==
    ASSUME TypeOK, Trouble
    PROVE  bound' \in Counts /\ bound'.deliveries = bound.deliveries
<1>1. bound.troubles + 1 \in Nat
  BY DEF TypeOK, Counts
<1> QED BY <1>1 DEF TypeOK, Counts, Trouble

-----------------------------------------------------------------------------
(* Steps that touch one id *)

\* What a step that touches one id leaves alone.
Local(i) ==
    /\ dry_run' = dry_run /\ up' = up
    /\ checked' = checked /\ holding' = holding
    /\ bound' \in Counts /\ bound'.deliveries = bound.deliveries
    /\ work' = [work EXCEPT ![i] = work'[i]] /\ flow' = [flow EXCEPT ![i] = flow'[i]]
    /\ thread' = [thread EXCEPT ![i] = thread'[i]]

\* What it writes there is well typed.
Typed(i) ==
    work'[i] \in WorkerState /\ flow'[i] \in FlowState /\ thread'[i] \subseteq Replies

\* At most one record is written, to the memory, to the file or to both.
Writes(i, r) ==
    /\ rec' = [rec EXCEPT ![i] = rec'[i]] /\ rec'[i] \in {rec[i], r}
    /\ disk' = [disk EXCEPT ![i] = disk'[i]] /\ disk'[i] \in {disk[i], r}
    /\ tail' \in {"clean", "unterminated", "corrupt"}
    /\ tail = "corrupt" => tail' = "corrupt"

\* A record that is written now is true when the step is done.
TruthfulAfter(i, r) ==
    /\ \A m \in r.posted : Told(i, m)'
    /\ r.state = "completed" /\ ~dry_run => work'[i].pc = "idle" /\ r.posted = Addressed(i)

Busy == {i \in Ids : work[i].pc # "idle"}

\* The three ways a worker's step treats the journal.
LEMMA WritesFacts ==
    ASSUME TypeOK, NEW i \in Ids
    PROVE  /\ \A r \in EventRecord : \A ok \in BOOLEAN :
                Journaled(i, r, ok) =>
                    Writes(i, r) /\ bound' \in Counts /\ bound'.deliveries = bound.deliveries
           /\ \A r \in EventRecord : Logged(i, r) => Writes(i, r)
           /\ UNCHANGED <<rec, disk, tail>> => Writes(i, rec[i])
           /\ rec[i] \in EventRecord
<1>0. rec \in [Ids -> EventRecord] /\ disk \in [Ids -> EventRecord]
  BY DEF TypeOK
<1>1. ASSUME NEW r \in EventRecord, NEW ok \in BOOLEAN, Journaled(i, r, ok)
      PROVE  Writes(i, r) /\ bound' \in Counts /\ bound'.deliveries = bound.deliveries
  <2>1. /\ rec' = [rec EXCEPT ![i] = IF ok THEN r ELSE rec[i]]
        /\ \E l \in {r, disk[i]} : disk' = [disk EXCEPT ![i] = l]
        /\ tail' \in {"clean", "unterminated", "corrupt"}
        /\ tail = "corrupt" => tail' = "corrupt"
        /\ bound' \in Counts /\ bound'.deliveries = bound.deliveries
    BY <1>1, JournalFacts
  <2> QED BY <1>0, <2>1 DEF Writes
<1>2. ASSUME NEW r \in EventRecord, Logged(i, r)
      PROVE  Writes(i, r)
  <2>1. /\ rec' = [rec EXCEPT ![i] = r]
        /\ \E l \in {r, disk[i]} : disk' = [disk EXCEPT ![i] = l]
        /\ tail' \in {"clean", "unterminated", "corrupt"}
        /\ tail = "corrupt" => tail' = "corrupt"
    BY <1>2, LoggedFacts
  <2> QED BY <1>0, <2>1 DEF Writes
<1>3. ASSUME UNCHANGED <<rec, disk, tail>>
      PROVE  Writes(i, rec[i])
  BY <1>0, <1>3 DEF Writes, TypeOK
<1> QED BY <1>0, <1>1, <1>2, <1>3

\* An id that a step does not touch keeps its part of the invariant.
LEMMA OthersKeep ==
    ASSUME NEW j \in Ids, Each(j), dry_run' = dry_run, up' = up,
           j \in cancelling' => j \in cancelling, j \in acked' => j \in acked,
           work'[j] = work[j], flow'[j] = flow[j], thread'[j] = thread[j],
           rec'[j] = rec[j], disk'[j] = disk[j], tail = "corrupt" => tail' = "corrupt"
    PROVE  Each(j)'
<1>1. Known(j)' /\ Made(j)'
  BY DEF Each, Known, Made, Durable
<1>2. Carries(j)'
  BY DEF Each, Carries
<1>3. j \in Messages => Truthful(j, rec[j])' /\ Truthful(j, disk[j])'
  BY DEF Each, Truthful, Told
<1> QED BY <1>1, <1>2, <1>3 DEF Each

\* A permit is with the one who had it, or is free again.
LEMMA PermitsFollow ==
    ASSUME IInv, NEW i \in Ids, i \in Busy, Local(i), Typed(i),
           permits' = IF work'[i].pc = "idle" THEN permits + 1 ELSE permits
    PROVE  PermitsConserved' /\ permits' \in 0..MaxConcurrent
<1>1. IsFiniteSet(Ids) /\ MaxConcurrent \in Nat
  BY SlackBridgeAssumption DEF Ids
<1>2. IsFiniteSet(Busy) /\ Busy \subseteq Ids
  BY <1>1, FS_Subset DEF Busy
<1>3. IsFiniteSet(holding) /\ permits \in Nat
  BY DEF IInv, Numbered, TypeOK
<1>4. Cardinality(Busy) \in Nat /\ Cardinality(holding) \in Nat
  BY <1>2, <1>3, FS_CardinalityType
<1>5. permits + Cardinality(Busy) + Cardinality(holding) = MaxConcurrent
  BY DEF IInv, PermitsConserved, Busy
<1>6. Busy' = IF work'[i].pc = "idle" THEN Busy \ {i} ELSE Busy
  BY DEF Busy, Local, IInv, TypeOK
<1>7. IsFiniteSet(Busy \ {i}) /\ Cardinality(Busy \ {i}) = Cardinality(Busy) - 1
  BY <1>2, FS_RemoveElement
<1>8. Cardinality(Busy \ {i}) \in Nat
  BY <1>7, FS_CardinalityType
<1>9. permits' + Cardinality(Busy') + Cardinality(holding') = MaxConcurrent
  <2>1. CASE work'[i].pc = "idle"
    BY <1>3, <1>4, <1>5, <1>6, <1>7, <1>8, <2>1 DEF Local
  <2>2. CASE work'[i].pc # "idle"
    BY <1>3, <1>4, <1>5, <1>6, <2>2 DEF Local
  <2> QED BY <2>1, <2>2
<1>10. PermitsConserved'
  BY <1>9 DEF PermitsConserved, Busy
<1>11. Cardinality(Busy') \in Nat
  BY <1>4, <1>6, <1>8
<1>12. permits' \in 0..MaxConcurrent
  BY <1>1, <1>3, <1>4, <1>9, <1>11 DEF Local
<1> QED BY <1>10, <1>12

\* A step of one id's worker keeps the invariant when it does so for that id.
LEMMA WorkerKeeps ==
    ASSUME IInv, NEW i \in Ids, i \in Busy, Local(i), Typed(i),
           cancelling' = cancelling, acked' = acked,
           NEW r \in EventRecord, Writes(i, r), r.state # "none",
           permits' = IF work'[i].pc = "idle" THEN permits + 1 ELSE permits,
           work'[i].pc # "idle" => r.state \in {"claimed", "workflow_created"},
           Made(i)', Carries(i)',
           thread[i] \subseteq thread'[i],
           i \in Messages => TruthfulAfter(i, r)
    PROVE  IInv'
<1>1. /\ work \in [Ids -> WorkerState] /\ flow \in [Ids -> FlowState]
      /\ rec \in [Ids -> EventRecord] /\ disk \in [Ids -> EventRecord]
      /\ thread \in [Ids -> SUBSET Replies]
  BY DEF IInv, TypeOK
<1>2. permits' \in 0..MaxConcurrent /\ PermitsConserved'
  BY PermitsFollow
<1>3. TypeOK'
  <2>1. /\ work' \in [Ids -> WorkerState] /\ flow' \in [Ids -> FlowState]
        /\ thread' \in [Ids -> SUBSET Replies]
    BY <1>1 DEF Local, Typed
  <2>2. rec' \in [Ids -> EventRecord] /\ disk' \in [Ids -> EventRecord]
    BY <1>1 DEF Writes
  <2> QED BY <1>2, <2>1, <2>2 DEF TypeOK, IInv, Local, Writes
<1>4. Numbered'
  BY DEF IInv, Numbered, Local
<1>5. Each(i)'
  <2>1. Each(i) /\ work[i].pc # "idle"
    BY DEF IInv, Busy
  <2>2. rec[i].state \in {"claimed", "workflow_created"} /\ up /\ Durable(i)
    BY <2>1 DEF Each, Known
  <2>3. Known(i)'
    <3>1. rec'[i].state # "none" /\ Durable(i)'
      BY <2>2 DEF Writes, Durable
    <3>2. work'[i].pc # "idle" => rec'[i].state \in {"claimed", "workflow_created"}
      BY <2>2 DEF Writes
    <3> QED BY <2>2, <3>1, <3>2 DEF Known, Local
  <2>4. i \in Messages => Truthful(i, rec[i])' /\ Truthful(i, disk[i])'
    <3>0. HAVE i \in Messages
    <3>1. Truthful(i, rec[i]) /\ Truthful(i, disk[i])
      BY <2>1, <3>0 DEF Each
    <3>2. /\ \A m \in rec[i].posted : Told(i, m)'
          /\ ~(rec[i].state = "completed" /\ ~dry_run)
      BY <2>1, <3>1 DEF Truthful, Told
    <3>3. /\ \A m \in disk[i].posted : Told(i, m)'
          /\ ~(disk[i].state = "completed" /\ ~dry_run)
      BY <2>1, <3>1 DEF Truthful, Told
    <3>4. /\ \A m \in r.posted : Told(i, m)'
          /\ r.state = "completed" /\ ~dry_run => work'[i].pc = "idle" /\ r.posted = Addressed(i)
      BY <3>0 DEF TruthfulAfter
    <3> QED BY <3>2, <3>3, <3>4 DEF Truthful, Local, Writes
  <2> QED BY <2>3, <2>4 DEF Each
<1>6. ASSUME NEW j \in Ids, j # i
      PROVE  Each(j)'
  <2>1. /\ work'[j] = work[j] /\ flow'[j] = flow[j] /\ thread'[j] = thread[j]
        /\ rec'[j] = rec[j] /\ disk'[j] = disk[j]
    BY <1>1, <1>6 DEF Local, Writes
  <2> QED BY <1>6, <2>1, OthersKeep DEF Local, Writes, IInv
<1> QED BY <1>2, <1>3, <1>4, <1>5, <1>6 DEF IInv
-----------------------------------------------------------------------------
(* The worker of a message *)

\* What the invariant says of an id whose worker runs.
LEMMA BusyFacts ==
    ASSUME IInv, NEW i \in Ids, work[i].pc # "idle"
    PROVE  /\ TypeOK /\ i \in Busy
           /\ work[i] \in WorkerState /\ flow[i] \in FlowState /\ thread[i] \subseteq Replies
           /\ rec[i] \in EventRecord /\ rec[i].state \in {"claimed", "workflow_created"}
           /\ work \in [Ids -> WorkerState] /\ flow \in [Ids -> FlowState]
           /\ thread \in [Ids -> SUBSET Replies]
           /\ Made(i) /\ Carries(i)
           /\ i \in Messages => \A m \in rec[i].posted : Told(i, m)
BY DEF IInv, TypeOK, Busy, Each, Known, Truthful

\* The two configured models.
LEMMA PairFacts ==
    /\ Pair \subseteq Models /\ Cardinality(Pair) = 2
    /\ \A S, T : S \subseteq T /\ T \subseteq Pair /\ Cardinality(S) = Cardinality(T) => S = T
<1>1. Pair \subseteq Models /\ models[1] # models[2]
  BY SlackBridgeAssumption
<1>2. IsFiniteSet(Pair) /\ Cardinality(Pair) = 2
  <2>1. IsFiniteSet({models[1]}) /\ Cardinality({models[1]}) = 1
    BY FS_Singleton
  <2>2. /\ IsFiniteSet({models[1]} \cup {models[2]})
        /\ Cardinality({models[1]} \cup {models[2]}) = 2
    BY <1>1, <2>1, FS_AddElement
  <2>3. Pair = {models[1]} \cup {models[2]}
    BY DEF Pair
  <2> QED BY <2>2, <2>3
<1>3. ASSUME NEW S, NEW T, S \subseteq T, T \subseteq Pair, Cardinality(S) = Cardinality(T)
      PROVE  S = T
  BY <1>2, <1>3, FS_Subset
<1> QED BY <1>1, <1>2, <1>3

\* A step that touches no state but the bridge's and the thread's of i.
Around(i) ==
    /\ Fixed
    /\ bound' \in Counts /\ bound'.deliveries = bound.deliveries
    /\ flow' = [flow EXCEPT ![i] = flow'[i]] /\ flow'[i] \in FlowState
    /\ thread' = [thread EXCEPT ![i] = thread'[i]]
    /\ thread'[i] \subseteq Replies /\ thread[i] \subseteq thread'[i]

\* The last step of a worker.
LEMMA FinishKeeps ==
    ASSUME IInv, NEW i \in Ids, work[i].pc # "idle", Finish(i), Around(i), flow'[i].made <= 1,
           NEW r \in EventRecord, Writes(i, r), r.state # "none",
           i \in Messages =>
               /\ \A m \in r.posted : Told(i, m)'
               /\ r.state = "completed" /\ ~dry_run => r.posted = Addressed(i)
    PROVE  IInv'
<1>1. i \in Busy /\ work \in [Ids -> WorkerState]
  BY BusyFacts
<1>2. Idle \in WorkerState /\ Idle.pc = "idle"
  BY SlackBridgeAssumption DEF Idle, WorkerState, Stages
<1>3. work'[i] = Idle /\ permits' = permits + 1 /\ work' = [work EXCEPT ![i] = work'[i]]
  BY <1>1 DEF Finish
<1>4. Local(i) /\ Typed(i) /\ cancelling' = cancelling /\ acked' = acked
  BY <1>2, <1>3 DEF Local, Typed, Around, Fixed
<1>5. Made(i)' /\ Carries(i)'
  BY <1>2, <1>3 DEF Made, Carries, MessageStages
<1>6. i \in Messages => TruthfulAfter(i, r)
  BY <1>2, <1>3 DEF TruthfulAfter
<1> QED BY <1>1, <1>2, <1>3, <1>4, <1>5, <1>6, WorkerKeeps DEF Around

\* Any other step of a worker.
LEMMA ContinueKeeps ==
    ASSUME IInv, NEW i \in Ids, work[i].pc # "idle", Around(i),
           NEW w \in WorkerState, w.pc # "idle", Continue(i, w), Made(i)', Carries(i)',
           NEW r \in EventRecord, Writes(i, r), r.state \in {"claimed", "workflow_created"},
           i \in Messages => \A m \in r.posted : Told(i, m)'
    PROVE  IInv'
<1>1. i \in Busy /\ work \in [Ids -> WorkerState]
  BY BusyFacts
<1>3. work'[i] = w /\ permits' = permits /\ work' = [work EXCEPT ![i] = work'[i]]
  BY <1>1 DEF Continue
<1>4. Local(i) /\ Typed(i) /\ cancelling' = cancelling /\ acked' = acked
  BY <1>3 DEF Local, Typed, Around, Fixed
<1>6. i \in Messages => TruthfulAfter(i, r)
  BY <1>3 DEF TruthfulAfter
<1> QED BY <1>1, <1>3, <1>4, <1>6, WorkerKeeps DEF Around

LEMMA ProcessDryRunKeeps ==
    ASSUME IInv, NEW i \in Ids, ProcessDryRun(i)
    PROVE  IInv'
<1> DEFINE r == InState(i, "completed")
<1>1. work[i].pc = "create" /\ dry_run /\ Finish(i) /\ Fixed /\ UNCHANGED <<flow, thread>>
  BY DEF ProcessDryRun
<1>2. /\ TypeOK /\ flow[i] \in FlowState /\ thread[i] \subseteq Replies /\ Made(i)
      /\ flow \in [Ids -> FlowState] /\ thread \in [Ids -> SUBSET Replies]
      /\ rec[i] \in EventRecord /\ (i \in Messages => \A m \in rec[i].posted : Told(i, m))
  BY <1>1, BusyFacts
<1>3. r \in EventRecord /\ r.state = "completed" /\ r.posted = rec[i].posted
  BY <1>2 DEF InState, EventRecord, Terminal
<1>4. Writes(i, r) /\ bound' \in Counts /\ bound'.deliveries = bound.deliveries
  BY <1>2, <1>3, WritesFacts DEF ProcessDryRun
<1>5. Around(i) /\ flow'[i].made <= 1
  BY <1>1, <1>2, <1>4 DEF Around, Made
<1>6. i \in Messages => \A m \in r.posted : Told(i, m)'
  BY <1>1, <1>2, <1>3 DEF Told
<1> HIDE DEF r
<1> QED BY <1>1, <1>3, <1>4, <1>5, <1>6, FinishKeeps
\* What the steps of a message's worker start from.
LEMMA MessageFacts ==
    ASSUME IInv, NEW i \in Ids, work[i].pc \in MessageStages
    PROVE  /\ work[i].pc # "idle" /\ i \in Messages
           /\ work[i].sel = Addressed(i) /\ work[i].todo \subseteq work[i].sel
           /\ work[i].sel \subseteq Pair /\ rec[i].posted \subseteq work[i].sel
           /\ work[i].pc # "final" => work[i].posted = rec[i].posted
           /\ work[i].pc \in {"poll", "fetch", "post", "final"} => work[i].sel = Pair
<1>1. work[i].pc # "idle"
  BY DEF MessageStages
<1>2. Carries(i)
  BY <1>1, BusyFacts
<1> QED BY <1>1, <1>2 DEF Carries, MessageStages

\* A step that says nothing and asks nothing of the bridge.
LEMMA QuietFacts ==
    ASSUME IInv, NEW i \in Ids, work[i].pc # "idle", Fixed, UNCHANGED <<flow, thread>>,
           bound' \in Counts, bound'.deliveries = bound.deliveries
    PROVE  /\ Around(i) /\ flow'[i].made <= 1
           /\ i \in Messages => \A m \in rec[i].posted : Told(i, m)'
<1>1. /\ flow[i] \in FlowState /\ thread[i] \subseteq Replies /\ Made(i)
      /\ flow \in [Ids -> FlowState] /\ thread \in [Ids -> SUBSET Replies]
      /\ i \in Messages => \A m \in rec[i].posted : Told(i, m)
  BY BusyFacts
<1> QED BY <1>1 DEF Around, Made, Told

\* An unwritten journal, with or without trouble.
LEMMA UnwrittenFacts ==
    ASSUME IInv, NEW i \in Ids, NotJournaled \/ (Trouble /\ UNCHANGED <<rec, disk, tail>>)
    PROVE  Writes(i, rec[i]) /\ bound' \in Counts /\ bound'.deliveries = bound.deliveries
<1>1. TypeOK
  BY DEF IInv
<1>2. UNCHANGED <<rec, disk, tail>>
  BY DEF NotJournaled
<1>3. Writes(i, rec[i])
  BY <1>1, <1>2, WritesFacts
<1>4. CASE NotJournaled
  BY <1>1, <1>3, <1>4 DEF NotJournaled, TypeOK
<1>5. CASE Trouble
  BY <1>1, <1>3, <1>5, TroubleFacts
<1> QED BY <1>4, <1>5

\* A step that ends a worker, completed only if every addressed model was answered.
LEMMA EndWithKeeps ==
    ASSUME IInv, NEW i \in Ids, work[i].pc # "idle", NEW complete \in BOOLEAN,
           EndWith(i, complete), Fixed, UNCHANGED <<flow, thread>>,
           complete /\ i \in Messages => rec[i].posted = Addressed(i)
    PROVE  IInv'
<1>1. TypeOK /\ rec[i] \in EventRecord /\ rec[i].state \in {"claimed", "workflow_created"}
  BY BusyFacts
<1>2. Finish(i)
  BY DEF EndWith
<1>3. CASE complete
  <2> DEFINE r == InState(i, "completed")
  <2>1. PICK ok \in BOOLEAN : Journaled(i, r, ok)
    BY <1>3 DEF EndWith
  <2>2. r \in EventRecord /\ r.state = "completed" /\ r.posted = rec[i].posted
    BY <1>1 DEF InState, EventRecord, Terminal
  <2>3. Writes(i, r) /\ bound' \in Counts /\ bound'.deliveries = bound.deliveries
    BY <1>1, <2>1, <2>2, WritesFacts
  <2>4. Around(i) /\ flow'[i].made <= 1 /\ (i \in Messages => \A m \in rec[i].posted : Told(i, m)')
    BY <2>3, QuietFacts
  <2> HIDE DEF r
  <2> QED BY <1>2, <1>3, <2>2, <2>3, <2>4, FinishKeeps
<1>4. CASE ~complete
  <2>1. Writes(i, rec[i]) /\ bound' \in Counts /\ bound'.deliveries = bound.deliveries
    BY <1>4, UnwrittenFacts DEF EndWith
  <2>2. Around(i) /\ flow'[i].made <= 1 /\ (i \in Messages => \A m \in rec[i].posted : Told(i, m)')
    BY <2>1, QuietFacts
  <2> QED BY <1>1, <1>2, <2>1, <2>2, FinishKeeps
<1> QED BY <1>3, <1>4

\* A quiet step after which the worker goes on.
LEMMA QuietContinueKeeps ==
    ASSUME IInv, NEW i \in Ids, work[i].pc # "idle", Fixed, UNCHANGED <<flow, thread>>,
           NotJournaled \/ (Trouble /\ UNCHANGED <<rec, disk, tail>>),
           NEW w \in WorkerState, w.pc # "idle", Continue(i, w), Made(i)', Carries(i)'
    PROVE  IInv'
<1>1. rec[i] \in EventRecord /\ rec[i].state \in {"claimed", "workflow_created"}
  BY BusyFacts
<1>2. Writes(i, rec[i]) /\ bound' \in Counts /\ bound'.deliveries = bound.deliveries
  BY UnwrittenFacts
<1>3. Around(i) /\ (i \in Messages => \A m \in rec[i].posted : Told(i, m)')
  BY <1>2, QuietFacts
<1> QED BY <1>1, <1>2, <1>3, ContinueKeeps
LEMMA CreateWorkflowKeeps ==
    ASSUME IInv, NEW i \in Ids, CreateWorkflow(i)
    PROVE  IInv'
<1> DEFINE w       == work[i]
           r       == InState(i, "workflow_created")
           failed  == [w EXCEPT !.pc = "start_failure", !.todo = w.sel]
           polling == [w EXCEPT !.pc = "poll", !.posted = rec[i].posted]
<1>1. work[i].pc = "create" /\ Fixed /\ UNCHANGED thread
  BY DEF CreateWorkflow
<1>2. /\ TypeOK /\ flow[i] \in FlowState /\ thread[i] \subseteq Replies /\ Made(i)
      /\ flow \in [Ids -> FlowState] /\ thread \in [Ids -> SUBSET Replies]
      /\ work \in [Ids -> WorkerState] /\ w \in WorkerState
      /\ rec[i] \in EventRecord /\ rec[i].state \in {"claimed", "workflow_created"}
      /\ i \in Messages => \A m \in rec[i].posted : Told(i, m)
  BY <1>1, BusyFacts
<1>3. /\ i \in Messages /\ w.sel = Addressed(i) /\ w.sel \subseteq Pair
      /\ rec[i].posted \subseteq w.sel /\ w.posted = rec[i].posted /\ w.todo \subseteq w.sel
  BY <1>1, MessageFacts DEF MessageStages
<1>4. flow[i].made = 0
  BY <1>1, <1>2 DEF Made
<1>5. ASSUME Making(i, w.sel) \/ UNCHANGED flow
      PROVE  /\ flow' = [flow EXCEPT ![i] = flow'[i]] /\ flow'[i] \in FlowState
             /\ flow'[i].made <= 1
  <2>1. CASE UNCHANGED flow
    BY <1>2, <1>4, <2>1
  <2>2. CASE Making(i, w.sel)
    <3>1. w.sel \subseteq Models
      BY <1>2 DEF WorkerState
    <3>2. flow'[i] = [flow[i] EXCEPT !.made = flow[i].made + 1, !.agents = w.sel]
      BY <1>2, <2>2 DEF Making
    <3>3. [flow[i] EXCEPT !.made = flow[i].made + 1, !.agents = w.sel] \in FlowState
      <4>1. flow[i].made + 1 \in Nat
        BY <1>4
      <4> QED BY <1>2, <3>1, <4>1 DEF FlowState
    <3>4. flow'[i].made = flow[i].made + 1
      BY <1>2, <3>2 DEF FlowState
    <3> QED BY <1>2, <1>4, <2>2, <3>2, <3>3, <3>4 DEF Making
  <2> QED BY <1>5, <2>1, <2>2
<1>6. /\ failed \in WorkerState /\ failed.pc = "start_failure" /\ failed.sel = w.sel
      /\ failed.todo = w.sel /\ failed.posted = w.posted
  BY <1>2 DEF WorkerState, Stages
<1>7. /\ polling \in WorkerState /\ polling.pc = "poll" /\ polling.sel = w.sel
      /\ polling.todo = w.todo /\ polling.posted = rec[i].posted
  BY <1>2 DEF WorkerState, Stages, EventRecord
<1>8. r \in EventRecord /\ r.state = "workflow_created" /\ r.posted = rec[i].posted
  BY <1>2 DEF InState, EventRecord
<1>9. \A m \in rec[i].posted : Told(i, m)'
  BY <1>1, <1>2, <1>3 DEF Told
<1> HIDE DEF failed, polling, r
<1>10. CASE Making(i, w.sel) /\ validate_workflow_response(w.sel)
            /\ \E ok \in BOOLEAN :
                 Journaled(i, r, ok) /\ Continue(i, IF ok THEN polling ELSE failed)
  <2>1. PICK ok \in BOOLEAN :
            Journaled(i, r, ok) /\ Continue(i, IF ok THEN polling ELSE failed)
    BY <1>10
  <2>2. Writes(i, r) /\ bound' \in Counts /\ bound'.deliveries = bound.deliveries
    BY <1>2, <1>8, <2>1, WritesFacts
  <2>3. Around(i)
    BY <1>1, <1>2, <1>5, <1>10, <2>2 DEF Around
  <2>4. PICK v \in {polling, failed} : Continue(i, v)
    BY <2>1
  <2>5. work'[i] = v /\ (rec'[i].posted = rec[i].posted) /\ v \in WorkerState /\ v.pc # "idle"
    BY <1>2, <1>6, <1>7, <1>8, <2>2, <2>4 DEF Continue, Writes
  <2>6. Made(i)' /\ Carries(i)'
    BY <1>3, <1>5, <1>6, <1>7, <1>10, <2>4, <2>5
       DEF Made, Carries, MessageStages, validate_workflow_response
  <2> QED BY <1>1, <1>8, <1>9, <2>2, <2>3, <2>4, <2>5, <2>6, ContinueKeeps
<1>11. CASE /\ Making(i, w.sel) \/ UNCHANGED flow
            /\ NotJournaled \/ (Trouble /\ UNCHANGED <<rec, disk, tail>>)
            /\ Continue(i, failed)
  <2>2. Writes(i, rec[i]) /\ bound' \in Counts /\ bound'.deliveries = bound.deliveries
    BY <1>11, UnwrittenFacts
  <2>3. Around(i)
    BY <1>1, <1>2, <1>5, <1>11, <2>2 DEF Around
  <2>5. work'[i] = failed /\ rec'[i] = rec[i]
    BY <1>2, <1>11, <2>2 DEF Continue, Writes
  <2>6. Made(i)' /\ Carries(i)'
    BY <1>3, <1>5, <1>6, <1>11, <2>5 DEF Made, Carries, MessageStages
  <2> QED BY <1>1, <1>2, <1>6, <1>9, <1>11, <2>2, <2>3, <2>5, <2>6, ContinueKeeps
<1> QED BY <1>10, <1>11 DEF CreateWorkflow, failed, polling, r

\* post_slack_reply and mark_posted, in the three lists a worker works through.
LEMMA PostNextKeeps ==
    ASSUME IInv, NEW i \in Ids, work[i].pc \in {"start_failure", "post", "final"},
           NEW kind \in {"reply", "failure"}, PostNext(i, kind)
    PROVE  IInv'
<1> DEFINE w    == work[i]
           m    == IF models[1] \in w.todo THEN models[1] ELSE models[2]
           rest == [w EXCEPT !.todo = w.todo \ {m}]
           more == [rest EXCEPT !.posted = IF w.pc = "final" THEN w.posted ELSE w.posted \cup {m}]
           r    == Posted(i, m)
<1>1. w.todo # {} /\ Fixed /\ UNCHANGED flow /\ work[i].pc # "idle"
  BY DEF PostNext
<1>2. /\ TypeOK /\ flow[i] \in FlowState /\ thread[i] \subseteq Replies /\ Made(i)
      /\ flow \in [Ids -> FlowState] /\ thread \in [Ids -> SUBSET Replies]
      /\ work \in [Ids -> WorkerState] /\ w \in WorkerState
      /\ rec[i] \in EventRecord /\ rec[i].state \in {"claimed", "workflow_created"}
      /\ i \in Messages => \A n \in rec[i].posted : Told(i, n)
  BY <1>1, BusyFacts
<1>3. /\ i \in Messages /\ w.sel = Addressed(i) /\ w.sel \subseteq Pair
      /\ rec[i].posted \subseteq w.sel /\ w.todo \subseteq w.sel
      /\ w.pc # "final" => w.posted = rec[i].posted
      /\ w.pc \in {"poll", "fetch", "post", "final"} => w.sel = Pair
  BY MessageFacts DEF MessageStages
<1>4. m \in w.todo /\ m \in Models
  BY <1>1, <1>3, PairFacts DEF Pair
<1> HIDE DEF m
<1>5. /\ rest \in WorkerState /\ rest.pc = w.pc /\ rest.sel = w.sel
      /\ rest.todo = w.todo \ {m} /\ rest.posted = w.posted
  BY <1>2 DEF WorkerState
<1>6. /\ more \in WorkerState /\ more.pc = w.pc /\ more.sel = w.sel /\ more.todo = w.todo \ {m}
      /\ more.posted = IF w.pc = "final" THEN w.posted ELSE w.posted \cup {m}
  BY <1>2, <1>4, <1>5 DEF WorkerState
<1>7. /\ r \in EventRecord /\ r.state = rec[i].state /\ r.posted = rec[i].posted \cup {m}
  BY <1>2, <1>4 DEF Posted, EventRecord
<1> HIDE DEF rest, more, r
<1>8. ASSUME Say(i, m, kind) \/ UNCHANGED thread
      PROVE  /\ thread' = [thread EXCEPT ![i] = thread'[i]] /\ thread'[i] \subseteq Replies
             /\ thread[i] \subseteq thread'[i] /\ (Say(i, m, kind) => <<m, kind>> \in thread'[i])
  <2>1. <<m, kind>> \in Replies
    BY <1>4 DEF Replies
  <2> QED BY <1>2, <1>8, <2>1 DEF Say
<1>9. flow' = [flow EXCEPT ![i] = flow'[i]] /\ flow'[i] \in FlowState /\ flow'[i].made <= 1
  BY <1>1, <1>2 DEF Made
<1>10. CASE Say(i, m, kind) /\ \E ok \in BOOLEAN :
               /\ Journaled(i, r, ok)
               /\ IF ok THEN Continue(i, more) ELSE Finish(i)
  <2>1. PICK ok \in BOOLEAN : Journaled(i, r, ok) /\ IF ok THEN Continue(i, more) ELSE Finish(i)
    BY <1>10
  <2>2. Writes(i, r) /\ bound' \in Counts /\ bound'.deliveries = bound.deliveries
    BY <1>2, <1>7, <2>1, WritesFacts
  <2>3. Around(i)
    BY <1>1, <1>8, <1>9, <1>10, <2>2 DEF Around
  <2>4. \A n \in r.posted : Told(i, n)'
    BY <1>2, <1>3, <1>7, <1>8, <1>10 DEF Told
  <2>5. CASE ok
    <3>1. rec' = [rec EXCEPT ![i] = r]
      BY <2>1, <2>5, <1>7, <1>2, JournalFacts
    <3>2. work'[i] = more /\ rec'[i] = r
      BY <1>2, <2>1, <2>5, <3>1 DEF Continue, TypeOK
    <3>3. Made(i)'
      BY <1>6, <1>9, <3>2 DEF Made
    <3>4. Carries(i)'
      BY <1>3, <1>4, <1>6, <1>7, <3>2 DEF Carries, MessageStages
    <3> QED BY <1>1, <1>2, <1>6, <1>7, <2>1, <2>2, <2>3, <2>4, <2>5, <3>3, <3>4, ContinueKeeps
  <2>6. CASE ~ok
    BY <1>1, <1>2, <1>7, <1>9, <2>1, <2>2, <2>3, <2>4, <2>6, FinishKeeps
  <2> QED BY <2>5, <2>6
<1>11. CASE /\ Trouble /\ UNCHANGED <<rec, disk, tail>>
            /\ Say(i, m, kind) \/ UNCHANGED thread
            /\ Continue(i, rest)
  <2>2. Writes(i, rec[i]) /\ bound' \in Counts /\ bound'.deliveries = bound.deliveries
    BY <1>11, UnwrittenFacts
  <2>3. Around(i)
    BY <1>1, <1>8, <1>9, <1>11, <2>2 DEF Around
  <2>4. \A n \in rec[i].posted : Told(i, n)'
    BY <1>2, <1>3, <1>8, <1>11 DEF Told
  <2>5. work'[i] = rest /\ rec'[i] = rec[i]
    BY <1>2, <1>11 DEF Continue
  <2>6. Made(i)' /\ Carries(i)'
    BY <1>1, <1>2, <1>3, <1>5, <1>9, <2>5 DEF Made, Carries, MessageStages
  <2> QED BY <1>1, <1>2, <1>5, <1>11, <2>2, <2>3, <2>4, <2>6, ContinueKeeps
<1> QED BY <1>10, <1>11 DEF PostNext, m, rest, more, r
\* The worker moves to another stage of the loop, with another list to work through.
LEMMA StageKeeps ==
    ASSUME IInv, NEW i \in Ids, work[i].pc \in {"poll", "fetch", "post"}, Fixed,
           UNCHANGED <<flow, thread>>,
           NotJournaled \/ (Trouble /\ UNCHANGED <<rec, disk, tail>>),
           NEW v \in WorkerState, Continue(i, v), v.pc \in {"poll", "fetch", "post", "final"},
           v.sel = work[i].sel, v.posted = work[i].posted, v.todo \subseteq v.sel
    PROVE  IInv'
<1>1. Made(i) /\ work \in [Ids -> WorkerState]
  BY BusyFacts
<1>2. /\ i \in Messages /\ v.sel = Addressed(i) /\ v.sel = Pair
      /\ rec[i].posted \subseteq v.sel /\ v.posted = rec[i].posted
  BY MessageFacts DEF MessageStages
<1>3. work'[i] = v /\ rec' = rec
  BY <1>1 DEF Continue, NotJournaled
<1>4. Made(i)' /\ Carries(i)'
  BY <1>1, <1>2, <1>3 DEF Made, Carries, MessageStages
<1> QED BY <1>4, QuietContinueKeeps

LEMMA PostStartFailureKeeps ==
    ASSUME IInv, NEW i \in Ids, post_start_failure_pair(i)
    PROVE  IInv'
<1>1. work[i].pc = "start_failure"
  BY DEF post_start_failure_pair
<1>2. CASE PostNext(i, "failure")
  BY <1>1, <1>2, PostNextKeeps
<1>3. CASE /\ EndWith(i, Cardinality(work[i].posted) = Cardinality(work[i].sel))
           /\ Fixed /\ UNCHANGED <<flow, thread>>
  <2>1. /\ work[i].sel = Addressed(i) /\ work[i].sel \subseteq Pair
        /\ rec[i].posted \subseteq work[i].sel /\ work[i].posted = rec[i].posted
    BY <1>1, MessageFacts DEF MessageStages
  <2>2. Cardinality(work[i].posted) = Cardinality(work[i].sel) => rec[i].posted = Addressed(i)
    BY <2>1, PairFacts
  <2> QED BY <1>1, <1>3, <2>2, EndWithKeeps
<1> QED BY <1>2, <1>3 DEF post_start_failure_pair

LEMMA PollExpiredKeeps ==
    ASSUME IInv, NEW i \in Ids, PollExpired(i)
    PROVE  IInv'
<1> DEFINE v == [work[i] EXCEPT !.pc = "final", !.todo = Unposted(work[i])]
<1>1. /\ work[i].pc = "poll" /\ Continue(i, v) /\ NotJournaled /\ Fixed
      /\ UNCHANGED <<flow, thread>>
  BY DEF PollExpired
<1>2. work[i] \in WorkerState
  BY <1>1, BusyFacts
<1>3. /\ v \in WorkerState /\ v.pc = "final" /\ v.sel = work[i].sel
      /\ v.posted = work[i].posted /\ v.todo \subseteq v.sel
  BY <1>2 DEF WorkerState, Stages, Unposted
<1> HIDE DEF v
<1> QED BY <1>1, <1>3, StageKeeps

LEMMA PollTopKeeps ==
    ASSUME IInv, NEW i \in Ids, PollTop(i)
    PROVE  IInv'
<1> DEFINE v == [work[i] EXCEPT !.pc = "fetch", !.polls = work[i].polls + 1]
           r == InState(i, "canceled")
<1>1. work[i].pc = "poll" /\ work[i].polls < MaxPolls /\ Fixed /\ UNCHANGED <<flow, thread>>
  BY DEF PollTop
<1>2. /\ TypeOK /\ work[i] \in WorkerState /\ rec[i] \in EventRecord
  BY <1>1, BusyFacts
<1>3. CASE Finish(i) /\ \E ok \in BOOLEAN : Journaled(i, r, ok)
  <2>1. r \in EventRecord /\ r.state = "canceled" /\ r.posted = rec[i].posted
    BY <1>2 DEF InState, EventRecord, Terminal
  <2>2. Writes(i, r) /\ bound' \in Counts /\ bound'.deliveries = bound.deliveries
    BY <1>2, <1>3, <2>1, WritesFacts
  <2>3. Around(i) /\ flow'[i].made <= 1 /\ (i \in Messages => \A m \in rec[i].posted : Told(i, m)')
    BY <1>1, <2>2, QuietFacts
  <2> HIDE DEF r
  <2> QED BY <1>1, <1>3, <2>1, <2>2, <2>3, FinishKeeps
<1>4. CASE Continue(i, v) /\ NotJournaled
  <2>1. work[i].polls + 1 \in 0..MaxPolls
    BY <1>1, <1>2, SlackBridgeAssumption DEF WorkerState
  <2>2. /\ v \in WorkerState /\ v.pc = "fetch" /\ v.sel = work[i].sel
        /\ v.posted = work[i].posted /\ v.todo = work[i].todo
    BY <1>2, <2>1 DEF WorkerState, Stages
  <2>3. work[i].todo \subseteq work[i].sel
    BY <1>1, MessageFacts DEF MessageStages
  <2> HIDE DEF v
  <2> QED BY <1>1, <1>4, <2>2, <2>3, StageKeeps
<1> QED BY <1>3, <1>4 DEF PollTop

LEMMA GetWorkflowKeeps ==
    ASSUME IInv, NEW i \in Ids, get_workflow(i)
    PROVE  IInv'
<1> DEFINE v == [work[i] EXCEPT !.pc = "post",
                      !.terminal = flow[i].submitted = flow[i].agents,
                      !.todo = Unposted(work[i]) \cap flow[i].submitted]
           u == [work[i] EXCEPT !.pc = "poll"]
<1>1. work[i].pc = "fetch" /\ Fixed /\ UNCHANGED <<flow, thread>>
  BY DEF get_workflow
<1>2. work[i] \in WorkerState
  BY <1>1, BusyFacts
<1>3. CASE Continue(i, v) /\ NotJournaled
  <2>1. /\ v \in WorkerState /\ v.pc = "post" /\ v.sel = work[i].sel
        /\ v.posted = work[i].posted /\ v.todo \subseteq v.sel
    BY <1>2 DEF WorkerState, Stages, Unposted
  <2> HIDE DEF v
  <2> QED BY <1>1, <1>3, <2>1, StageKeeps
<1>4. CASE Continue(i, u) /\ Trouble /\ UNCHANGED <<rec, disk, tail>>
  <2>1. /\ u \in WorkerState /\ u.pc = "poll" /\ u.sel = work[i].sel
        /\ u.posted = work[i].posted /\ u.todo = work[i].todo
    BY <1>2 DEF WorkerState, Stages
  <2>2. work[i].todo \subseteq work[i].sel
    BY <1>1, MessageFacts DEF MessageStages
  <2> HIDE DEF u
  <2> QED BY <1>1, <1>4, <2>1, <2>2, StageKeeps
<1> QED BY <1>3, <1>4 DEF get_workflow

LEMMA PostSubmissionsKeeps ==
    ASSUME IInv, NEW i \in Ids, PostSubmissions(i)
    PROVE  IInv'
<1> DEFINE full == Cardinality(work[i].posted) = Cardinality(work[i].sel)
           v == IF work[i].terminal
                THEN [work[i] EXCEPT !.pc = "final", !.todo = Unposted(work[i])]
                ELSE [work[i] EXCEPT !.pc = "poll"]
<1>1. work[i].pc = "post"
  BY DEF PostSubmissions
<1>2. CASE PostNext(i, "reply")
  BY <1>1, <1>2, PostNextKeeps
<1>3. /\ work[i].sel = Addressed(i) /\ work[i].sel \subseteq Pair
      /\ work[i].todo \subseteq work[i].sel
      /\ rec[i].posted \subseteq work[i].sel /\ work[i].posted = rec[i].posted
  BY <1>1, MessageFacts DEF MessageStages
<1>4. CASE EndWith(i, TRUE) /\ full /\ Fixed /\ UNCHANGED <<flow, thread>>
  <2>1. rec[i].posted = Addressed(i)
    BY <1>3, <1>4, PairFacts
  <2> QED BY <1>1, <1>4, <2>1, EndWithKeeps
<1>5. CASE Continue(i, v) /\ NotJournaled /\ Fixed /\ UNCHANGED <<flow, thread>>
  <2>1. work[i] \in WorkerState
    BY <1>1, BusyFacts
  <2>2. /\ v \in WorkerState /\ v.pc \in {"final", "poll"} /\ v.sel = work[i].sel
        /\ v.posted = work[i].posted /\ v.todo \subseteq v.sel
    <3>1. CASE work[i].terminal
      BY <2>1, <3>1 DEF WorkerState, Stages, Unposted
    <3>2. CASE ~work[i].terminal
      BY <1>3, <2>1, <3>2 DEF WorkerState, Stages
    <3> QED BY <3>1, <3>2
  <2> HIDE DEF v
  <2> QED BY <1>1, <1>5, <2>2, StageKeeps
<1> QED BY <1>2, <1>4, <1>5 DEF PostSubmissions

LEMMA PostDeadlineFailuresKeeps ==
    ASSUME IInv, NEW i \in Ids, PostDeadlineFailures(i)
    PROVE  IInv'
<1>1. work[i].pc = "final"
  BY DEF PostDeadlineFailures
<1>2. CASE PostNext(i, "failure")
  BY <1>1, <1>2, PostNextKeeps
<1>3. CASE EndWith(i, Cardinality(rec[i].posted) = 2) /\ Fixed /\ UNCHANGED <<flow, thread>>
  <2>1. work[i].sel = Addressed(i) /\ work[i].sel = Pair /\ rec[i].posted \subseteq work[i].sel
    BY <1>1, MessageFacts DEF MessageStages
  <2>2. Cardinality(rec[i].posted) = 2 => rec[i].posted = Addressed(i)
    BY <2>1, PairFacts
  <2> QED BY <1>1, <1>3, <2>2, EndWithKeeps
<1> QED BY <1>2, <1>3 DEF PostDeadlineFailures
-----------------------------------------------------------------------------
(* The worker of a modal, and the agents *)

ModalStages == {"announce", "dispatch", "await", "dispatch_failed"}

LEMMA ModalFacts ==
    ASSUME IInv, NEW i \in Ids, work[i].pc \in ModalStages
    PROVE  /\ i \notin Messages /\ Chosen[i] \in Models /\ TypeOK /\ work[i].pc # "idle"
           /\ work[i] \in WorkerState /\ flow[i] \in FlowState /\ flow[i].made \in {0, 1}
           /\ work[i].pc \in {"announce", "dispatch"} => flow[i].made = 0
<1>1. work[i].pc # "idle" /\ work[i].pc \notin MessageStages
  BY DEF ModalStages, MessageStages
<1>2. Carries(i) /\ Made(i) /\ work[i] \in WorkerState /\ flow[i] \in FlowState /\ TypeOK
  BY <1>1, BusyFacts
<1>3. i \notin Messages
  BY <1>1, <1>2 DEF Carries
<1>4. Chosen[i] \in Models
  BY <1>3, SlackBridgeAssumption DEF Ids
<1> QED BY <1>1, <1>2, <1>3, <1>4 DEF Made, FlowState

\* Carries and Made of a modal's worker after a step.
LEMMA ModalCarries ==
    ASSUME NEW i \in Ids, i \notin Messages, work'[i].pc \in ModalStages, flow'[i].made <= 1,
           work'[i].pc \in {"announce", "dispatch"} => flow'[i].made = 0
    PROVE  Made(i)' /\ Carries(i)'
BY DEF Made, Carries, ModalStages, MessageStages

LEMMA AnnounceDispatchKeeps ==
    ASSUME IInv, NEW i \in Ids, AnnounceDispatch(i)
    PROVE  IInv'
<1> DEFINE w == [work[i] EXCEPT !.pc = "dispatch"]
           u == [w EXCEPT !.issue = TRUE]
           f == [flow[i] EXCEPT !.issue = "todo"]
<1>1. work[i].pc = "announce" /\ Fixed /\ UNCHANGED <<thread, rec, disk, tail>>
  BY DEF AnnounceDispatch
<1>2. /\ i \notin Messages /\ TypeOK /\ work[i] \in WorkerState /\ flow[i] \in FlowState
      /\ flow[i].made = 0
  BY <1>1, ModalFacts DEF ModalStages
<1>3. /\ work \in [Ids -> WorkerState] /\ flow \in [Ids -> FlowState]
      /\ thread \in [Ids -> SUBSET Replies] /\ thread[i] \subseteq Replies
      /\ rec[i] \in EventRecord /\ rec[i].state \in {"claimed", "workflow_created"}
  BY <1>1, BusyFacts
<1>4. w \in WorkerState /\ w.pc = "dispatch" /\ u \in WorkerState /\ u.pc = "dispatch"
  BY <1>2 DEF WorkerState, Stages
<1>5. f \in FlowState /\ f.made = 0
  BY <1>2 DEF FlowState
<1> HIDE DEF w, u, f
<1>6. Writes(i, rec[i])
  BY <1>1, <1>2, WritesFacts
<1>7. CASE flow' = [flow EXCEPT ![i] = f] /\ Continue(i, u) /\ UNCHANGED bound
  <2>1. work'[i] = u /\ flow'[i] = f
    BY <1>3, <1>7 DEF Continue
  <2>2. Around(i)
    BY <1>1, <1>2, <1>3, <1>5, <1>7, <2>1 DEF Around, TypeOK
  <2>3. Made(i)' /\ Carries(i)'
    BY <1>2, <1>4, <1>5, <2>1, ModalCarries DEF ModalStages
  <2> QED BY <1>1, <1>2, <1>3, <1>4, <1>6, <1>7, <2>2, <2>3, ContinueKeeps
<1>8. CASE Trouble /\ UNCHANGED flow /\ Continue(i, w)
  <2>1. work'[i] = w /\ bound' \in Counts /\ bound'.deliveries = bound.deliveries
    BY <1>2, <1>3, <1>8, TroubleFacts DEF Continue
  <2>2. Around(i)
    BY <1>1, <1>2, <1>3, <1>8, <2>1 DEF Around
  <2>3. Made(i)' /\ Carries(i)'
    BY <1>2, <1>4, <1>8, <2>1, ModalCarries DEF ModalStages
  <2> QED BY <1>1, <1>2, <1>3, <1>4, <1>6, <1>8, <2>2, <2>3, ContinueKeeps
<1> QED BY <1>7, <1>8 DEF AnnounceDispatch, w, u, f

LEMMA CreateSingleKeeps ==
    ASSUME IInv, NEW i \in Ids, create_single_agent_workflow(i)
    PROVE  IInv'
<1> DEFINE w == work[i]
           u == [w EXCEPT !.pc = "await"]
           v == [w EXCEPT !.pc = "dispatch_failed"]
           f == [flow[i] EXCEPT !.made = flow[i].made + 1, !.agents = {Chosen[i]},
                     !.issue = IF w.issue THEN "started" ELSE flow[i].issue]
           g == [flow[i] EXCEPT !.made = flow[i].made + 1, !.agents = w.sel]
           r == InState(i, "workflow_created")
<1>1. work[i].pc = "dispatch" /\ Fixed /\ UNCHANGED thread
  BY DEF create_single_agent_workflow
<1>2. /\ i \notin Messages /\ TypeOK /\ work[i] \in WorkerState /\ flow[i] \in FlowState
      /\ flow[i].made = 0 /\ Chosen[i] \in Models
  BY <1>1, ModalFacts DEF ModalStages
<1>3. /\ work \in [Ids -> WorkerState] /\ flow \in [Ids -> FlowState]
      /\ thread \in [Ids -> SUBSET Replies] /\ thread[i] \subseteq Replies
      /\ rec[i] \in EventRecord /\ rec[i].state \in {"claimed", "workflow_created"}
  BY <1>1, BusyFacts
<1>4. u \in WorkerState /\ u.pc = "await" /\ v \in WorkerState /\ v.pc = "dispatch_failed"
  BY <1>2 DEF WorkerState, Stages
<1>5. f \in FlowState /\ f.made = 1 /\ g \in FlowState /\ g.made = 1
  <2>1. flow[i].made + 1 \in Nat /\ flow[i].made + 1 = 1 /\ w.sel \subseteq Models
    BY <1>2 DEF WorkerState
  <2> QED BY <1>2, <2>1 DEF FlowState
<1>6. r \in EventRecord /\ r.state = "workflow_created"
  BY <1>3 DEF InState, EventRecord
<1> HIDE DEF u, v, f, g, r
<1>7. CASE /\ \E ok \in BOOLEAN : Journaled(i, r, ok)
           /\ flow' = [flow EXCEPT ![i] = f] /\ Continue(i, u)
  <2>1. work'[i] = u /\ flow'[i] = f
    BY <1>3, <1>7 DEF Continue
  <2>2. Writes(i, r) /\ bound' \in Counts /\ bound'.deliveries = bound.deliveries
    BY <1>2, <1>6, <1>7, WritesFacts
  <2>3. Around(i)
    BY <1>1, <1>2, <1>3, <1>5, <1>7, <2>1, <2>2 DEF Around
  <2>4. Made(i)' /\ Carries(i)'
    BY <1>2, <1>4, <1>5, <2>1, ModalCarries DEF ModalStages
  <2> QED BY <1>1, <1>2, <1>4, <1>6, <1>7, <2>2, <2>3, <2>4, ContinueKeeps
<1>8. CASE /\ Trouble /\ UNCHANGED <<rec, disk, tail>>
           /\ Making(i, w.sel) \/ UNCHANGED flow
           /\ Continue(i, v)
  <2>1. /\ work'[i] = v /\ flow' = [flow EXCEPT ![i] = flow'[i]]
        /\ flow'[i] \in FlowState /\ flow'[i].made <= 1
    <3>1. flow' \in {flow, [flow EXCEPT ![i] = g]}
      BY <1>8 DEF Making, g
    <3> QED BY <1>2, <1>3, <1>5, <1>8, <3>1 DEF Continue
  <2>2. Writes(i, rec[i]) /\ bound' \in Counts /\ bound'.deliveries = bound.deliveries
    BY <1>8, UnwrittenFacts
  <2>3. Around(i)
    BY <1>1, <1>3, <2>1, <2>2 DEF Around
  <2>4. Made(i)' /\ Carries(i)'
    BY <1>2, <1>4, <2>1, ModalCarries DEF ModalStages
  <2> QED BY <1>1, <1>2, <1>3, <1>4, <1>8, <2>2, <2>3, <2>4, ContinueKeeps
<1> QED BY <1>7, <1>8 DEF create_single_agent_workflow, u, v, f, r

LEMMA EndDispatchKeeps ==
    ASSUME IInv, NEW i \in Ids, work[i].pc \in ModalStages, NEW kind \in {"reply", "failure"},
           NEW state \in {"none", "todo", "started", "done"}, EndDispatch(i, kind, state)
    PROVE  IInv'
<1> DEFINE r == InState(i, "completed")
           f == [flow[i] EXCEPT !.issue = state]
<1>2. /\ i \notin Messages /\ TypeOK /\ flow[i] \in FlowState
      /\ flow[i].made \in {0, 1} /\ Chosen[i] \in Models /\ work[i].pc # "idle"
  BY ModalFacts
<1>3. /\ flow \in [Ids -> FlowState] /\ thread \in [Ids -> SUBSET Replies]
      /\ thread[i] \subseteq Replies /\ rec[i] \in EventRecord
  BY <1>2, BusyFacts
<1>4. f \in FlowState /\ f.made = flow[i].made
  BY <1>2 DEF FlowState
<1>5. r \in EventRecord /\ r.state = "completed"
  BY <1>3 DEF InState, EventRecord, Terminal
<1> HIDE DEF r
<1>6. /\ Fixed /\ Finish(i)
      /\ Say(i, Chosen[i], kind) \/ UNCHANGED thread
      /\ Issue(i, state) \/ UNCHANGED flow
      /\ (\E ok \in BOOLEAN : Journaled(i, r, ok)) \/ (Trouble /\ Logged(i, r))
  BY DEF EndDispatch, EndWith, Journaled, r
<1>7. /\ flow' = [flow EXCEPT ![i] = flow'[i]] /\ flow'[i] \in FlowState /\ flow'[i].made <= 1
  <2>1. flow' \in {flow, [flow EXCEPT ![i] = f]}
    BY <1>6 DEF Issue
  <2> HIDE DEF f
  <2> QED BY <1>2, <1>3, <1>4, <2>1
<1>8. /\ thread' = [thread EXCEPT ![i] = thread'[i]] /\ thread'[i] \subseteq Replies
      /\ thread[i] \subseteq thread'[i]
  <2>1. <<Chosen[i], kind>> \in Replies
    BY <1>2 DEF Replies
  <2> QED BY <1>3, <1>6, <2>1 DEF Say
<1>9. Writes(i, r) /\ bound' \in Counts /\ bound'.deliveries = bound.deliveries
  BY <1>2, <1>5, <1>6, WritesFacts, TroubleFacts
<1>10. Around(i)
  BY <1>6, <1>7, <1>8, <1>9 DEF Around
<1> QED BY <1>2, <1>5, <1>6, <1>7, <1>9, <1>10, FinishKeeps

LEMMA ProcessDispatchKeeps ==
    ASSUME IInv, NEW i \in Ids, process_dispatch(i)
    PROVE  IInv'
<1>1. CASE AnnounceDispatch(i)
  BY <1>1, AnnounceDispatchKeeps
<1>2. CASE create_single_agent_workflow(i)
  BY <1>2, CreateSingleKeeps
<1>3. CASE DispatchFailed(i)
  BY <1>3, EndDispatchKeeps DEF DispatchFailed, ModalStages
<1>4. CASE DispatchAnswered(i)
  BY <1>4, EndDispatchKeeps DEF DispatchAnswered, ModalStages
<1>5. CASE DispatchTimeout(i)
  <2>1. work[i].pc = "await" /\ EndDispatch(i, "failure", flow[i].issue)
    BY <1>5 DEF DispatchTimeout
  <2>2. flow[i] \in FlowState
    BY <2>1, ModalFacts DEF ModalStages
  <2>3. flow[i].issue \in {"none", "todo", "started", "done"}
    BY <2>2 DEF FlowState
  <2> QED BY <2>1, <2>3, EndDispatchKeeps DEF ModalStages
<1> QED BY <1>1, <1>2, <1>3, <1>4, <1>5 DEF process_dispatch

LEMMA ProcessEventKeeps ==
    ASSUME IInv, NEW i \in Ids, process_event(i)
    PROVE  IInv'
BY ProcessDryRunKeeps, CreateWorkflowKeeps, PostStartFailureKeeps, PollExpiredKeeps,
   PollTopKeeps, GetWorkflowKeeps, PostSubmissionsKeeps, PostDeadlineFailuresKeeps
   DEF process_event

LEMMA AgentSubmitsKeeps ==
    ASSUME IInv, NEW i \in Ids, NEW m \in Models, AgentSubmits(i, m)
    PROVE  IInv'
<1> DEFINE f == [flow[i] EXCEPT !.submitted = flow[i].submitted \cup {m}]
<1>1. /\ work[i].pc \in {"poll", "fetch", "post", "await"} /\ flow' = [flow EXCEPT ![i] = f]
      /\ UNCHANGED <<dry_run, up, disk, tail, rec, permits, checked, holding, cancelling,
                     work, thread, acked, bound>>
  BY DEF AgentSubmits
<1>2. /\ TypeOK /\ flow[i] \in FlowState /\ flow \in [Ids -> FlowState] /\ Made(i) /\ Carries(i)
      /\ thread[i] \subseteq Replies /\ rec[i] \in EventRecord /\ work[i] \in WorkerState
      /\ work \in [Ids -> WorkerState] /\ thread \in [Ids -> SUBSET Replies]
      /\ rec[i].state \in {"claimed", "workflow_created"}
      /\ i \in Messages => \A n \in rec[i].posted : Told(i, n)
  BY <1>1, BusyFacts
<1>3. f \in FlowState /\ f.made = flow[i].made
  BY <1>2 DEF FlowState
<1> HIDE DEF f
<1>4. Continue(i, work[i]) /\ Writes(i, rec[i]) /\ flow'[i] = f
  BY <1>1, <1>2, WritesFacts DEF Continue
<1>5. Around(i)
  BY <1>1, <1>2, <1>3, <1>4 DEF Around, Fixed, TypeOK
<1>6. Made(i)' /\ Carries(i)'
  BY <1>1, <1>2, <1>3, <1>4 DEF Made, Carries
<1>7. i \in Messages => \A n \in rec[i].posted : Told(i, n)'
  BY <1>1, <1>2 DEF Told
<1> QED BY <1>1, <1>2, <1>4, <1>5, <1>6, <1>7, ContinueKeeps
-----------------------------------------------------------------------------
(* Intake *)

\* The permits are counted with the busy ids as a set of their own.
LEMMA PermitsCounted ==
    ASSUME IInv
    PROVE  /\ IsFiniteSet(Busy) /\ IsFiniteSet(holding) /\ permits \in Nat /\ MaxConcurrent \in Nat
           /\ Cardinality(Busy) \in Nat /\ Cardinality(holding) \in Nat
           /\ permits + Cardinality(Busy) + Cardinality(holding) = MaxConcurrent
<1>1. IsFiniteSet(Ids) /\ MaxConcurrent \in Nat
  BY SlackBridgeAssumption DEF Ids
<1>2. IsFiniteSet(Busy)
  BY <1>1, FS_Subset DEF Busy
<1>3. IsFiniteSet(holding) /\ permits \in Nat
  BY DEF IInv, Numbered, TypeOK
<1>4. Cardinality(Busy) \in Nat /\ Cardinality(holding) \in Nat
  BY <1>2, <1>3, FS_CardinalityType
<1>5. permits + Cardinality(Busy) + Cardinality(holding) = MaxConcurrent
  BY DEF IInv, PermitsConserved, Busy
<1> QED BY <1>1, <1>2, <1>3, <1>4, <1>5

\* A message event addresses one set of models, whoever delivers it.
LEMMA AddressedFacts ==
    ASSUME NEW e \in Accepted
    PROVE  LET d == classify_event(config, e)
           IN  /\ d.id \in Messages /\ d.id \in Ids
               /\ selected_models(d.selection) = Addressed(d.id)
               /\ Addressed(d.id) \subseteq Pair
<1> DEFINE d == classify_event(config, e)
<1>1. /\ d.id \in Messages
      /\ \A f \in Accepted : classify_event(config, f).id = d.id =>
                                classify_event(config, f).selection = d.selection
  BY SlackBridgeAssumption
<1>2. selected_models(d.selection) = Addressed(d.id)
  BY <1>1 DEF Addressed
<1>3. selected_models(d.selection) \subseteq Pair
  BY DEF selected_models, Pair
<1> QED BY <1>1, <1>2, <1>3 DEF Ids

\* A step that only acknowledges known ids keeps what is known of every id.
LEMMA AcknowledgeKeeps ==
    ASSUME IInv, NEW j \in Ids,
           UNCHANGED <<dry_run, up, disk, tail, rec, work, flow, thread>>,
           j \in acked' => j \in acked \/ rec[j].state # "none",
           j \in cancelling' => j \in cancelling \/ rec[j].state # "none"
    PROVE  Each(j)'
<1>0. Each(j)
  BY DEF IInv
<1>1. Known(j)' /\ Made(j)'
  BY <1>0 DEF Each, Known, Made, Durable
<1>2. Carries(j)'
  BY <1>0 DEF Each, Carries
<1>3. j \in Messages => Truthful(j, rec[j])' /\ Truthful(j, disk[j])'
  BY <1>0 DEF Each, Truthful, Told
<1> QED BY <1>1, <1>2, <1>3 DEF Each

LEMMA DeliveredFacts ==
    ASSUME TypeOK, Delivered
    PROVE  /\ bound' \in Counts /\ bound.deliveries \in Nat
           /\ bound'.deliveries = bound.deliveries + 1
<1>1. bound.deliveries \in Nat /\ bound.deliveries + 1 \in Nat
  BY DEF TypeOK, Counts
<1> QED BY <1>1 DEF TypeOK, Counts, Delivered

LEMMA SlackEventsKeeps ==
    ASSUME IInv, NEW env \in Envelopes, slack_events(env)
    PROVE  IInv'
<1> DEFINE d == classify_event(config, env)
           n == [no |-> bound.deliveries, id |-> d.id, sel |-> selected_models(d.selection)]
<1>0. TypeOK /\ Numbered
  BY DEF IInv
<1>1. /\ d.id \in Messages /\ d.id \in Ids /\ Addressed(d.id) \subseteq Models
      /\ selected_models(d.selection) = Addressed(d.id)
  <2>1. env \in Accepted
    BY DEF Accepted, slack_events
  <2> QED BY <2>1, AddressedFacts, PairFacts
<1>2. /\ bound' \in Counts /\ bound.deliveries \in Nat
      /\ bound'.deliveries = bound.deliveries + 1
  BY <1>0, DeliveredFacts DEF slack_events
<1>3. /\ n \in Delivery /\ n.no = bound.deliveries /\ n.id = d.id /\ n.sel = Addressed(d.id)
  BY <1>1, <1>2 DEF Delivery
<1>4. /\ UNCHANGED <<dry_run, up, disk, tail, rec, permits, holding, cancelling, work, flow, thread>>
      /\ \/ rec[d.id].state # "none" /\ acked' = acked \cup {d.id} /\ checked' = checked
         \/ checked' = checked \cup {n} /\ acked' = acked
  BY DEF slack_events
<1> HIDE DEF n
<1>5. n \notin holding /\ \A c \in checked \cup holding : c.no < bound.deliveries + 1
  <2>1. \A c \in checked \cup holding : c.no \in Nat /\ c.no < bound.deliveries
    BY <1>0 DEF TypeOK, Numbered, Delivery
  <2> QED BY <1>2, <1>3, <2>1
<1>6. Numbered'
  <2>1. IsFiniteSet(holding') /\ checked' \cap holding' = {}
    BY <1>0, <1>4, <1>5 DEF Numbered
  <2>2. \A c \in (checked \cup holding)' :
            /\ c.no < bound'.deliveries
            /\ c.id \in Messages => c.sel = Addressed(c.id)
    BY <1>0, <1>2, <1>3, <1>4, <1>5 DEF Numbered
  <2> QED BY <2>1, <2>2 DEF Numbered
<1>7. TypeOK'
  BY <1>0, <1>1, <1>2, <1>3, <1>4 DEF TypeOK
<1>8. PermitsConserved'
  BY <1>4 DEF IInv, PermitsConserved
<1>9. ASSUME NEW j \in Ids
      PROVE  Each(j)'
  BY <1>4, AcknowledgeKeeps
<1> QED BY <1>6, <1>7, <1>8, <1>9 DEF IInv

LEMMA AcquirePermitKeeps ==
    ASSUME IInv, NEW d \in checked, AcquirePermit(d)
    PROVE  IInv'
<1>1. TypeOK /\ Numbered /\ d \notin holding /\ d \in Delivery
  BY DEF IInv, Numbered, TypeOK
<1>2. /\ UNCHANGED <<dry_run, up, disk, tail, rec, cancelling, work, flow, thread, acked, bound>>
      /\ checked' = checked \ {d}
  BY DEF AcquirePermit
<1>3. /\ IsFiniteSet(Busy) /\ IsFiniteSet(holding) /\ permits \in Nat /\ MaxConcurrent \in Nat
      /\ Cardinality(Busy) \in Nat /\ Cardinality(holding) \in Nat
      /\ permits + Cardinality(Busy) + Cardinality(holding) = MaxConcurrent
  BY PermitsCounted
<1>4. IsFiniteSet(holding \cup {d}) /\ Cardinality(holding \cup {d}) = Cardinality(holding) + 1
  BY <1>1, <1>3, FS_AddElement
<1>5. \/ permits > 0 /\ permits' = permits - 1 /\ holding' = holding \cup {d}
      \/ permits' = permits /\ holding' = holding
  BY DEF AcquirePermit
<1>6. Numbered'
  BY <1>1, <1>2, <1>4, <1>5 DEF Numbered
<1>7. permits' + Cardinality(Busy) + Cardinality(holding') = MaxConcurrent
  BY <1>3, <1>4, <1>5
<1>8. PermitsConserved'
  BY <1>2, <1>7 DEF PermitsConserved, Busy
<1>9. permits' \in 0..MaxConcurrent
  BY <1>1, <1>3, <1>5 DEF TypeOK
<1>10. TypeOK'
  BY <1>1, <1>2, <1>5, <1>9 DEF TypeOK
<1>11. ASSUME NEW j \in Ids
       PROVE  Each(j)'
  BY <1>2, AcknowledgeKeeps
<1> QED BY <1>6, <1>8, <1>10, <1>11 DEF IInv

LEMMA SlackInteractionsKeeps ==
    ASSUME IInv, NEW p \in Submissions, slack_interactions(p)
    PROVE  IInv'
<1> DEFINE d == DispatchDecision(config, p)
           n == [no |-> bound.deliveries, id |-> d.id, sel |-> {d.agent}]
<1>0. TypeOK /\ Numbered
  BY DEF IInv
<1>1. d.id \in Ids /\ d.id \notin Messages /\ d.agent \in Models
  <2>1. p \in Dispatched
    BY DEF Dispatched, slack_interactions
  <2>2. d.id \in Dispatches /\ d.agent = Chosen[d.id]
    BY <2>1, SlackBridgeAssumption
  <2> QED BY <2>2, SlackBridgeAssumption DEF Ids
<1>2. /\ bound' \in Counts /\ bound.deliveries \in Nat
      /\ bound'.deliveries = bound.deliveries + 1
  BY <1>0, DeliveredFacts DEF slack_interactions
<1>3. n \in Delivery /\ n.no = bound.deliveries /\ n.id = d.id
  BY <1>1, <1>2 DEF Delivery
<1>4. /\ UNCHANGED <<dry_run, up, disk, tail, rec, checked, cancelling, work, flow, thread, acked>>
      /\ permits > 0 /\ permits' = permits - 1 /\ holding' = holding \cup {n}
  BY DEF slack_interactions
<1> HIDE DEF n
<1>5. n \notin holding /\ n \notin checked /\ \A c \in checked \cup holding : c.no < bound.deliveries + 1
  <2>1. \A c \in checked \cup holding : c.no \in Nat /\ c.no < bound.deliveries
    BY <1>0 DEF TypeOK, Numbered, Delivery
  <2> QED BY <1>2, <1>3, <2>1
<1>6. /\ IsFiniteSet(Busy) /\ IsFiniteSet(holding) /\ permits \in Nat /\ MaxConcurrent \in Nat
      /\ Cardinality(Busy) \in Nat /\ Cardinality(holding) \in Nat
      /\ permits + Cardinality(Busy) + Cardinality(holding) = MaxConcurrent
  BY PermitsCounted
<1>7. IsFiniteSet(holding \cup {n}) /\ Cardinality(holding \cup {n}) = Cardinality(holding) + 1
  BY <1>5, <1>6, FS_AddElement
<1>8. Numbered'
  <2>1. IsFiniteSet(holding') /\ checked' \cap holding' = {}
    BY <1>0, <1>4, <1>5, <1>7 DEF Numbered
  <2>2. \A c \in (checked \cup holding)' :
            /\ c.no < bound'.deliveries
            /\ c.id \in Messages => c.sel = Addressed(c.id)
    BY <1>0, <1>1, <1>2, <1>3, <1>4, <1>5 DEF Numbered
  <2> QED BY <2>1, <2>2 DEF Numbered
<1>9. PermitsConserved'
  <2>1. permits' + Cardinality(Busy) + Cardinality(holding') = MaxConcurrent
    BY <1>4, <1>6, <1>7
  <2> QED BY <1>4, <2>1 DEF PermitsConserved, Busy
<1>10. TypeOK'
  <2>1. permits' \in 0..MaxConcurrent
    BY <1>0, <1>4, <1>6 DEF TypeOK
  <2> QED BY <1>0, <1>2, <1>3, <1>4, <2>1 DEF TypeOK
<1>11. ASSUME NEW j \in Ids
       PROVE  Each(j)'
  BY <1>4, AcknowledgeKeeps
<1> QED BY <1>8, <1>9, <1>10, <1>11 DEF IInv
LEMMA AddressedPair ==
    ASSUME NEW i
    PROVE  Addressed(i) \subseteq Pair
<1>1. \A s : selected_models(s) \subseteq Pair
  BY DEF selected_models, Pair
<1> QED BY <1>1 DEF Addressed

LEMMA ClaimKeeps ==
    ASSUME IInv, NEW d \in holding, Claim(d)
    PROVE  IInv'
<1> DEFINE i == d.id
           w == [Idle EXCEPT !.sel = d.sel, !.pc = IF i \in Messages THEN "create" ELSE "announce"]
<1>1. /\ TypeOK /\ Numbered /\ d \in Delivery /\ i \in Ids /\ d.sel \subseteq Models
      /\ i \in Messages => d.sel = Addressed(i)
  BY DEF IInv, Numbered, TypeOK, Delivery
<1>2. /\ UNCHANGED <<dry_run, up, checked, cancelling, flow, thread>> /\ up
      /\ holding' = holding \ {d}
  BY DEF Claim
<1>3. /\ IsFiniteSet(Busy) /\ IsFiniteSet(holding) /\ permits \in Nat /\ MaxConcurrent \in Nat
      /\ Cardinality(Busy) \in Nat /\ Cardinality(holding) \in Nat
      /\ permits + Cardinality(Busy) + Cardinality(holding) = MaxConcurrent
  BY PermitsCounted
<1>4. /\ IsFiniteSet(holding \ {d}) /\ Cardinality(holding \ {d}) = Cardinality(holding) - 1
      /\ Cardinality(holding \ {d}) \in Nat
  BY <1>3, FS_RemoveElement, FS_CardinalityType
<1>5. bound'.deliveries = bound.deliveries => Numbered'
  BY <1>1, <1>2, <1>4 DEF Numbered
<1>6. CASE rec[i].state # "none"
  <2>1. /\ permits' = permits + 1 /\ acked' = acked \cup {i} /\ work' = work
        /\ UNCHANGED <<rec, disk, tail, bound>>
    BY <1>6 DEF Claim, NotJournaled
  <2>2. permits' + Cardinality(Busy) + Cardinality(holding') = MaxConcurrent
    BY <1>2, <1>3, <1>4, <2>1
  <2>3. PermitsConserved'
    BY <2>1, <2>2 DEF PermitsConserved, Busy
  <2>4. permits' \in 0..MaxConcurrent
    BY <1>2, <1>3, <1>4, <2>1, <2>2
  <2>5. TypeOK'
    BY <1>1, <1>2, <2>1, <2>4 DEF TypeOK
  <2>6. ASSUME NEW j \in Ids
        PROVE  Each(j)'
    BY <1>2, <1>6, <2>1, AcknowledgeKeeps
  <2> QED BY <1>5, <2>1, <2>3, <2>5, <2>6 DEF IInv
<1>7. NewRecord \in EventRecord /\ NewRecord.state = "claimed" /\ NewRecord.posted = {}
  BY DEF NewRecord, NoRecord, EventRecord
<1>8. ASSUME rec[i].state = "none"
      PROVE  /\ work[i].pc = "idle" /\ flow[i].made = 0 /\ i \notin acked /\ i \notin cancelling
             /\ disk[i].state \in {"none", "claimed"} /\ i \notin Busy /\ Each(i)
             /\ i \in Messages => \A m \in disk[i].posted : Told(i, m)
  <2>1. Each(i) /\ flow[i].made \in Nat
    BY <1>1 DEF IInv, TypeOK, FlowState
  <2> QED BY <1>1, <1>2, <1>8, <2>1 DEF Each, Known, Busy, Truthful
<1>9. CASE rec[i].state = "none" /\ Journaled(i, NewRecord, TRUE)
           /\ work' = [work EXCEPT ![i] = w] /\ acked' = acked \cup {i} /\ permits' = permits
  <2>1. /\ rec' = [rec EXCEPT ![i] = NewRecord]
        /\ \E l \in {NewRecord, disk[i]} : disk' = [disk EXCEPT ![i] = l]
        /\ tail' \in {"clean", "unterminated", "corrupt"}
        /\ tail = "corrupt" => tail' = "corrupt"
        /\ tail' = "corrupt" \/ disk'[i] = NewRecord
        /\ bound' \in Counts /\ bound'.deliveries = bound.deliveries
    BY <1>1, <1>7, <1>9, JournalFacts
  <2>2. /\ w \in WorkerState /\ w.pc = (IF i \in Messages THEN "create" ELSE "announce")
        /\ w.sel = d.sel /\ w.todo = {} /\ w.posted = {}
    <3>1. 0 \in 0..MaxPolls
      BY SlackBridgeAssumption
    <3>2. CASE i \in Messages
      <4>1. w = [Idle EXCEPT !.sel = d.sel, !.pc = "create"]
        BY <3>2
      <4> HIDE DEF w
      <4> QED BY <1>1, <3>1, <3>2, <4>1 DEF Idle, WorkerState, Stages
    <3>3. CASE i \notin Messages
      <4>1. w = [Idle EXCEPT !.sel = d.sel, !.pc = "announce"]
        BY <3>3
      <4> HIDE DEF w
      <4> QED BY <1>1, <3>1, <3>3, <4>1 DEF Idle, WorkerState, Stages
    <3> QED BY <3>2, <3>3
  <2> HIDE DEF w
  <2>3. /\ rec \in [Ids -> EventRecord] /\ disk \in [Ids -> EventRecord]
        /\ work \in [Ids -> WorkerState]
    BY <1>1 DEF TypeOK
  <2>4. /\ rec'[i] = NewRecord /\ work'[i] = w /\ disk'[i] \in {NewRecord, disk[i]}
        /\ rec' \in [Ids -> EventRecord] /\ disk' \in [Ids -> EventRecord]
        /\ work' \in [Ids -> WorkerState]
    BY <1>1, <1>7, <1>9, <2>1, <2>2, <2>3
  <2>5. Busy' = Busy \cup {i}
    BY <1>1, <1>9, <2>2, <2>3 DEF Busy
  <2>6. Cardinality(Busy') = Cardinality(Busy) + 1
    BY <1>3, <1>8, <1>9, <2>5, FS_AddElement
  <2>7. PermitsConserved'
    <3>1. permits' + Cardinality(Busy') + Cardinality(holding') = MaxConcurrent
      BY <1>2, <1>3, <1>4, <1>9, <2>6
    <3> QED BY <3>1 DEF PermitsConserved, Busy
  <2>8. TypeOK'
    BY <1>1, <1>2, <1>9, <2>1, <2>4 DEF TypeOK
  <2>9. Each(i)'
    <3>1. Known(i)'
      BY <1>2, <1>7, <2>1, <2>4 DEF Known, Durable
    <3>2. Made(i)'
      BY <1>2, <1>8, <1>9 DEF Made
    <3>3. Carries(i)'
      BY <1>1, <1>7, <2>2, <2>4, AddressedPair DEF Carries, MessageStages
    <3>4. i \in Messages => Truthful(i, rec[i])' /\ Truthful(i, disk[i])'
      <4>0. HAVE i \in Messages
      <4>1. Truthful(i, rec[i])'
        BY <1>7, <2>4 DEF Truthful
      <4>2. disk'[i].state # "completed" /\ \A m \in disk'[i].posted : Told(i, m)
        BY <1>7, <1>8, <1>9, <2>4, <4>0
      <4>3. Truthful(i, disk[i])'
        BY <1>2, <4>2 DEF Truthful, Told
      <4> QED BY <4>1, <4>3
    <3> QED BY <3>1, <3>2, <3>3, <3>4 DEF Each
  <2>10. ASSUME NEW j \in Ids, j # i
         PROVE  Each(j)'
    <3>1. /\ rec'[j] = rec[j] /\ disk'[j] = disk[j] /\ work'[j] = work[j]
          /\ j \in acked' => j \in acked
      BY <1>9, <2>1, <2>3, <2>10
    <3> QED BY <1>2, <2>1, <2>10, <3>1, OthersKeep DEF IInv
  <2> QED BY <1>5, <2>1, <2>7, <2>8, <2>9, <2>10 DEF IInv
<1>10. CASE rec[i].state = "none" /\ Journaled(i, NewRecord, FALSE)
            /\ permits' = permits + 1 /\ UNCHANGED <<work, acked>>
  <2>1. /\ rec' = [rec EXCEPT ![i] = rec[i]]
        /\ \E l \in {NewRecord, disk[i]} : disk' = [disk EXCEPT ![i] = l]
        /\ tail' \in {"clean", "unterminated", "corrupt"}
        /\ tail = "corrupt" => tail' = "corrupt"
        /\ bound' \in Counts /\ bound'.deliveries = bound.deliveries
    BY <1>1, <1>7, <1>10, JournalFacts
  <2>2. rec \in [Ids -> EventRecord] /\ disk \in [Ids -> EventRecord]
    BY <1>1 DEF TypeOK
  <2>3. /\ rec' = rec /\ disk'[i] \in {NewRecord, disk[i]} /\ disk' \in [Ids -> EventRecord]
    BY <1>1, <1>7, <2>1, <2>2
  <2>4. permits' + Cardinality(Busy) + Cardinality(holding') = MaxConcurrent
    BY <1>2, <1>3, <1>4, <1>10
  <2>5. PermitsConserved'
    BY <1>10, <2>4 DEF PermitsConserved, Busy
  <2>6. permits' \in 0..MaxConcurrent
    BY <1>2, <1>3, <1>4, <1>10, <2>4
  <2>7. TypeOK'
    BY <1>1, <1>2, <1>10, <2>1, <2>3, <2>6 DEF TypeOK
  <2>8. Each(i)'
    <3>1. Known(i)'
      BY <1>2, <1>7, <1>8, <1>10, <2>3 DEF Known
    <3>2. Made(i)' /\ Carries(i)'
      BY <1>2, <1>8, <1>10, <2>3 DEF Each, Made, Carries
    <3>3. i \in Messages => Truthful(i, rec[i])' /\ Truthful(i, disk[i])'
      <4>0. HAVE i \in Messages
      <4>1. Truthful(i, rec[i])'
        BY <1>2, <1>8, <1>10, <2>3, <4>0 DEF Each, Truthful, Told
      <4>2. disk'[i].state # "completed" /\ \A m \in disk'[i].posted : Told(i, m)
        BY <1>7, <1>8, <1>10, <2>3, <4>0
      <4>3. Truthful(i, disk[i])'
        BY <1>2, <4>2 DEF Truthful, Told
      <4> QED BY <4>1, <4>3
    <3> QED BY <3>1, <3>2, <3>3 DEF Each
  <2>9. ASSUME NEW j \in Ids, j # i
        PROVE  Each(j)'
    <3>1. disk'[j] = disk[j]
      BY <2>1, <2>2, <2>9
    <3> QED BY <1>2, <1>10, <2>1, <2>3, <2>9, <3>1, OthersKeep DEF IInv
  <2> QED BY <1>5, <2>1, <2>5, <2>7, <2>8, <2>9 DEF IInv
<1> QED BY <1>6, <1>9, <1>10 DEF Claim

-----------------------------------------------------------------------------
(* Cancellations, crash and restart *)

LEMMA RequestCancelCheckKeeps ==
    ASSUME IInv, NEW env \in Envelopes, RequestCancelCheck(env)
    PROVE  IInv'
<1> DEFINE t == classify_event(config, env).target
<1>1. /\ t \in Ids /\ rec[t].state # "none" /\ cancelling' = cancelling \cup {t}
      /\ UNCHANGED <<dry_run, up, disk, tail, rec, permits, checked, holding, work, flow,
                     thread, acked>>
  BY DEF RequestCancelCheck
<1>2. bound' \in Counts /\ bound'.deliveries = bound.deliveries
  <2>1. bound.cancels + 1 \in Nat
    BY DEF IInv, TypeOK, Counts
  <2> QED BY <2>1 DEF IInv, TypeOK, Counts, RequestCancelCheck
<1>3. TypeOK'
  BY <1>1, <1>2 DEF IInv, TypeOK
<1>4. Numbered' /\ PermitsConserved'
  BY <1>1, <1>2 DEF IInv, Numbered, PermitsConserved
<1>5. ASSUME NEW j \in Ids
      PROVE  Each(j)'
  BY <1>1, AcknowledgeKeeps
<1> QED BY <1>3, <1>4, <1>5 DEF IInv

LEMMA RequestCancelUpdateKeeps ==
    ASSUME IInv, NEW i \in Ids, RequestCancelUpdate(i)
    PROVE  IInv'
<1> DEFINE r == [rec[i] EXCEPT !.cancel = TRUE]
<1>1. /\ UNCHANGED <<dry_run, up, permits, checked, holding, work, flow, thread, acked>>
      /\ cancelling' = cancelling \ {i} /\ \E ok \in BOOLEAN : Journaled(i, r, ok)
  BY DEF RequestCancelUpdate
<1>2. TypeOK /\ Each(i) /\ rec[i] \in EventRecord /\ rec[i].state # "none"
  BY DEF RequestCancelUpdate, IInv, TypeOK, Each, Known
<1>3. r \in EventRecord /\ r.state = rec[i].state /\ r.posted = rec[i].posted
  BY <1>2 DEF EventRecord
<1> HIDE DEF r
<1>4. Writes(i, r) /\ bound' \in Counts /\ bound'.deliveries = bound.deliveries
  BY <1>1, <1>2, <1>3, WritesFacts
<1>5. TypeOK'
  <2>1. rec' \in [Ids -> EventRecord] /\ disk' \in [Ids -> EventRecord]
    BY <1>2, <1>3, <1>4 DEF Writes, TypeOK
  <2> QED BY <1>1, <1>2, <1>4, <2>1 DEF TypeOK, Writes
<1>6. Numbered' /\ PermitsConserved'
  BY <1>1, <1>4 DEF IInv, Numbered, PermitsConserved
<1>7. Each(i)'
  <2>1. rec'[i].state = rec[i].state /\ rec'[i].posted = rec[i].posted
    BY <1>3, <1>4 DEF Writes
  <2>2. Known(i)' /\ Made(i)'
    BY <1>1, <1>2, <1>3, <1>4, <2>1 DEF Each, Known, Made, Durable, Writes
  <2>3. Carries(i)'
    BY <1>1, <1>2, <2>1 DEF Each, Carries
  <2>4. i \in Messages => Truthful(i, rec[i])' /\ Truthful(i, disk[i])'
    BY <1>1, <1>2, <1>3, <1>4, <2>1 DEF Each, Truthful, Told, Writes
  <2> QED BY <2>2, <2>3, <2>4 DEF Each
<1>8. ASSUME NEW j \in Ids, j # i
      PROVE  Each(j)'
  <2>1. rec'[j] = rec[j] /\ disk'[j] = disk[j]
    BY <1>2, <1>4, <1>8 DEF Writes, TypeOK
  <2> QED BY <1>1, <1>4, <1>8, <2>1, OthersKeep DEF IInv, Writes
<1> QED BY <1>5, <1>6, <1>7, <1>8 DEF IInv

\* Nothing is in hand and nobody works: the state of a process that starts.
LEMMA FreshFacts ==
    /\ Idle \in WorkerState /\ Idle.pc = "idle"
    /\ NoRecord \in EventRecord /\ NoRecord.state = "none" /\ NoRecord.posted = {}
    /\ MaxConcurrent \in Nat /\ IsFiniteSet({}) /\ Cardinality({}) = 0
<1>1. Idle \in WorkerState /\ Idle.pc = "idle"
  BY SlackBridgeAssumption DEF Idle, WorkerState, Stages
<1>2. NoRecord \in EventRecord /\ NoRecord.state = "none" /\ NoRecord.posted = {}
  BY DEF NoRecord, EventRecord
<1> QED BY <1>1, <1>2, FS_EmptySet, SlackBridgeAssumption

LEMMA InitKeeps == Init => IInv
<1> SUFFICES ASSUME Init PROVE IInv
  OBVIOUS
<1> DEFINE f == [made |-> 0, agents |-> {}, submitted |-> {}, issue |-> "none"]
           c == [deliveries |-> 0, cancels |-> 0, troubles |-> 0]
<1>1. f \in FlowState /\ f.made = 0 /\ c \in Counts
  BY DEF FlowState, Counts
<1>2. flow = [i \in Ids |-> f] /\ bound = c
  BY DEF Init
<1> HIDE DEF f, c
<1>3. TypeOK
  <2>1. dry_run \in BOOLEAN
    BY SlackBridgeAssumption DEF Init
  <2> QED BY <1>1, <1>2, <2>1, FreshFacts DEF Init, TypeOK
<1>4. Numbered /\ {i \in Ids : work[i].pc # "idle"} = {}
  BY FreshFacts DEF Init, Numbered
<1>5. PermitsConserved
  <2>1. permits = MaxConcurrent /\ holding = {}
    BY DEF Init
  <2>2. MaxConcurrent + 0 + 0 = MaxConcurrent
    BY FreshFacts
  <2> QED BY <1>4, <2>1, <2>2, FreshFacts, Zenon DEF PermitsConserved
<1>6. ASSUME NEW i \in Ids
      PROVE  Each(i)
  <2>1. /\ work[i] = Idle /\ rec[i] = NoRecord /\ disk[i] = NoRecord /\ flow[i].made = 0
        /\ i \notin acked /\ i \notin cancelling
    BY <1>1, <1>2 DEF Init
  <2> QED BY <2>1, FreshFacts
          DEF Each, Known, Made, Carries, Truthful, MessageStages
<1> QED BY <1>3, <1>4, <1>5, <1>6 DEF IInv

LEMMA CrashKeeps ==
    ASSUME IInv, Crash
    PROVE  IInv'
<1>1. /\ up' = FALSE /\ rec' = [i \in Ids |-> NoRecord] /\ permits' = MaxConcurrent
      /\ checked' = {} /\ holding' = {} /\ cancelling' = {} /\ work' = [i \in Ids |-> Idle]
      /\ UNCHANGED <<dry_run, disk, tail, flow, thread, acked>>
  BY DEF Crash
<1>2. bound' \in Counts
  BY TroubleFacts DEF Crash, IInv
<1>3. TypeOK'
  <2>1. permits' \in 0..MaxConcurrent
    BY <1>1, FreshFacts
  <2>2. work' \in [Ids -> WorkerState] /\ rec' \in [Ids -> EventRecord]
    BY <1>1, FreshFacts
  <2> QED BY <1>1, <1>2, <2>1, <2>2 DEF IInv, TypeOK
<1>4. Numbered' /\ {i \in Ids : work'[i].pc # "idle"} = {}
  BY <1>1, FreshFacts DEF Numbered
<1>5. PermitsConserved'
  BY <1>1, <1>4, FreshFacts DEF PermitsConserved
<1>6. ASSUME NEW i \in Ids
      PROVE  Each(i)'
  <2>1. Each(i)
    BY DEF IInv
  <2>2. work'[i] = Idle /\ rec'[i] = NoRecord
    BY <1>1
  <2>3. Known(i)' /\ Made(i)' /\ Carries(i)'
    BY <1>1, <2>1, <2>2, FreshFacts
       DEF Each, Known, Made, Carries, Durable, MessageStages
  <2>4. i \in Messages => Truthful(i, rec[i])' /\ Truthful(i, disk[i])'
    BY <1>1, <2>1, <2>2, FreshFacts DEF Each, Truthful, Told
  <2> QED BY <2>3, <2>4 DEF Each
<1> QED BY <1>3, <1>4, <1>5, <1>6 DEF IInv

LEMMA RestartKeeps ==
    ASSUME IInv, Restart
    PROVE  IInv'
<1>1. /\ ~up /\ tail # "corrupt" /\ up' = TRUE /\ rec' = disk
      /\ UNCHANGED <<dry_run, disk, tail, permits, checked, holding, cancelling, work, flow,
                     thread, acked, bound>>
  BY DEF Restart
<1>2. TypeOK' /\ Numbered' /\ PermitsConserved'
  BY <1>1 DEF IInv, TypeOK, Numbered, PermitsConserved
<1>3. ASSUME NEW i \in Ids
      PROVE  Each(i)'
  <2>1. Each(i) /\ work[i].pc = "idle" /\ i \notin cancelling
    BY <1>1 DEF IInv, Each, Known
  <2>2. Known(i)' /\ Made(i)' /\ Carries(i)'
    BY <1>1, <2>1 DEF Each, Known, Made, Carries, Durable, MessageStages
  <2>3. i \in Messages => Truthful(i, rec[i])' /\ Truthful(i, disk[i])'
    BY <1>1, <2>1 DEF Each, Truthful, Told
  <2> QED BY <2>2, <2>3 DEF Each
<1> QED BY <1>2, <1>3 DEF IInv
-----------------------------------------------------------------------------
(* The theorems *)

LEMMA NextKeeps == IInv /\ [Next]_vars => IInv'
<1> SUFFICES ASSUME IInv, [Next]_vars PROVE IInv'
  OBVIOUS
<1>1. CASE \E env \in Envelopes : slack_events(env) \/ RequestCancelCheck(env)
  BY <1>1, SlackEventsKeeps, RequestCancelCheckKeeps
<1>2. CASE \E p \in Submissions : slack_interactions(p)
  BY <1>2, SlackInteractionsKeeps
<1>3. CASE \E d \in checked : AcquirePermit(d)
  BY <1>3, AcquirePermitKeeps
<1>4. CASE \E d \in holding : Claim(d)
  BY <1>4, ClaimKeeps
<1>5. CASE \E i \in Ids : RequestCancelUpdate(i)
  BY <1>5, RequestCancelUpdateKeeps
<1>6. CASE \E i \in Ids : Worker(i)
  BY <1>6, ProcessEventKeeps, ProcessDispatchKeeps DEF Worker
<1>7. CASE \E i \in Ids, m \in Models : AgentSubmits(i, m)
  BY <1>7, AgentSubmitsKeeps
<1>8. CASE Crash
  BY <1>8, CrashKeeps
<1>9. CASE Restart
  BY <1>9, RestartKeeps
<1>10. CASE UNCHANGED vars
  <2>1. UNCHANGED <<dry_run, up, disk, tail, rec, permits, checked, holding, cancelling, work,
                    flow, thread, acked, bound>>
    BY <1>10 DEF vars
  <2>2. TypeOK' /\ Numbered' /\ PermitsConserved'
    BY <2>1 DEF IInv, TypeOK, Numbered, PermitsConserved
  <2>3. ASSUME NEW j \in Ids
        PROVE  Each(j)'
    BY <2>1, AcknowledgeKeeps
  <2> QED BY <2>2, <2>3 DEF IInv
<1> QED BY <1>1, <1>2, <1>3, <1>4, <1>5, <1>6, <1>7, <1>8, <1>9, <1>10 DEF Next

LEMMA Invariance == Spec => []IInv
<1>1. Init => IInv
  BY InitKeeps
<1>2. IInv /\ [Next]_vars => IInv'
  BY NextKeeps
<1> QED BY <1>1, <1>2, PTL DEF Spec

\* The adapter's state keeps its types: the free permits stay between none and the limit,
\* whatever handlers, workers, failures and crashes do to them.
THEOREM TypeCorrect == Spec => []TypeOK
<1>1. IInv => TypeOK
  BY DEF IInv
<1> QED BY <1>1, Invariance, PTL

\* Every permit of workflow_limit is free, with a delivery or with a worker, for every limit.
THEOREM PermitsAreConserved == Spec => []PermitsConserved
<1>1. IInv => PermitsConserved
  BY DEF IInv
<1> QED BY <1>1, Invariance, PTL

\* However often an event is delivered and wherever the process crashes, one workflow at
\* most is made for it: the claim in the journal outlives the process, or no process starts.
THEOREM EventMakesOneWorkflow == Spec => []OneWorkflowPerEvent
<1>1. IInv => OneWorkflowPerEvent
  BY DEF IInv, OneWorkflowPerEvent, Each, Made
<1> QED BY <1>1, Invariance, PTL

\* An event that was acknowledged is in the journal, and one whose record says completed
\* was answered for every model it addressed.
THEOREM JournalIsTrue == Spec => []JournalTellsTruth
<1>1. IInv => AckedIsDurable
  BY DEF IInv, TypeOK, AckedIsDurable, Each, Known, Durable
<1>2. IInv => CompletedMeansAnswered
  BY DEF IInv, CompletedMeansAnswered, Each, Truthful, Told, Ids
<1> QED BY <1>1, <1>2, Invariance, PTL DEF JournalTellsTruth

\* A worker's step leaves the other ids and the deliveries in hand alone.
Elsewhere(j) ==
    /\ rec'[j] = rec[j] /\ disk'[j] = disk[j] /\ work'[j] = work[j]
    /\ flow'[j] = flow[j] /\ thread'[j] = thread[j]
LEMMA WorkerIsLocal ==
    ASSUME TypeOK, NEW i \in Ids, Worker(i)
    PROVE  Fixed /\ \A j \in Ids : j # i => Elsewhere(j)
<1>0. /\ rec \in [Ids -> EventRecord] /\ disk \in [Ids -> EventRecord]
      /\ work \in [Ids -> WorkerState] /\ flow \in [Ids -> FlowState]
      /\ thread \in [Ids -> SUBSET Replies]
  BY DEF TypeOK
<1> SUFFICES ASSUME NEW j \in Ids, j # i
             PROVE  Fixed /\ Elsewhere(j)
  <2>1. Fixed
    BY DEF Worker, process_event, process_dispatch, ProcessDryRun, CreateWorkflow, PostNext,
           post_start_failure_pair, PollExpired, PollTop, get_workflow, PostSubmissions,
           PostDeadlineFailures, AnnounceDispatch, create_single_agent_workflow,
           DispatchFailed, DispatchAnswered, DispatchTimeout, EndDispatch
  <2> QED BY <2>1
<1> DEFINE Lines == rec'[j] = rec[j] /\ disk'[j] = disk[j]
<1>1. /\ \A s, what : Wrote(i, s, what) => disk'[j] = disk[j]
      /\ \A s : Logged(i, s) => Lines
      /\ NotJournaled => Lines
      /\ UNCHANGED <<rec, disk, tail>> => Lines
      /\ \A s : NotLogged(i, s) => Lines
  BY <1>0 DEF Logged, NotLogged, Wrote, NotJournaled
<1>2. \A s : \A ok \in BOOLEAN : Journaled(i, s, ok) => Lines
  BY <1>1 DEF Journaled
<1>3. /\ \A m, k : Say(i, m, k) => thread'[j] = thread[j]
      /\ \A a : Making(i, a) => flow'[j] = flow[j]
      /\ \A s : Issue(i, s) => flow'[j] = flow[j]
      /\ \A w : Continue(i, w) => work'[j] = work[j]
      /\ Finish(i) => work'[j] = work[j]
  BY <1>0 DEF Say, Making, Issue, Continue, Finish
<1> HIDE DEF Lines
<1>4. ASSUME NEW k, PostNext(i, k)
      PROVE  Fixed /\ Lines /\ Elsewhere(j)
  BY <1>1, <1>2, <1>3, <1>4 DEF PostNext, Elsewhere, Lines
<1>5. \A c : EndWith(i, c) => Lines /\ work'[j] = work[j]
  BY <1>1, <1>2, <1>3 DEF EndWith
<1>6. ASSUME NEW k, NEW s, EndDispatch(i, k, s)
      PROVE  Fixed /\ Elsewhere(j)
  BY <1>1, <1>3, <1>5, <1>6 DEF EndDispatch, Elsewhere, Lines
<1>7. CASE ProcessDryRun(i) \/ PollExpired(i) \/ PollTop(i) \/ get_workflow(i)
  BY <1>1, <1>2, <1>3, <1>7
     DEF ProcessDryRun, PollExpired, PollTop, get_workflow, Elsewhere, Lines
<1>8. CASE CreateWorkflow(i)
  BY <1>1, <1>2, <1>3, <1>8 DEF CreateWorkflow, Elsewhere, Lines
<1>9. CASE post_start_failure_pair(i)
  BY <1>4, <1>5, <1>9 DEF post_start_failure_pair, Elsewhere, Lines
<1>10. CASE PostSubmissions(i)
  BY <1>1, <1>3, <1>4, <1>5, <1>10 DEF PostSubmissions, Elsewhere, Lines
<1>11. CASE PostDeadlineFailures(i)
  BY <1>4, <1>5, <1>11 DEF PostDeadlineFailures, Elsewhere, Lines
<1>12. CASE AnnounceDispatch(i)
  BY <1>0, <1>1, <1>3, <1>12 DEF AnnounceDispatch, Elsewhere, Lines
<1>13. CASE create_single_agent_workflow(i)
  BY <1>0, <1>1, <1>2, <1>3, <1>13 DEF create_single_agent_workflow, Elsewhere, Lines
<1>14. CASE DispatchFailed(i) \/ DispatchAnswered(i) \/ DispatchTimeout(i)
  BY <1>6, <1>14 DEF DispatchFailed, DispatchAnswered, DispatchTimeout
<1> QED BY <1>7, <1>8, <1>9, <1>10, <1>11, <1>12, <1>13, <1>14
        DEF Worker, process_event, process_dispatch

LEMMA WorkerIsBusy ==
    ASSUME NEW i \in Ids, Worker(i)
    PROVE  work[i].pc # "idle"
BY DEF Worker, process_event, process_dispatch, ProcessDryRun, CreateWorkflow,
       post_start_failure_pair, PollExpired, PollTop, get_workflow, PostSubmissions,
       PostDeadlineFailures, AnnounceDispatch, create_single_agent_workflow, DispatchFailed,
       DispatchAnswered, DispatchTimeout

\* No step reopens or relabels an ended run, and a canceled one posts nothing more, in
\* whatever order cancellations, deadlines, workers and restarts come.
THEOREM EndStaysEnd == Spec => EndIsFinal
<1> DEFINE A == \A i \in Ids : rec[i].state = "canceled" => thread'[i] = thread[i]
           B == \A i \in Ids : rec[i].state \in Terminal /\ up' => rec'[i].state = rec[i].state
<1>1. ASSUME IInv, [Next]_vars
      PROVE  A /\ B
  <2>0. TypeOK /\ rec \in [Ids -> EventRecord]
    BY <1>1 DEF IInv, TypeOK
  <2>1. CASE UNCHANGED <<rec, thread>>
    BY <2>1
  <2>2. ASSUME NEW i \in Ids, Worker(i)
        PROVE  A /\ B
    <3>1. rec[i].state \in {"claimed", "workflow_created"}
      BY <1>1, <2>2, WorkerIsBusy, BusyFacts
    <3>2. \A j \in Ids : j # i => rec'[j] = rec[j] /\ thread'[j] = thread[j]
      BY <2>0, <2>2, WorkerIsLocal DEF Elsewhere
    <3> QED BY <3>1, <3>2 DEF Terminal
  <2>3. ASSUME NEW d \in holding, Claim(d)
        PROVE  A /\ B
    <3>1. d.id \in Ids /\ thread' = thread
      BY <2>0, <2>3 DEF Claim, TypeOK, Delivery
    <3>2. rec[d.id].state = "none" \/ rec' = rec
      BY <2>3 DEF Claim, NotJournaled
    <3>3. \A j \in Ids : j # d.id => rec'[j] = rec[j]
      BY <2>0, <2>3 DEF Claim, NotJournaled, Journaled, Logged, NotLogged
    <3> QED BY <3>1, <3>2, <3>3 DEF Terminal
  <2>4. ASSUME NEW i \in Ids, RequestCancelUpdate(i)
        PROVE  A /\ B
    <3>1. thread' = thread /\ rec' \in {rec, [rec EXCEPT ![i] = [rec[i] EXCEPT !.cancel = TRUE]]}
      BY <2>4 DEF RequestCancelUpdate, Journaled, Logged, NotLogged
    <3>2. [rec[i] EXCEPT !.cancel = TRUE].state = rec[i].state
      BY <2>0 DEF EventRecord
    <3> QED BY <2>0, <3>1, <3>2
  <2>5. CASE Crash
    BY <2>5 DEF Crash
  <2>6. CASE Restart
    <3>1. \A i \in Ids : rec[i].state = "none"
      BY <1>1, <2>6 DEF Restart, IInv, Each, Known
    <3> QED BY <2>6, <3>1 DEF Restart, Terminal
  <2>7. CASE UNCHANGED vars
    BY <2>1, <2>7 DEF vars
  <2>8. CASE \E env \in Envelopes : slack_events(env) \/ RequestCancelCheck(env)
    BY <2>1, <2>8 DEF slack_events, RequestCancelCheck
  <2>9. CASE \E p \in Submissions : slack_interactions(p)
    BY <2>1, <2>9 DEF slack_interactions
  <2>10. CASE \E d \in checked : AcquirePermit(d)
    BY <2>1, <2>10 DEF AcquirePermit
  <2>11. CASE \E i \in Ids, m \in Models : AgentSubmits(i, m)
    BY <2>1, <2>11 DEF AgentSubmits
  <2> QED BY <1>1, <2>2, <2>3, <2>4, <2>5, <2>6, <2>7, <2>8, <2>9, <2>10, <2>11 DEF Next
<1>2. IInv /\ [Next]_vars => [A]_vars /\ [B]_vars
  BY <1>1
<1> QED BY <1>2, Invariance, PTL DEF Spec, EndIsFinal, CanceledStaysSilent, TerminalIsFinal

-----------------------------------------------------------------------------
(* Authorisation: an id leaves a trace only for somebody who may ask *)

\* What Slack delivered for the id was accepted, and came from somebody who may ask.
Requested(i) ==
    \/ \E e \in Accepted : AuthorisedEvent(config, e) /\ classify_event(config, e).id = i
    \/ \E p \in Dispatched : AuthorisedSubmission(config, p) /\ DispatchDecision(config, p).id = i

\* The id has a record or a line in the journal, a workflow, an issue or a reply.
Trace(i) ==
    \/ rec[i].state # "none" \/ disk[i].state # "none"
    \/ flow[i].made > 0 \/ flow[i].issue # "none" \/ thread[i] # {}

OnlyRequested ==
    /\ \A d \in checked \cup holding : Requested(d.id)
    /\ \A i \in Ids : Trace(i) \/ work[i].pc # "idle" \/ i \in acked \cup cancelling => Requested(i)

\* classify_event accepts a message only from a member who may ask.
LEMMA AcceptedIsAuthorised ==
    ASSUME NEW c, NEW env, classify_event(c, env).kind = "accept"
    PROVE  AuthorisedEvent(c, env)
<1> DEFINE thread_ts == IF env.thread = None THEN env.ts ELSE env.thread
<1>1. /\ classify_event(c, env) = ClassifyMessage(c, env)
      /\ env.team \in c.allowed_team_ids
      /\ c.expected_app_id \in {None, env.app}
  BY DEF classify_event, ClassifyHandshake
<1>2. ClassifyMessage(c, env).kind = "accept"
  BY <1>1
<1>3. /\ ~env.automated /\ env.user # None /\ ~(c.bot_user_id # None /\ env.user = c.bot_user_id)
      /\ env.channel \in c.allowed_channel_ids
      /\ ~(c.allowed_thread_ts # {} /\ thread_ts \notin c.allowed_thread_ts)
  BY <1>2 DEF ClassifyMessage
<1> QED BY <1>1, <1>3 DEF AuthorisedEvent, channel_is_allowed

\* slack_interactions dispatches only a submission that may be made.
LEMMA DispatchedIsAuthorised ==
    ASSUME NEW c, NEW p, DispatchDecision(c, p).kind = "dispatch"
    PROVE  AuthorisedSubmission(c, p)
BY DEF DispatchDecision, AuthorisedSubmission

\* What a step must respect.
LEMMA RequestedFrame ==
    ASSUME OnlyRequested,
           \A d \in (checked' \cup holding') \ (checked \cup holding) : Requested(d.id),
           \A i \in Ids : \/ Requested(i)
                          \/ /\ Trace(i)' => Trace(i)
                             /\ work'[i].pc # "idle" => work[i].pc # "idle"
                             /\ i \in acked' \cup cancelling' => i \in acked \cup cancelling
    PROVE  OnlyRequested'
BY DEF OnlyRequested, Requested

\* A delivery's id is asked for by what was delivered.
LEMMA DeliveredIsRequested ==
    /\ \A e \in Envelopes : classify_event(config, e).kind = "accept" =>
            Requested(classify_event(config, e).id)
    /\ \A p \in Submissions : DispatchDecision(config, p).kind = "dispatch" =>
            Requested(DispatchDecision(config, p).id)
BY AcceptedIsAuthorised, DispatchedIsAuthorised DEF Requested, Accepted, Dispatched

LEMMA RequestedKeeps ==
    ASSUME IInv, OnlyRequested, [Next]_vars
    PROVE  OnlyRequested'
<1>0. TypeOK /\ rec \in [Ids -> EventRecord] /\ disk \in [Ids -> EventRecord]
  BY DEF IInv, TypeOK
<1>1. ASSUME NEW env \in Envelopes, slack_events(env)
      PROVE  OnlyRequested'
  <2>1. Requested(classify_event(config, env).id)
    BY <1>1, DeliveredIsRequested DEF slack_events
  <2> QED BY <1>1, <2>1, RequestedFrame DEF slack_events, Trace
<1>2. ASSUME NEW env \in Envelopes, RequestCancelCheck(env)
      PROVE  OnlyRequested'
  <2> DEFINE t == classify_event(config, env).target
  <2>1. t \in Ids /\ Requested(t) /\ cancelling' = cancelling \cup {t}
    BY <1>2 DEF RequestCancelCheck, OnlyRequested, Trace
  <2> HIDE DEF t
  <2> QED BY <1>2, <2>1, RequestedFrame DEF RequestCancelCheck, Trace
<1>3. ASSUME NEW p \in Submissions, slack_interactions(p)
      PROVE  OnlyRequested'
  <2>1. Requested(DispatchDecision(config, p).id)
    BY <1>3, DeliveredIsRequested DEF slack_interactions
  <2> QED BY <1>3, <2>1, RequestedFrame DEF slack_interactions, Trace
<1>4. ASSUME NEW d \in checked, AcquirePermit(d)
      PROVE  OnlyRequested'
  BY <1>4, RequestedFrame DEF AcquirePermit, Trace
<1>5. ASSUME NEW d \in holding, Claim(d)
      PROVE  OnlyRequested'
  <2>1. Requested(d.id) /\ d.id \in Ids
    BY <1>0, <1>5 DEF OnlyRequested, TypeOK, Delivery
  <2>2. ASSUME NEW j \in Ids, j # d.id
        PROVE  /\ rec'[j] = rec[j] /\ disk'[j] = disk[j] /\ work'[j] = work[j]
               /\ j \in acked' => j \in acked
    BY <1>0, <1>5, <2>1, <2>2 DEF Claim, NotJournaled, Journaled, Logged, NotLogged, Wrote, TypeOK
  <2>3. UNCHANGED <<checked, cancelling, flow, thread>> /\ holding' \subseteq holding
    BY <1>5 DEF Claim
  <2> QED BY <2>1, <2>2, <2>3, RequestedFrame DEF Trace
<1>6. ASSUME NEW i \in Ids, RequestCancelUpdate(i)
      PROVE  OnlyRequested'
  <2>1. Requested(i)
    BY <1>6 DEF RequestCancelUpdate, OnlyRequested
  <2>2. ASSUME NEW j \in Ids, j # i
        PROVE  rec'[j] = rec[j] /\ disk'[j] = disk[j]
    BY <1>0, <1>6, <2>2 DEF RequestCancelUpdate, Journaled, Logged, NotLogged, Wrote
  <2>3. UNCHANGED <<checked, holding, acked, work, flow, thread>> /\ cancelling' \subseteq cancelling
    BY <1>6 DEF RequestCancelUpdate
  <2> QED BY <2>1, <2>2, <2>3, RequestedFrame DEF Trace
<1>7. ASSUME NEW i \in Ids, Worker(i)
      PROVE  OnlyRequested'
  <2>1. Requested(i)
    BY <1>7, WorkerIsBusy DEF OnlyRequested
  <2>2. Fixed /\ \A j \in Ids : j # i => Elsewhere(j)
    BY <1>0, <1>7, WorkerIsLocal
  <2> QED BY <2>1, <2>2, RequestedFrame DEF Trace, Fixed, Elsewhere
<1>8. ASSUME NEW i \in Ids, NEW m \in Models, AgentSubmits(i, m)
      PROVE  OnlyRequested'
  <2>1. Requested(i)
    BY <1>8 DEF AgentSubmits, OnlyRequested
  <2>2. \A j \in Ids : j # i => flow'[j] = flow[j]
    BY <1>0, <1>8 DEF AgentSubmits, TypeOK
  <2> QED BY <1>8, <2>1, <2>2, RequestedFrame DEF AgentSubmits, Trace
<1>9. CASE Crash
  <2>1. \A i \in Ids : rec'[i].state = "none" /\ work'[i].pc = "idle"
    BY <1>9 DEF Crash, NoRecord, Idle
  <2> QED BY <1>9, <2>1, RequestedFrame DEF Crash, Trace
<1>10. CASE Restart
  BY <1>10, RequestedFrame DEF Restart, Trace
<1>11. CASE UNCHANGED vars
  BY <1>11, RequestedFrame DEF vars, Trace
<1> QED BY <1>1, <1>2, <1>3, <1>4, <1>5, <1>6, <1>7, <1>8, <1>9, <1>10, <1>11 DEF Next

\* Whatever Slack delivers, redelivers or echoes, and across restarts, the adapter keeps a
\* record, makes a workflow or an issue, and posts, only for an id that a member of an
\* allowed team and channel asked for; never for its own messages.
THEOREM WorkIsRequested == Spec => []OnlyRequested
<1>1. Init => OnlyRequested
  BY DEF Init, OnlyRequested, Trace, NoRecord, Idle
<1>2. IInv /\ OnlyRequested /\ [Next]_vars => OnlyRequested'
  BY RequestedKeeps
<1> QED BY <1>1, <1>2, Invariance, PTL DEF Spec
=============================================================================
