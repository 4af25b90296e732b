-------------------------- MODULE SlackCommandProofs --------------------------
(***************************************************************************)
(* Proofs about SlackCommand, for every set of runs, settings and requests, *)
(* and any number of deliveries, failures and crashes.                      *)
(*                                                                         *)
(* The file of a run is its claim: what was dispatched, made or answered    *)
(* "started" has one, and only a run without one is dispatched.  A permit   *)
(* is with the delivery that claims or with the dispatch it became.         *)
(***************************************************************************)
EXTENDS SlackCommand, FiniteSetTheorems, SequenceTheorems, TLAPS

-----------------------------------------------------------------------------
(* The inductive invariant *)

\* A run: its file comes first, its remote writes follow one another.
ByRun(r) ==
    /\ made[r] \in {0, 1}
    /\ work[r] # "idle" \/ made[r] = 1 \/ "started" \in told[r] => r \in journal
    /\ work[r] \in {"resolve", "dry", "workflow"} => made[r] = 0
    /\ work[r] \in {"job", "status"} => made[r] = 1
    /\ r \in jobs => made[r] = 1
    /\ work[r] = "status" => r \in jobs
    /\ r \in posted /\ ~config.dry_run => r \in jobs
    /\ config.dry_run => made[r] = 0 /\ work[r] \in {"idle", "resolve", "dry"}
    /\ work[r] = "dry" => config.dry_run

\* A delivery that is not done asks for a run, and one that started it has its file.
ByCall(n) ==
    /\ call[n].pc # "done" => call[n].req \in Asked
    /\ call[n].pc = "started" => call[n].req.run \in journal

IInv ==
    /\ TypeOK /\ CapacityKept /\ ConnectedMeansDriving
    /\ \A r \in Runs : ByRun(r)
    /\ \A n \in DOMAIN call : ByCall(n)

Claims == {n \in DOMAIN call : call[n].pc = "claim"}
Frames == {n \in DOMAIN call : call[n].via = "socket" /\ call[n].pc # "done"}
Working == {r \in Runs : work[r] # "idle"}
Places == {"idle", "resolve", "dry", "workflow", "job", "status"}

-----------------------------------------------------------------------------
(* What a step may touch *)

\* The permits, the claims and the dispatches are counted as natural numbers.
LEMMA CountFacts ==
    ASSUME IInv
    PROVE  /\ IsFiniteSet(Claims) /\ IsFiniteSet(Frames) /\ IsFiniteSet(Working)
           /\ Cardinality(Claims) \in Nat /\ Cardinality(Working) \in Nat
           /\ permits \in Nat /\ Limit \in Nat
           /\ permits + Cardinality(Claims) + Cardinality(Working) = Limit
           /\ Cardinality(Frames) = IF socket.pc = "handle" THEN 1 ELSE 0
<1>1. IsFiniteSet(DOMAIN call)
  <2>1. call \in Seq(Delivery)
    BY DEF IInv, TypeOK
  <2>2. DOMAIN call = 1..Len(call) /\ Len(call) \in Nat
    BY <2>1
  <2> QED BY <2>2, FS_Interval
<1>2. IsFiniteSet(Claims) /\ IsFiniteSet(Frames)
  BY <1>1, FS_Subset DEF Claims, Frames
<1>3. IsFiniteSet(Working)
  BY SlackCommandAssumption, FS_Subset DEF Working
<1>4. Cardinality(Claims) \in Nat /\ Cardinality(Working) \in Nat
  BY <1>2, <1>3, FS_CardinalityType
<1>5. permits \in Nat /\ Limit \in Nat
  <2>1. permits \in 0..Limit /\ from_env(config)
    BY DEF IInv, TypeOK, Startable
  <2>2. Limit \in 1..128
    BY <2>1 DEF from_env, Limit
  <2> QED BY <2>1, <2>2
<1>6. /\ permits + Cardinality(Claims) + Cardinality(Working) = Limit
      /\ Cardinality(Frames) = IF socket.pc = "handle" THEN 1 ELSE 0
  BY DEF IInv, CapacityKept, PermitsConserved, OneFrameInHand, Claims, Working, Frames
<1> QED BY <1>2, <1>3, <1>4, <1>5, <1>6

\* A sum that is kept bounds the free permits.
LEMMA PermitsBounded ==
    ASSUME IInv, config' = config, permits' \in Nat,
           Cardinality(Claims') \in Nat, Cardinality(Working') \in Nat,
           permits' + Cardinality(Claims') + Cardinality(Working') = Limit
    PROVE  PermitsConserved' /\ permits' \in 0..Limit'
<1>1. Limit' = Limit /\ Limit \in Nat
  BY CountFacts DEF Limit
<1>2. PermitsConserved'
  BY <1>1 DEF PermitsConserved, Claims, Working
<1>3. permits' \in 0..Limit'
  BY <1>1
<1> QED BY <1>2, <1>3

\* One delivery moves.
LEMMA CallFacts ==
    ASSUME IInv, NEW n \in DOMAIN call, NEW c \in Delivery, call' = [call EXCEPT ![n] = c]
    PROVE  /\ call' \in Seq(Delivery) /\ DOMAIN call' = DOMAIN call
           /\ call'[n] = c /\ \A m \in DOMAIN call : m # n => call'[m] = call[m]
           /\ Claims' = IF c.pc = "claim" THEN Claims \cup {n} ELSE Claims \ {n}
           /\ Frames' = IF c.via = "socket" /\ c.pc # "done" THEN Frames \cup {n}
                        ELSE Frames \ {n}
<1>1. call \in Seq(Delivery)
  BY DEF IInv, TypeOK
<1>2. call' \in Seq(Delivery) /\ DOMAIN call' = DOMAIN call
  BY <1>1
<1>3. call'[n] = c /\ \A m \in DOMAIN call : m # n => call'[m] = call[m]
  BY <1>1
<1>4. Claims' = IF c.pc = "claim" THEN Claims \cup {n} ELSE Claims \ {n}
  BY <1>2, <1>3 DEF Claims
<1>5. Frames' = IF c.via = "socket" /\ c.pc # "done" THEN Frames \cup {n} ELSE Frames \ {n}
  BY <1>2, <1>3 DEF Frames
<1> QED BY <1>2, <1>3, <1>4, <1>5

\* A run that a step does not carry out keeps its part of the invariant.
LEMMA RunKept ==
    ASSUME NEW r \in Runs, ByRun(r), config' = config, work'[r] = work[r], made'[r] = made[r],
           r \in jobs' <=> r \in jobs, r \in posted' <=> r \in posted,
           r \in journal => r \in journal',
           "started" \in told'[r] => "started" \in told[r] \/ r \in journal'
    PROVE  ByRun(r)'
BY DEF ByRun

LEMMA CallKept ==
    ASSUME NEW n \in DOMAIN call, ByCall(n), call'[n] = call[n], journal \subseteq journal'
    PROVE  ByCall(n)'
BY DEF ByCall

LEMMA TroubleFacts ==
    ASSUME TypeOK, Trouble
    PROVE  troubles' \in Nat
BY DEF TypeOK, Trouble
-----------------------------------------------------------------------------
(* Deliveries *)

\* What the invariant says of a delivery that is under way.
LEMMA UnderwayFacts ==
    ASSUME IInv, NEW n \in DOMAIN call, call[n].pc # "done"
    PROVE  /\ TypeOK /\ call[n] \in Delivery /\ call[n].req \in Asked
           /\ call[n].req.run \in Runs /\ call \in Seq(Delivery)
<1>1. TypeOK /\ call \in Seq(Delivery) /\ ByCall(n)
  BY DEF IInv, TypeOK
<1>2. call[n] \in Delivery
  BY <1>1
<1> QED BY <1>1, <1>2, SlackCommandAssumption DEF ByCall

\* c follows call[n]: it is over, or the same request of the same transport.
Follows(n, c) ==
    /\ c \in Delivery /\ call' = [call EXCEPT ![n] = c]
    /\ c.pc # "done" => c.via = call[n].via /\ c.req = call[n].req
    /\ call[n].via = "socket" => c.pc # "done"

\* What was told is an answer, and "started" only to the one whose answer it is.
ToldFacts(n, answer) ==
    /\ told' \in [Runs -> SUBSET Answers]
    /\ \A r \in Runs : "started" \in told'[r] =>
            "started" \in told[r] \/ (r = call[n].req.run /\ answer = "started")

LEMMA GoFacts ==
    ASSUME IInv, NEW n \in DOMAIN call, call[n].pc # "done",
           NEW pc \in Underway \cup Answers, Go(n, pc)
    PROVE  \E c : Follows(n, c) /\ c.pc = pc /\ told' = told
<1> DEFINE c == [call[n] EXCEPT !.pc = pc]
<1>1. call[n] \in Delivery
  BY UnderwayFacts
<1>2. c \in Delivery /\ c.pc = pc /\ c.via = call[n].via /\ c.req = call[n].req
  BY <1>1 DEF Delivery
<1>3. pc # "done"
  BY DEF Underway, Answers
<1>4. call' = [call EXCEPT ![n] = c] /\ told' = told
  BY DEF Go
<1> HIDE DEF c
<1>5. Follows(n, c)
  BY <1>2, <1>3, <1>4 DEF Follows
<1> QED BY <1>2, <1>4, <1>5

LEMMA AnsweredFacts ==
    ASSUME IInv, NEW n \in DOMAIN call, call[n].pc # "done",
           NEW answer \in Answers, Answered(n, answer)
    PROVE  \E c : Follows(n, c) /\ c.pc \in {answer, "done"} /\ ToldFacts(n, answer)
<1>1. call[n].req.run \in Runs /\ told \in [Runs -> SUBSET Answers]
  BY UnderwayFacts DEF TypeOK
<1>2. CASE call[n].via = "socket"
  <2>1. Go(n, answer)
    BY <1>2 DEF Answered
  <2>2. PICK c : Follows(n, c) /\ c.pc = answer /\ told' = told
    BY <2>1, GoFacts
  <2>3. ToldFacts(n, answer)
    BY <1>1, <2>2 DEF ToldFacts
  <2> QED BY <2>2, <2>3
<1>3. CASE call[n].via # "socket"
  <2>1. /\ call' = [call EXCEPT ![n] = Done]
        /\ told' = [told EXCEPT ![call[n].req.run] = told[call[n].req.run] \cup {answer}]
    BY <1>3 DEF Answered
  <2>2. Done \in Delivery /\ Done.pc = "done"
    BY DEF Done, Delivery
  <2>3. Follows(n, Done)
    BY <1>3, <2>1, <2>2 DEF Follows
  <2>4. ToldFacts(n, answer)
    BY <1>1, <2>1 DEF ToldFacts
  <2> QED BY <2>2, <2>3, <2>4
<1> QED BY <1>2, <1>3

\* A step of a delivery keeps the invariant when it accounts for its permit.
LEMMA ServeKeeps ==
    ASSUME IInv, NEW n \in DOMAIN call, call[n].pc # "done",
           NEW c, Follows(n, c), NEW answer, ToldFacts(n, answer),
           answer = "started" \/ c.pc = "started" => call[n].req.run \in journal',
           UNCHANGED <<config, up, made, jobs, posted, socket, connected>>,
           journal \subseteq journal', journal' \subseteq Runs, detached' \subseteq Runs,
           spawned' \subseteq Runs, troubles' \in Nat, permits' \in Nat,
           work' \in [Runs -> {"idle", "resolve", "dry", "workflow", "job", "status"}],
           \A r \in Runs : work'[r] = work[r]
                           \/ (work'[r] = "resolve" /\ r \in journal' \ journal),
           permits' + Cardinality(Claims') + Cardinality(Working') = Limit
    PROVE  IInv'
<1>0. TypeOK
  BY DEF IInv
<1>1. /\ call' \in Seq(Delivery) /\ DOMAIN call' = DOMAIN call
      /\ call'[n] = c /\ \A m \in DOMAIN call : m # n => call'[m] = call[m]
      /\ Claims' = IF c.pc = "claim" THEN Claims \cup {n} ELSE Claims \ {n}
      /\ Frames' = IF c.via = "socket" /\ c.pc # "done" THEN Frames \cup {n} ELSE Frames \ {n}
  BY CallFacts DEF Follows
<1>2. Cardinality(Claims') \in Nat /\ Cardinality(Working') \in Nat
  <2>1. IsFiniteSet(Claims')
    BY <1>1, CountFacts, FS_AddElement, FS_RemoveElement
  <2>2. IsFiniteSet(Working')
    BY SlackCommandAssumption, FS_Subset DEF Working
  <2> QED BY <2>1, <2>2, FS_CardinalityType
<1>3. PermitsConserved' /\ permits' \in 0..Limit'
  BY <1>2, PermitsBounded
<1>4. OneFrameInHand'
  <2>1. Frames' = Frames
    BY <1>1 DEF Follows, Frames
  <2> QED BY <2>1, CountFacts DEF OneFrameInHand, Frames
<1>5. TypeOK'
  BY <1>0, <1>1, <1>3 DEF TypeOK, ToldFacts, Startable
<1>6. ConnectedMeansDriving'
  BY DEF IInv, ConnectedMeansDriving, Driving
<1>7. ASSUME NEW r \in Runs
      PROVE  ByRun(r)'
  <2>1. ByRun(r)
    BY DEF IInv
  <2>2. CASE work'[r] = work[r]
    BY <2>1, <2>2, RunKept DEF ToldFacts
  <2>3. CASE work'[r] = "resolve" /\ r \in journal' \ journal
    BY <2>1, <2>3 DEF ByRun
  <2> QED BY <2>2, <2>3
<1>8. ASSUME NEW m \in DOMAIN call'
      PROVE  ByCall(m)'
  <2>1. m \in DOMAIN call /\ ByCall(m)
    BY <1>1 DEF IInv
  <2>2. CASE m # n
    BY <1>1, <2>1, <2>2, CallKept
  <2>3. CASE m = n
    BY <1>1, <2>3, UnderwayFacts DEF ByCall, Follows
  <2> QED BY <2>2, <2>3
<1> QED BY <1>3, <1>4, <1>5, <1>6, <1>7, <1>8 DEF IInv, CapacityKept
\* The number of deliveries with a permit, after a step of one.
LEMMA ClaimsCounted ==
    ASSUME IInv, NEW n \in DOMAIN call, NEW c, Follows(n, c)
    PROVE  /\ call[n].pc = "claim" /\ c.pc # "claim" =>
                Cardinality(Claims') = Cardinality(Claims) - 1
           /\ call[n].pc # "claim" /\ c.pc = "claim" =>
                Cardinality(Claims') = Cardinality(Claims) + 1
           /\ call[n].pc # "claim" /\ c.pc # "claim" => Claims' = Claims
<1>1. Claims' = IF c.pc = "claim" THEN Claims \cup {n} ELSE Claims \ {n}
  BY CallFacts DEF Follows
<1>2. n \in Claims <=> call[n].pc = "claim"
  BY DEF Claims
<1>3. IsFiniteSet(Claims)
  BY CountFacts
<1>4. CASE call[n].pc = "claim" /\ c.pc # "claim"
  BY <1>1, <1>2, <1>3, <1>4, FS_RemoveElement
<1>5. CASE call[n].pc # "claim" /\ c.pc = "claim"
  BY <1>1, <1>2, <1>3, <1>5, FS_AddElement
<1>6. CASE call[n].pc # "claim" /\ c.pc # "claim"
  BY <1>1, <1>2, <1>6
<1> QED BY <1>4, <1>5, <1>6

\* A delivery that goes on or is answered, without taking a permit or giving one back.
LEMMA PlainServeKeeps ==
    ASSUME IInv, NEW n \in DOMAIN call, call[n].pc \in {"resolve", "probe", "permit"},
           \/ \E pc \in {"probe", "permit"} : Go(n, pc)
           \/ \E answer \in Answers \ {"started"} : Answered(n, answer),
           Unserved, UNCHANGED <<journal, permits, socket, connected>>,
           detached' \subseteq Runs, troubles' \in Nat
    PROVE  IInv'
<1>0. call[n].pc # "done" /\ TypeOK
  BY DEF IInv
<1>1. PICK c, answer : /\ Follows(n, c) /\ c.pc \notin {"claim", "started"} /\ answer # "started"
                       /\ ToldFacts(n, answer)
  <2>1. CASE \E pc \in {"probe", "permit"} : Go(n, pc)
    <3>1. PICK pc \in {"probe", "permit"} : Go(n, pc)
      BY <2>1
    <3>2. PICK c : Follows(n, c) /\ c.pc = pc /\ told' = told
      BY <1>0, <3>1, GoFacts DEF Underway
    <3>3. ToldFacts(n, "config")
      BY <1>0, <3>2 DEF ToldFacts, TypeOK
    <3> QED BY <3>2, <3>3
  <2>2. CASE \E answer \in Answers \ {"started"} : Answered(n, answer)
    <3>1. PICK answer \in Answers \ {"started"} : Answered(n, answer)
      BY <2>2
    <3>2. PICK c : Follows(n, c) /\ c.pc \in {answer, "done"} /\ ToldFacts(n, answer)
      BY <1>0, <3>1, AnsweredFacts
    <3> QED BY <3>1, <3>2 DEF Answers
  <2> QED BY <2>1, <2>2
<1>2. Claims' = Claims /\ Working' = Working
  BY <1>1, ClaimsCounted DEF Working, Unserved
<1>3. permits' \in Nat /\ permits' + Cardinality(Claims') + Cardinality(Working') = Limit
  BY <1>2, CountFacts
<1>4. /\ UNCHANGED <<config, up, made, jobs, posted>> /\ work' = work /\ spawned' = spawned
  BY DEF Unserved
<1>5. /\ work' \in [Runs -> {"idle", "resolve", "dry", "workflow", "job", "status"}]
      /\ journal' \subseteq Runs /\ spawned' \subseteq Runs /\ journal \subseteq journal'
  BY <1>0, <1>4 DEF TypeOK
<1>6. \A r \in Runs : work'[r] = work[r]
  BY <1>4
<1> QED BY <1>0, <1>1, <1>3, <1>4, <1>5, <1>6, ServeKeeps

LEMMA ResolveCallKeeps ==
    ASSUME IInv, NEW n \in DOMAIN call, ResolveCall(n)
    PROVE  IInv'
<1>1. /\ call[n].pc = "resolve" /\ Unserved
      /\ UNCHANGED <<journal, permits, opened, detached, socket, connected>>
  BY DEF ResolveCall, At
<1>2. detached' \subseteq Runs /\ troubles' \in Nat
  BY <1>1, TroubleFacts DEF ResolveCall, IInv, TypeOK
<1>3. Go(n, "probe") \/ Answered(n, "denied_policy") \/ Answered(n, "config")
  BY DEF ResolveCall
<1> QED BY <1>1, <1>2, <1>3, PlainServeKeeps DEF Answers

LEMMA ProbeKeeps ==
    ASSUME IInv, NEW n \in DOMAIN call, Probe(n)
    PROVE  IInv'
<1>1. /\ call[n].pc = "probe" /\ Unserved
      /\ UNCHANGED <<journal, permits, opened, detached, socket, connected, troubles>>
  BY DEF Probe, At
<1>2. detached' \subseteq Runs /\ troubles' \in Nat
  BY <1>1 DEF IInv, TypeOK
<1>3. Go(n, "permit") \/ Answered(n, "duplicate")
  BY DEF Probe
<1> QED BY <1>1, <1>2, <1>3, PlainServeKeeps DEF Answers

LEMMA TryAcquireKeeps ==
    ASSUME IInv, NEW n \in DOMAIN call, TryAcquire(n)
    PROVE  IInv'
<1>1. /\ call[n].pc = "permit" /\ Unserved
      /\ UNCHANGED <<journal, opened, detached, socket, connected, troubles>>
  BY DEF TryAcquire, At
<1>2. TypeOK /\ detached' \subseteq Runs /\ troubles' \in Nat
  BY <1>1 DEF IInv, TypeOK
<1>3. CASE UNCHANGED permits /\ Answered(n, "at_capacity")
  BY <1>1, <1>2, <1>3, PlainServeKeeps DEF Answers
<1>4. CASE permits > 0 /\ permits' = permits - 1 /\ Go(n, "claim")
  <2>1. PICK c : Follows(n, c) /\ c.pc = "claim" /\ told' = told
    BY <1>1, <1>4, GoFacts DEF Underway
  <2>2. ToldFacts(n, "config")
    BY <1>2, <2>1 DEF ToldFacts, TypeOK
  <2>3. Cardinality(Claims') = Cardinality(Claims) + 1 /\ Working' = Working
    BY <1>1, <2>1, ClaimsCounted DEF Working, Unserved
  <2>4. permits' \in Nat /\ permits' + Cardinality(Claims') + Cardinality(Working') = Limit
    BY <1>4, <2>3, CountFacts
  <2>5. UNCHANGED <<config, up, made, jobs, posted>> /\ work' = work /\ spawned' = spawned
    BY <1>1 DEF Unserved
  <2>6. /\ work' \in [Runs -> {"idle", "resolve", "dry", "workflow", "job", "status"}]
        /\ journal' \subseteq Runs /\ spawned' \subseteq Runs /\ journal \subseteq journal'
    BY <1>1, <1>2, <2>5 DEF TypeOK
  <2>7. \A r \in Runs : work'[r] = work[r]
    BY <2>5
  <2> QED BY <1>1, <1>2, <2>1, <2>2, <2>4, <2>5, <2>6, <2>7, ServeKeeps
<1> QED BY <1>3, <1>4 DEF TryAcquire

\* A delivery with a permit is answered: the permit is free again, or a dispatch has it.
LEMMA ClaimAnsweredKeeps ==
    ASSUME IInv, NEW n \in DOMAIN call, call[n].pc = "claim", NEW answer \in Answers \ {"started"},
           Answered(n, answer), permits' = permits + 1,
           UNCHANGED <<config, up, made, jobs, posted, socket, connected, spawned, work>>,
           journal' \in {journal, journal \cup {call[n].req.run}}, detached' \subseteq Runs,
           troubles' \in Nat
    PROVE  IInv'
<1>0. TypeOK /\ call[n].req.run \in Runs
  BY UnderwayFacts
<1>1. PICK c : Follows(n, c) /\ c.pc \in {answer, "done"} /\ ToldFacts(n, answer)
  BY AnsweredFacts
<1>2. c.pc \notin {"claim", "started"}
  BY <1>1 DEF Answers
<1>3. Cardinality(Claims') = Cardinality(Claims) - 1 /\ Working' = Working
  BY <1>1, <1>2, ClaimsCounted DEF Working
<1>4. permits' \in Nat /\ permits' + Cardinality(Claims') + Cardinality(Working') = Limit
  BY <1>3, CountFacts
<1>5. /\ work' \in [Runs -> {"idle", "resolve", "dry", "workflow", "job", "status"}]
      /\ journal' \subseteq Runs /\ spawned' \subseteq Runs /\ journal \subseteq journal'
  BY <1>0 DEF TypeOK
<1>6. \A r \in Runs : work'[r] = work[r]
  OBVIOUS
<1> QED BY <1>1, <1>2, <1>4, <1>5, <1>6, ServeKeeps

LEMMA ClaimKeeps ==
    ASSUME IInv, NEW n \in DOMAIN call, claim(n)
    PROVE  IInv'
<1> DEFINE r == call[n].req.run
<1>1. call[n].pc = "claim" /\ UNCHANGED <<config, up, made, jobs, posted, opened, detached, socket,
                                          connected>>
  BY DEF claim, At
<1>2. TypeOK /\ r \in Runs /\ detached' \subseteq Runs
  BY <1>1, UnderwayFacts DEF TypeOK
<1>3. CASE Created(r) /\ Filed(r) /\ SpawnDispatch(n) /\ UNCHANGED <<permits, troubles>>
  <2>1. /\ Answered(n, "started") /\ work' = [work EXCEPT ![r] = "resolve"]
        /\ spawned' = spawned \cup {r} /\ journal' = journal \cup {r} /\ r \notin journal
    BY <1>3 DEF SpawnDispatch, Filed, Created
  <2>2. PICK c : Follows(n, c) /\ c.pc \in {"started", "done"} /\ ToldFacts(n, "started")
    BY <1>1, <2>1, AnsweredFacts DEF Answers
  <2>3. Cardinality(Claims') = Cardinality(Claims) - 1
    BY <1>1, <2>2, ClaimsCounted
  <2>4. /\ work' \in [Runs -> {"idle", "resolve", "dry", "workflow", "job", "status"}]
        /\ journal' \subseteq Runs /\ spawned' \subseteq Runs /\ journal \subseteq journal'
        /\ troubles' \in Nat /\ permits' \in Nat
    BY <1>2, <1>3, <2>1, CountFacts DEF TypeOK
  <2>5. \A s \in Runs : work'[s] = work[s] \/ (work'[s] = "resolve" /\ s \in journal' \ journal)
    BY <1>2, <2>1 DEF TypeOK
  <2>6. r \notin Working /\ Working' = Working \cup {r}
    <3>1. work[r] = "idle"
      BY <1>2, <2>1 DEF IInv, ByRun
    <3> QED BY <1>2, <2>1, <3>1 DEF Working, TypeOK
  <2>7. Cardinality(Working') = Cardinality(Working) + 1
    BY <2>6, CountFacts, FS_AddElement
  <2>8. permits' + Cardinality(Claims') + Cardinality(Working') = Limit
    BY <1>3, <2>3, <2>7, CountFacts
  <2> QED BY <1>1, <1>2, <2>1, <2>2, <2>4, <2>5, <2>8, ServeKeeps
<1>4. CASE /\ Answered(n, "duplicate") /\ permits' = permits + 1
           /\ UNCHANGED <<journal, spawned, work, troubles>>
  <2>1. troubles' \in Nat
    BY <1>2, <1>4 DEF TypeOK
  <2> QED BY <1>1, <1>2, <1>4, <2>1, ClaimAnsweredKeeps DEF Answers
<1>5. CASE /\ Trouble /\ journal' \in {journal, journal \cup {r}}
           /\ Answered(n, "journal_failure") /\ permits' = permits + 1
           /\ UNCHANGED <<spawned, work>>
  BY <1>1, <1>2, <1>5, TroubleFacts, ClaimAnsweredKeeps DEF Answers
<1> QED BY <1>3, <1>4, <1>5 DEF claim

LEMMA AckTimeoutKeeps ==
    ASSUME IInv, NEW n \in DOMAIN call, AckTimeout(n)
    PROVE  IInv'
<1>1. /\ call[n].pc \in {"resolve", "probe", "claim"} /\ Answered(n, "ack_timeout")
      /\ Unserved /\ UNCHANGED <<journal, opened, socket, connected, troubles>>
  BY DEF AckTimeout
<1>2. TypeOK /\ call[n].req.run \in Runs /\ troubles' \in Nat
  BY <1>1, UnderwayFacts DEF TypeOK
<1>3. detached' \subseteq Runs
  BY <1>2 DEF AckTimeout, TypeOK
<1>4. CASE call[n].pc = "claim"
  <2>1. permits' = permits + 1
    BY <1>4 DEF AckTimeout, Dropped
  <2> QED BY <1>1, <1>2, <1>3, <1>4, <2>1, ClaimAnsweredKeeps DEF Unserved, Answers
<1>5. CASE call[n].pc # "claim"
  <2>1. permits' = permits
    BY <1>5 DEF AckTimeout, Dropped
  <2> QED BY <1>1, <1>2, <1>3, <1>5, <2>1, PlainServeKeeps DEF Answers
<1> QED BY <1>4, <1>5
\* The count of attempts stays within its bound.
LEMMA CountedFacts ==
    ASSUME NEW a \in 0..MaxAttempt
    PROVE  Counted(a) \in 0..MaxAttempt /\ 0 \in 0..MaxAttempt
BY SlackCommandAssumption DEF Counted

\* A connection that ends.
LEMMA DeadFacts ==
    ASSUME TypeOK, NEW healthy \in BOOLEAN, Dead(healthy)
    PROVE  /\ socket' \in Loop /\ socket'.pc = "sleep" /\ connected' = FALSE
           /\ ConnectedMeansDriving'
<1> DEFINE a == Counted(IF healthy THEN 0 ELSE socket.attempt)
<1>1. socket \in Loop /\ socket.attempt \in 0..MaxAttempt
  BY DEF TypeOK, Loop
<1>2. a \in 0..MaxAttempt
  BY <1>1, CountedFacts
<1>3. socket' = [socket EXCEPT !.pc = "sleep", !.attempt = a] /\ connected' = FALSE
  BY DEF Dead
<1> HIDE DEF a
<1> QED BY <1>1, <1>2, <1>3 DEF Loop, ConnectedMeansDriving, Driving

LEMMA DeliverKeeps ==
    ASSUME IInv, NEW q \in Requests, Deliver(q)
    PROVE  IInv'
<1> DEFINE d == [pc |-> "resolve", via |-> q.via, req |-> RunRequest(config, q)]
           n == Len(call) + 1
<1>1. TypeOK /\ call \in Seq(Delivery) /\ q.via \in {"http", "socket"}
  BY SlackCommandAssumption DEF IInv, TypeOK
<1>2. d.req \in Asked /\ d \in Delivery /\ d.pc = "resolve" /\ d.via = q.via
  BY <1>1 DEF Deliver, TypeOK, Asked, Delivery, Underway
<1>3. /\ call' = Append(call, d) /\ Unserved /\ TakeFrame(q)
      /\ UNCHANGED <<journal, permits, opened, detached, told, connected, troubles>>
  BY DEF Deliver
<1> HIDE DEF d
<1>4. /\ call' \in Seq(Delivery) /\ DOMAIN call' = DOMAIN call \cup {n} /\ n \notin DOMAIN call
      /\ call'[n] = d /\ \A m \in DOMAIN call : call'[m] = call[m]
  <2>1. Len(call) \in Nat /\ DOMAIN call = 1..Len(call)
    BY <1>1
  <2>2. /\ call' \in Seq(Delivery) /\ Len(call') = n /\ DOMAIN call' = 1..n
        /\ call'[n] = d /\ \A m \in 1..Len(call) : call'[m] = call[m]
    BY <1>1, <1>2, <1>3, <2>1, AppendProperties
  <2> QED BY <2>1, <2>2
<1> HIDE DEF n
<1>5. Claims' = Claims /\ Working' = Working
  BY <1>2, <1>3, <1>4 DEF Claims, Working, Unserved
<1>6. config' = config /\ UNCHANGED <<up, spawned, work, made, jobs, posted>>
  BY <1>3 DEF Unserved
<1>7. PermitsConserved' /\ permits' \in 0..Limit'
  BY <1>3, <1>5, <1>6, CountFacts, PermitsBounded
<1>8. OneFrameInHand' /\ socket' \in Loop /\ ConnectedMeansDriving'
  <2>1. CASE q.via = "socket"
    <3>1. socket.pc = "read" /\ socket' = [socket EXCEPT !.pc = "handle"] /\ socket \in Loop
      BY <1>1, <1>3, <2>1 DEF TakeFrame, TypeOK
    <3>2. socket' \in Loop /\ socket'.pc = "handle"
      BY <3>1 DEF Loop, Driving
    <3>3. Frames' = Frames \cup {n} /\ n \notin Frames
      BY <1>2, <1>4, <2>1 DEF Frames
    <3>4. IsFiniteSet(Frames) /\ Cardinality(Frames) = 0
      BY <3>1, CountFacts
    <3>5. Cardinality(Frames') = 1
      BY <3>3, <3>4, FS_AddElement
    <3>6. connected' = connected /\ connected
      BY <1>3, <3>1 DEF IInv, ConnectedMeansDriving, Driving
    <3> QED BY <3>2, <3>5, <3>6 DEF OneFrameInHand, Frames, ConnectedMeansDriving, Driving
  <2>2. CASE q.via # "socket"
    <3>1. socket' = socket
      BY <1>3, <2>2 DEF TakeFrame
    <3>2. Frames' = Frames
      BY <1>2, <1>4, <2>2 DEF Frames
    <3>3. Cardinality(Frames') = IF socket'.pc = "handle" THEN 1 ELSE 0
      BY <3>1, <3>2, CountFacts
    <3> QED BY <1>1, <1>3, <3>1, <3>3
            DEF OneFrameInHand, Frames, ConnectedMeansDriving, Driving, TypeOK, IInv
  <2> QED BY <2>1, <2>2
<1>9. TypeOK'
  BY <1>1, <1>3, <1>4, <1>6, <1>7, <1>8 DEF TypeOK, Startable
<1>10. ASSUME NEW r \in Runs
       PROVE  ByRun(r)'
  BY <1>3, <1>6, RunKept DEF IInv
<1>11. ASSUME NEW m \in DOMAIN call'
       PROVE  ByCall(m)'
  <2>1. CASE m = n
    BY <1>2, <1>4, <2>1 DEF ByCall
  <2>2. CASE m # n
    BY <1>3, <1>4, <1>11, <2>2, CallKept DEF IInv
  <2> QED BY <2>1, <2>2
<1> QED BY <1>7, <1>8, <1>9, <1>10, <1>11 DEF IInv, CapacityKept

LEMMA SocketAckKeeps ==
    ASSUME IInv, NEW n \in DOMAIN call, SocketAck(n)
    PROVE  IInv'
<1>1. /\ socket.pc = "handle" /\ Handled(n) /\ call' = [call EXCEPT ![n] = Done] /\ Quiet
      /\ \/ /\ socket' = [socket EXCEPT !.pc = "read"]
            /\ told' = [told EXCEPT ![call[n].req.run] = told[call[n].req.run] \cup {call[n].pc}]
            /\ UNCHANGED <<connected, troubles>>
         \/ Trouble /\ (\E healthy \in BOOLEAN : Dead(healthy)) /\ UNCHANGED told
  BY DEF SocketAck
<1>2. call[n].via = "socket" /\ call[n].pc \notin Underway \cup {"done"}
  BY <1>1 DEF Handled, Underway
<1>3. /\ TypeOK /\ call[n] \in Delivery /\ call[n].req.run \in Runs /\ ByCall(n)
      /\ call[n].pc \in Answers
  BY <1>2, UnderwayFacts DEF Delivery, IInv
<1>4. Done \in Delivery /\ Done.pc = "done"
  BY DEF Done, Delivery
<1>5. /\ call' \in Seq(Delivery) /\ DOMAIN call' = DOMAIN call
      /\ call'[n] = Done /\ \A m \in DOMAIN call : m # n => call'[m] = call[m]
      /\ Claims' = Claims \ {n} /\ Frames' = Frames \ {n}
  BY <1>1, <1>4, CallFacts
<1>6. Claims' = Claims /\ Working' = Working
  BY <1>1, <1>2, <1>5 DEF Claims, Working, Underway, Quiet
<1>7. config' = config /\ UNCHANGED <<up, journal, permits, detached, spawned, work, made, jobs, posted>>
  BY <1>1 DEF Quiet
<1>8. PermitsConserved' /\ permits' \in 0..Limit'
  BY <1>6, <1>7, CountFacts, PermitsBounded
<1>9. socket' \in Loop /\ socket'.pc \in {"read", "sleep"} /\ ConnectedMeansDriving'
      /\ troubles' \in Nat /\ connected' \in BOOLEAN
  <2>1. CASE /\ socket' = [socket EXCEPT !.pc = "read"] /\ UNCHANGED <<connected, troubles>>
    <3>1. socket' \in Loop /\ socket'.pc = "read"
      BY <1>3, <2>1 DEF TypeOK, Loop, Driving
    <3>2. connected
      BY <1>1 DEF IInv, ConnectedMeansDriving, Driving
    <3> QED BY <1>3, <2>1, <3>1, <3>2 DEF TypeOK, ConnectedMeansDriving, Driving
  <2>2. CASE Trouble /\ \E healthy \in BOOLEAN : Dead(healthy)
    BY <1>3, <2>2, TroubleFacts, DeadFacts
  <2> QED BY <1>1, <2>1, <2>2
<1>10. OneFrameInHand'
  <2>1. n \in Frames /\ IsFiniteSet(Frames) /\ Cardinality(Frames) = 1
    BY <1>1, <1>2, CountFacts DEF Frames
  <2>2. Cardinality(Frames') = 0
    <3>1. Cardinality(Frames \ {n}) = Cardinality(Frames) - 1
      BY <2>1, FS_RemoveElement
    <3> QED BY <1>5, <2>1, <3>1
  <2> QED BY <1>9, <2>2 DEF OneFrameInHand, Frames
<1>11. /\ told' \in [Runs -> SUBSET Answers]
       /\ \A r \in Runs : "started" \in told'[r] => "started" \in told[r] \/ r \in journal'
  <2>0. told \in [Runs -> SUBSET Answers] /\ (call[n].pc = "started" => call[n].req.run \in journal)
    BY <1>3 DEF TypeOK, ByCall
  <2>1. CASE told' = told
    BY <2>0, <2>1
  <2>2. CASE told' = [told EXCEPT ![call[n].req.run] = told[call[n].req.run] \cup {call[n].pc}]
    BY <1>3, <1>7, <2>0, <2>2
  <2> QED BY <1>1, <2>1, <2>2
<1>12. TypeOK'
  BY <1>3, <1>5, <1>7, <1>8, <1>9, <1>11 DEF TypeOK, Startable
<1>13. ASSUME NEW r \in Runs
       PROVE  ByRun(r)'
  BY <1>7, <1>11, RunKept DEF IInv
<1>14. ASSUME NEW m \in DOMAIN call'
       PROVE  ByCall(m)'
  <2>1. CASE m = n
    BY <1>4, <1>5, <2>1 DEF ByCall
  <2>2. CASE m # n
    BY <1>5, <1>7, <1>14, <2>2, CallKept DEF IInv
  <2> QED BY <2>1, <2>2
<1> QED BY <1>8, <1>9, <1>10, <1>12, <1>13, <1>14 DEF IInv, CapacityKept
-----------------------------------------------------------------------------
(* Dispatches *)

\* A step of one run's dispatch keeps the invariant when it does so for that run.
LEMMA DispatchKeeps ==
    ASSUME IInv, NEW r \in Runs, work[r] # "idle", Spent,
           NEW pc \in {"idle", "resolve", "dry", "workflow", "job", "status"},
           work' = [work EXCEPT ![r] = pc],
           permits' = IF pc = "idle" THEN permits + 1 ELSE permits, troubles' \in Nat,
           made' \in {made, [made EXCEPT ![r] = made[r] + 1]},
           jobs' \in {jobs, jobs \cup {r}}, posted' \in {posted, posted \cup {r}},
           ByRun(r)'
    PROVE  IInv'
<1>0. TypeOK /\ work \in [Runs -> {"idle", "resolve", "dry", "workflow", "job", "status"}]
      /\ made \in [Runs -> Nat]
  BY DEF IInv, TypeOK
<1>1. config' = config /\ UNCHANGED <<up, journal, call, detached, told, spawned, socket, connected>>
  BY DEF Spent
<1>2. Claims' = Claims /\ Working' = IF pc = "idle" THEN Working \ {r} ELSE Working
  BY <1>0, <1>1 DEF Claims, Working
<1>3. /\ IsFiniteSet(Working) /\ r \in Working
  BY CountFacts DEF Working
<1>4. /\ Cardinality(Working \ {r}) = Cardinality(Working) - 1
      /\ Cardinality(Working \ {r}) \in Nat
  BY <1>3, FS_RemoveElement, FS_CardinalityType
<1>5. /\ permits' \in Nat /\ Cardinality(Claims') \in Nat /\ Cardinality(Working') \in Nat
      /\ permits' + Cardinality(Claims') + Cardinality(Working') = Limit
  <2>1. CASE pc = "idle"
    BY <1>2, <1>4, <2>1, CountFacts
  <2>2. CASE pc # "idle"
    BY <1>2, <2>2, CountFacts
  <2> QED BY <2>1, <2>2
<1>6. PermitsConserved' /\ permits' \in 0..Limit'
  BY <1>1, <1>5, PermitsBounded
<1>7. OneFrameInHand' /\ ConnectedMeansDriving'
  BY <1>1 DEF IInv, CapacityKept, OneFrameInHand, ConnectedMeansDriving, Driving
<1>8. TypeOK'
  <2>1. made' \in [Runs -> Nat]
    BY <1>0
  <2>2. work' \in [Runs -> {"idle", "resolve", "dry", "workflow", "job", "status"}]
    BY <1>0
  <2>3. jobs' \subseteq Runs /\ posted' \subseteq Runs
    BY <1>0 DEF TypeOK
  <2> QED BY <1>0, <1>1, <1>6, <2>1, <2>2, <2>3 DEF TypeOK, Startable
<1>9. ASSUME NEW s \in Runs, s # r
      PROVE  ByRun(s)'
  <2>1. /\ work'[s] = work[s] /\ made'[s] = made[s]
        /\ s \in jobs' <=> s \in jobs
        /\ s \in posted' <=> s \in posted
    BY <1>0, <1>9
  <2> QED BY <1>1, <1>9, <2>1, RunKept DEF IInv
<1>10. ASSUME NEW n \in DOMAIN call'
       PROVE  ByCall(n)'
  BY <1>1, <1>10, CallKept DEF IInv
<1> QED BY <1>6, <1>7, <1>8, <1>9, <1>10 DEF IInv, CapacityKept

LEMMA PrepareKeeps ==
    ASSUME IInv, NEW r \in Runs, Prepare(r)
    PROVE  IInv'
<1>1. /\ work[r] = "resolve" /\ UNCHANGED <<made, jobs, posted>> /\ Spent /\ TypeOK /\ ByRun(r)
      /\ UNCHANGED <<config, told, journal>> /\ work \in [Runs -> Places]
  BY DEF Prepare, IInv, Spent, TypeOK, Places
<1>2. CASE Step(r, IF config.dry_run THEN "dry" ELSE "workflow")
  <2>1. PICK pc \in {"dry", "workflow"} :
            /\ work' = [work EXCEPT ![r] = pc] /\ permits' = permits /\ troubles' = troubles
            /\ pc = "dry" <=> config.dry_run
    BY <1>2 DEF Step
  <2>2. ByRun(r)'
    BY <1>1, <2>1 DEF ByRun
  <2> QED BY <1>1, <2>1, <2>2, DispatchKeeps DEF TypeOK
<1>3. CASE Fail(r)
  <2>1. work' = [work EXCEPT ![r] = "idle"] /\ permits' = permits + 1 /\ troubles' \in Nat
    BY <1>1, <1>3, TroubleFacts DEF Fail, Leave
  <2>2. ByRun(r)'
    BY <1>1, <2>1 DEF ByRun
  <2> QED BY <1>1, <2>1, <2>2, DispatchKeeps
<1> QED BY <1>2, <1>3 DEF Prepare

\* The last post, of a dry run or of a dispatch, and the return.
LEMMA PostKeeps ==
    ASSUME IInv, NEW r \in Runs, PostDryRun(r) \/ post_status(r)
    PROVE  IInv'
<1>1. /\ work[r] \in {"dry", "status"} /\ UNCHANGED <<made, jobs>> /\ Spent /\ TypeOK /\ ByRun(r)
      /\ UNCHANGED <<config, told, journal>> /\ work \in [Runs -> Places]
  BY DEF PostDryRun, post_status, IInv, Spent, TypeOK, Places
<1>2. /\ work' = [work EXCEPT ![r] = "idle"] /\ permits' = permits + 1 /\ troubles' \in Nat
      /\ posted' \in {posted, posted \cup {r}}
  BY <1>1, TroubleFacts DEF PostDryRun, post_status, Leave, Fail, TypeOK
<1>3. ByRun(r)'
  BY <1>1, <1>2 DEF ByRun
<1> QED BY <1>1, <1>2, <1>3, DispatchKeeps

LEMMA CreateWorkflowKeeps ==
    ASSUME IInv, NEW r \in Runs, create_workflow(r)
    PROVE  IInv'
<1>1. /\ work[r] = "workflow" /\ UNCHANGED <<jobs, posted>> /\ Spent /\ TypeOK /\ ByRun(r)
      /\ UNCHANGED <<config, told, journal>> /\ work \in [Runs -> Places] /\ made \in [Runs -> Nat]
  BY DEF create_workflow, IInv, Spent, TypeOK, Places
<1>2. /\ made' \in {made, [made EXCEPT ![r] = made[r] + 1]} /\ troubles' \in Nat
      /\ \/ /\ work' = [work EXCEPT ![r] = "job"] /\ permits' = permits
            /\ made' = [made EXCEPT ![r] = made[r] + 1]
         \/ work' = [work EXCEPT ![r] = "idle"] /\ permits' = permits + 1
  BY <1>1, TroubleFacts DEF create_workflow, Step, Leave, Fail, TypeOK
<1>3. ByRun(r)'
  <2>1. made[r] = 0 /\ r \in journal /\ ~config.dry_run /\ r \notin jobs
    BY <1>1 DEF ByRun
  <2>2. made'[r] \in {0, 1} /\ (work'[r] = "job" => made'[r] = 1) /\ work'[r] \in {"job", "idle"}
    BY <1>1, <1>2, <2>1
  <2> QED BY <1>1, <2>1, <2>2 DEF ByRun
<1>4. CASE work' = [work EXCEPT ![r] = "job"] /\ permits' = permits
  BY <1>1, <1>2, <1>3, <1>4, DispatchKeeps
<1>5. CASE work' = [work EXCEPT ![r] = "idle"] /\ permits' = permits + 1
  BY <1>1, <1>2, <1>3, <1>5, DispatchKeeps
<1> QED BY <1>2, <1>4, <1>5

LEMMA CreateJobKeeps ==
    ASSUME IInv, NEW r \in Runs, create_job(r)
    PROVE  IInv'
<1>1. /\ work[r] = "job" /\ UNCHANGED <<made, posted>> /\ Spent /\ TypeOK /\ ByRun(r)
      /\ UNCHANGED <<config, told, journal>> /\ work \in [Runs -> Places]
  BY DEF create_job, IInv, Spent, TypeOK, Places
<1>2. /\ jobs' \in {jobs, jobs \cup {r}} /\ troubles' \in Nat
      /\ \/ work' = [work EXCEPT ![r] = "status"] /\ permits' = permits /\ jobs' = jobs \cup {r}
         \/ work' = [work EXCEPT ![r] = "idle"] /\ permits' = permits + 1
  BY <1>1, TroubleFacts DEF create_job, Step, Leave, Fail, TypeOK
<1>3. ByRun(r)'
  BY <1>1, <1>2 DEF ByRun
<1>4. CASE work' = [work EXCEPT ![r] = "status"] /\ permits' = permits
  BY <1>1, <1>2, <1>3, <1>4, DispatchKeeps
<1>5. CASE work' = [work EXCEPT ![r] = "idle"] /\ permits' = permits + 1
  BY <1>1, <1>2, <1>3, <1>5, DispatchKeeps
<1> QED BY <1>2, <1>4, <1>5

-----------------------------------------------------------------------------
(* The socket loop, detached claims, modals, crash and restart *)

\* A step that serves nobody.
LEMMA AsideKeeps ==
    ASSUME IInv, UNCHANGED <<config, permits, call, told, spawned, work, made, jobs, posted>>,
           journal \subseteq journal', journal' \subseteq Runs, detached' \subseteq Runs,
           up' \in BOOLEAN, connected' \in BOOLEAN, troubles' \in Nat,
           socket' \in Loop, socket'.pc = "handle" <=> socket.pc = "handle",
           ConnectedMeansDriving'
    PROVE  IInv'
<1>1. TypeOK'
  BY DEF IInv, TypeOK, Startable, Limit
<1>2. PermitsConserved' /\ OneFrameInHand'
  BY DEF IInv, CapacityKept, PermitsConserved, OneFrameInHand, Limit
<1>3. ASSUME NEW r \in Runs
      PROVE  ByRun(r)'
  BY RunKept DEF IInv
<1>4. ASSUME NEW n \in DOMAIN call'
      PROVE  ByCall(n)'
  BY <1>4, CallKept DEF IInv
<1> QED BY <1>1, <1>2, <1>3, <1>4 DEF IInv, CapacityKept

LEMMA DetachedClaimKeeps ==
    ASSUME IInv, NEW r \in Runs, DetachedClaim(r)
    PROVE  IInv'
BY AsideKeeps DEF DetachedClaim, Unserved, IInv, TypeOK, ConnectedMeansDriving, Driving

LEMMA OpenModalKeeps ==
    ASSUME IInv, NEW q \in Requests, open_modal(q)
    PROVE  IInv'
<1>1. TypeOK /\ socket \in Loop /\ ConnectedMeansDriving
  BY DEF IInv, TypeOK
<1>2. Unserved /\ UNCHANGED <<journal, permits, call, detached, told, connected, troubles>>
  BY DEF open_modal
<1>3. /\ socket' \in Loop /\ (socket'.pc = "handle" <=> socket.pc = "handle")
      /\ ConnectedMeansDriving'
  <2>1. CASE socket' = socket
    BY <1>1, <1>2, <2>1 DEF ConnectedMeansDriving
  <2>2. CASE socket.pc = "read" /\ socket' = [socket EXCEPT !.pc = "reply"]
    <3>1. socket' \in Loop /\ socket'.pc = "reply"
      BY <1>1, <2>2 DEF Loop, Driving
    <3> QED BY <1>1, <1>2, <2>2, <3>1 DEF ConnectedMeansDriving, Driving
  <2> QED BY <2>1, <2>2 DEF open_modal
<1> QED BY <1>1, <1>2, <1>3, AsideKeeps DEF Unserved, TypeOK

LEMMA SocketLoopKeeps ==
    ASSUME IInv, run_socket_mode
    PROVE  IInv'
<1>1. TypeOK /\ socket \in Loop /\ troubles \in Nat /\ connected \in BOOLEAN
      /\ ConnectedMeansDriving
  BY DEF IInv, TypeOK
<1>2. Quiet /\ UNCHANGED <<call, told>>
  BY DEF run_socket_mode, open_socket_connection, Connect, ReadFails, OtherFrame, Reply, Recycle,
                    Recycled, Sleep
<1>3. socket.attempt \in 0..MaxAttempt /\ Counted(socket.attempt) \in 0..MaxAttempt
      /\ 0 \in 0..MaxAttempt
  BY <1>1, CountedFacts DEF Loop
<1>4. /\ socket' \in Loop /\ socket.pc # "handle" /\ socket'.pc # "handle"
      /\ connected' \in BOOLEAN /\ troubles' \in Nat /\ ConnectedMeansDriving'
  <2>1. CASE open_socket_connection
    BY <1>1, <1>3, <2>1, TroubleFacts DEF open_socket_connection, Loop, ConnectedMeansDriving, Driving
  <2>2. CASE Connect
    <3>1. CASE /\ socket' = [socket EXCEPT !.pc = "read", !.url = FALSE]
               /\ connected' = TRUE /\ troubles' = troubles
      <4>1. socket' \in Loop /\ socket'.pc = "read"
        BY <1>1, <3>1 DEF Loop, Driving
      <4> QED BY <1>1, <2>2, <3>1, <4>1 DEF Connect, ConnectedMeansDriving, Driving
    <3>2. CASE /\ Trouble /\ connected' = connected
               /\ socket' = [socket EXCEPT !.pc = "sleep", !.url = FALSE,
                                            !.attempt = Counted(socket.attempt)]
      <4>1. socket' \in Loop /\ socket'.pc = "sleep"
        BY <1>1, <1>3, <3>2 DEF Loop
      <4>2. connected' = FALSE
        BY <1>1, <2>2, <3>2 DEF Connect, ConnectedMeansDriving, Driving
      <4> QED BY <1>1, <2>2, <3>2, <4>1, <4>2, TroubleFacts DEF Connect, ConnectedMeansDriving, Driving
    <3> QED BY <2>2, <3>1, <3>2 DEF Connect
  <2>3. CASE ReadFails
    BY <1>1, <2>3, TroubleFacts, DeadFacts DEF ReadFails
  <2>4. CASE Recycled
    <3>1. PICK healthy \in BOOLEAN, url \in BOOLEAN :
              socket' = [pc |-> IF url THEN "connect" ELSE "open",
                         attempt |-> IF healthy THEN 0 ELSE socket.attempt, url |-> url]
      BY <2>4 DEF Recycled
    <3>2. PICK pc \in {"connect", "open"}, a \in 0..MaxAttempt :
              socket' = [pc |-> pc, attempt |-> a, url |-> url]
      BY <1>3, <3>1
    <3>3. socket' \in Loop /\ socket'.pc \in {"connect", "open"}
      BY <3>2 DEF Loop
    <3> QED BY <1>1, <2>4, <3>3 DEF Recycled, ConnectedMeansDriving, Driving
  <2>5. CASE Sleep
    BY <1>1, <2>5 DEF Sleep, Loop, ConnectedMeansDriving, Driving
  <2>6. CASE OtherFrame \/ Recycle \/ (Reply /\ ~Trouble)
    <3>1. /\ socket.pc \in {"read", "reply"} /\ UNCHANGED <<connected, troubles>>
          /\ \E pc \in {"read", "reply", "recycle"} : socket' = [socket EXCEPT !.pc = pc]
      BY <2>6 DEF OtherFrame, Recycle, Reply
    <3>2. socket' \in Loop /\ socket'.pc \in {"read", "reply", "recycle"}
      BY <1>1, <3>1 DEF Loop, Driving
    <3> QED BY <1>1, <3>1, <3>2 DEF ConnectedMeansDriving, Driving
  <2>7. CASE Reply /\ Trouble
    <3>1. CASE socket' = [socket EXCEPT !.pc = "read"] /\ UNCHANGED <<connected, troubles>>
      BY <2>7, <3>1 DEF Trouble, TypeOK, IInv
    <3>2. CASE \E healthy \in BOOLEAN : Dead(healthy)
      BY <1>1, <2>7, <3>2, TroubleFacts, DeadFacts DEF Reply
    <3> QED BY <2>7, <3>1, <3>2 DEF Reply
  <2> QED BY <2>1, <2>2, <2>3, <2>4, <2>5, <2>6, <2>7 DEF run_socket_mode
<1>5. /\ UNCHANGED <<config, permits, spawned, work, made, jobs, posted>>
      /\ journal \subseteq journal' /\ journal' \subseteq Runs /\ detached' \subseteq Runs
      /\ up' \in BOOLEAN
  BY <1>1, <1>2 DEF Quiet, TypeOK
<1> QED BY <1>2, <1>4, <1>5, AsideKeeps

LEMMA CrashKeeps ==
    ASSUME IInv, Crash
    PROVE  IInv'
<1>1. /\ TypeOK /\ config' = config /\ UNCHANGED <<journal, opened, told, spawned, made, jobs, posted>>
      /\ up' = FALSE /\ permits' = Limit /\ call' = [n \in DOMAIN call |-> Done]
      /\ detached' = {} /\ work' = [r \in Runs |-> "idle"] /\ connected' = FALSE
      /\ socket' = [socket EXCEPT !.pc = "off", !.attempt = 0, !.url = FALSE]
  BY DEF Crash, IInv
<1>2. troubles' \in Nat
  BY <1>1, TroubleFacts DEF Crash
<1>3. Done \in Delivery /\ Done.pc = "done"
  BY DEF Done, Delivery
<1>4. call' \in Seq(Delivery)
  <2>1. call \in Seq(Delivery)
    BY <1>1 DEF TypeOK
  <2>2. Len(call) \in Nat /\ DOMAIN call = 1..Len(call)
    BY <2>1
  <2>3. call' \in [1..Len(call) -> Delivery]
    BY <1>1, <1>3, <2>2
  <2> QED BY <2>2, <2>3, SeqDef
<1>5. Claims' = {} /\ Frames' = {} /\ Working' = {}
  BY <1>1, <1>3 DEF Claims, Frames, Working
<1>6. Cardinality({}) = 0 /\ Limit \in Nat
  BY FS_EmptySet, CountFacts
<1>7. PermitsConserved' /\ permits' \in 0..Limit'
  BY <1>1, <1>5, <1>6, PermitsBounded
<1>8. socket' \in Loop /\ socket'.pc = "off"
  BY <1>1, CountedFacts, SlackCommandAssumption DEF TypeOK, Loop
<1>9. OneFrameInHand' /\ ConnectedMeansDriving'
  BY <1>1, <1>5, <1>6, <1>8 DEF OneFrameInHand, Frames, ConnectedMeansDriving, Driving
<1>10. TypeOK'
  BY <1>1, <1>2, <1>4, <1>7, <1>8 DEF TypeOK, Startable
<1>11. ASSUME NEW r \in Runs
       PROVE  ByRun(r)'
  BY <1>1 DEF IInv, ByRun
<1>12. ASSUME NEW n \in DOMAIN call'
       PROVE  ByCall(n)'
  BY <1>1, <1>3, <1>12 DEF ByCall
<1> QED BY <1>7, <1>9, <1>10, <1>11, <1>12 DEF IInv, CapacityKept

\* A process that is down has no socket loop.
DownMeansOff == ~up => socket.pc = "off"

LEMMA RestartKeeps ==
    ASSUME IInv, DownMeansOff, Restart
    PROVE  IInv'
<1>1. /\ socket \in Loop /\ socket.pc = "off" /\ TypeOK
      /\ UNCHANGED <<config, journal, permits, call, detached, told, spawned, work, made, jobs,
                     posted, connected, troubles>>
      /\ up' = TRUE
  BY DEF IInv, TypeOK, DownMeansOff, Restart
<1>2. PICK pc \in {"open", "off"} : socket' = [socket EXCEPT !.pc = pc]
  BY DEF Restart
<1>3. socket' \in Loop /\ socket'.pc = pc
  BY <1>1, <1>2 DEF Loop
<1>4. ConnectedMeansDriving'
  BY <1>1, <1>3 DEF IInv, ConnectedMeansDriving, Driving
<1> QED BY <1>1, <1>3, <1>4, AsideKeeps DEF TypeOK

\* The loop moves only while it runs, and it stops with the process.
LEMMA DownStaysOff ==
    ASSUME IInv, DownMeansOff, [Next]_vars
    PROVE  DownMeansOff'
<1>0. socket \in Loop
  BY DEF IInv, TypeOK
<1>1. CASE UNCHANGED <<up, socket>>
  BY <1>1 DEF DownMeansOff
<1>2. CASE up' = up /\ (up \/ socket.pc # "off")
  BY <1>2 DEF DownMeansOff
<1>3. CASE Crash
  BY <1>0, <1>3 DEF Crash, DownMeansOff, Loop
<1>4. CASE Restart
  BY <1>4 DEF Restart, DownMeansOff
<1>5. ASSUME NEW q \in Requests, Deliver(q) \/ open_modal(q)
      PROVE  DownMeansOff'
  BY <1>1, <1>2, <1>5 DEF Deliver, open_modal, Unserved
<1>6. ASSUME NEW n \in DOMAIN call, Serve(n)
      PROVE  DownMeansOff'
  <2>1. CASE SocketAck(n)
    BY <1>2, <2>1 DEF SocketAck, Quiet
  <2>2. CASE ~SocketAck(n)
    BY <1>1, <1>6, <2>2
       DEF Serve, Handle, ResolveCall, Probe, TryAcquire, claim, AckTimeout, Unserved
  <2> QED BY <2>1, <2>2
<1>7. ASSUME NEW r \in Runs, dispatch(r) \/ DetachedClaim(r)
      PROVE  DownMeansOff'
  BY <1>1, <1>7 DEF dispatch, Prepare, PostDryRun, create_workflow, create_job, post_status,
                    Spent, DetachedClaim, Unserved
<1>8. CASE run_socket_mode
  BY <1>2, <1>8 DEF run_socket_mode, open_socket_connection, Connect, ReadFails, OtherFrame, Reply, Recycle,
                    Recycled, Sleep,
                    Quiet
<1>9. CASE UNCHANGED vars
  BY <1>1, <1>9 DEF vars
<1> QED BY <1>3, <1>4, <1>5, <1>6, <1>7, <1>8, <1>9 DEF Next

-----------------------------------------------------------------------------
(* The invariant *)

LEMMA InitKeeps ==
    ASSUME Init
    PROVE  IInv /\ DownMeansOff
<1>1. /\ config \in Configs /\ Startable(config) /\ permits = Limit /\ call = <<>>
      /\ journal = {} /\ detached = {} /\ spawned = {} /\ jobs = {} /\ posted = {}
      /\ up = TRUE /\ connected = FALSE /\ troubles = 0
      /\ told = [r \in Runs |-> {}] /\ work = [r \in Runs |-> "idle"]
      /\ made = [r \in Runs |-> 0]
  BY DEF Init
<1>2. Limit \in Nat
  <2>1. from_env(config)
    BY <1>1 DEF Startable
  <2>2. Limit \in 1..128
    BY <2>1 DEF from_env, Limit
  <2> QED BY <2>2
<1>3. PICK pc \in {"open", "off"} : socket = [pc |-> pc, attempt |-> 0, url |-> FALSE]
  BY DEF Init
<1>4. socket \in Loop /\ socket.pc # "handle"
  BY <1>3, SlackCommandAssumption DEF Loop
<1>5. call \in Seq(Delivery) /\ DOMAIN call = {}
  BY <1>1
<1>6. TypeOK
  <2>1. told \in [Runs -> SUBSET Answers] /\ work \in [Runs -> Places] /\ made \in [Runs -> Nat]
    BY <1>1 DEF Places
  <2>2. permits \in 0..Limit
    BY <1>1, <1>2
  <2> QED BY <1>1, <1>4, <1>5, <2>1, <2>2 DEF TypeOK, Places
<1>7. /\ {n \in DOMAIN call : call[n].pc = "claim"} = {}
      /\ {n \in DOMAIN call : call[n].via = "socket" /\ call[n].pc # "done"} = {}
      /\ {r \in Runs : work[r] # "idle"} = {}
  BY <1>1, <1>5
<1>8. CapacityKept
  <2>1. Cardinality({}) = 0
    BY FS_EmptySet
  <2>2. PermitsConserved
    <3>1. permits = Limit /\ Claims = {} /\ Working = {}
      BY <1>1, <1>7 DEF Claims, Working
    <3>2. permits + Cardinality(Claims) + Cardinality(Working) = Limit
      BY <1>2, <2>1, <3>1
    <3> QED BY <3>2 DEF PermitsConserved, Claims, Working
  <2>3. OneFrameInHand
    BY <1>4, <1>7, <2>1 DEF OneFrameInHand
  <2> QED BY <2>2, <2>3 DEF CapacityKept
<1>9. \A r \in Runs : ByRun(r)
  BY <1>1 DEF ByRun
<1>10. ConnectedMeansDriving
  BY <1>1, <1>3 DEF ConnectedMeansDriving, Driving
<1> QED BY <1>1, <1>5, <1>6, <1>8, <1>9, <1>10 DEF IInv, DownMeansOff

LEMMA StutterKeeps ==
    ASSUME IInv, UNCHANGED vars
    PROVE  IInv'
<1>1. /\ socket' \in Loop /\ ConnectedMeansDriving' /\ up' \in BOOLEAN
      /\ connected' \in BOOLEAN /\ troubles' \in Nat /\ journal' \subseteq Runs
      /\ detached' \subseteq Runs
  BY DEF vars, IInv, TypeOK, ConnectedMeansDriving, Driving
<1> QED BY <1>1, AsideKeeps DEF vars

LEMMA NextKeeps ==
    ASSUME IInv, DownMeansOff, [Next]_vars
    PROVE  IInv'
<1>1. ASSUME NEW q \in Requests, Deliver(q) \/ open_modal(q)
      PROVE  IInv'
  BY <1>1, DeliverKeeps, OpenModalKeeps
<1>2. ASSUME NEW n \in DOMAIN call, Serve(n)
      PROVE  IInv'
  BY <1>2, ResolveCallKeeps, ProbeKeeps, TryAcquireKeeps, ClaimKeeps, AckTimeoutKeeps,
     SocketAckKeeps DEF Serve, Handle
<1>3. ASSUME NEW r \in Runs, dispatch(r) \/ DetachedClaim(r)
      PROVE  IInv'
  BY <1>3, PrepareKeeps, PostKeeps, CreateWorkflowKeeps, CreateJobKeeps, DetachedClaimKeeps
     DEF dispatch
<1> QED BY <1>1, <1>2, <1>3, SocketLoopKeeps, CrashKeeps, RestartKeeps, StutterKeeps DEF Next

LEMMA Invariance == Spec => [](IInv /\ DownMeansOff)
<1>1. Init => IInv /\ DownMeansOff
  BY InitKeeps
<1>2. IInv /\ DownMeansOff /\ [Next]_vars => (IInv /\ DownMeansOff)'
  BY NextKeeps, DownStaysOff
<1> QED BY <1>1, <1>2, PTL DEF Spec

-----------------------------------------------------------------------------
(* Permission: what the registry allowed a delivery is carried by the delivery to its  *)
(* claim, and by the file of the run to its dispatch.                                   *)

Granted(a) == ResolveRun(registry, a, UserGroups).ok
Asking == {RunRequest(config, q) : q \in Requests} \ {None}
CallPermitted(c) ==
    /\ c.pc # "done" => c.req \in Asking
    /\ c.pc \in {"probe", "permit", "claim"} => Granted(c.req)
PermissionInv ==
    /\ \A n \in DOMAIN call : CallPermitted(call[n])
    /\ \A r \in journal \cup detached : Permitted(r)
    /\ posted \subseteq journal

\* A slash command is of the workspace the process is pinned to, on both transports.
LEMMA PinnedTeam ==
    ASSUME NEW c, NEW q, RunRequest(c, q) # None, configured_slack_identity(c).pinned
    PROVE  RunRequest(c, q).team = configured_slack_identity(c).team
<1> DEFINE identity == configured_slack_identity(c)
<1>1. CASE q.kind = "view"
  BY <1>1 DEF RunRequest, interaction
<1>2. CASE q.kind # "view"
  <2>1. /\ CommandOf(c, q) # None
        /\ RunRequest(c, q) = direct(CommandOf(c, q), q.text, c.context_messages)
    BY <1>2 DEF RunRequest
  <2>2. RunRequest(c, q).team = CommandOf(c, q).team
    BY <2>1 DEF direct
  <2>3. PICK pairs, expected :
            /\ validate_slash_envelope(c, pairs, expected) = "ok"
            /\ CommandOf(c, q) = SlashCommand_parse(pairs)
    BY <2>1 DEF CommandOf, HttpCommand, SocketCommand
  <2> DEFINE form == parse_form(pairs)
  <2>4. id_field(form, "team_id") # None /\ id_field(form, "team_id") = identity.team
    BY <2>3 DEF validate_slash_envelope
  <2>5. form["team_id"] = identity.team
    BY <2>4 DEF id_field
  <2>6. CommandOf(c, q).team = form["team_id"]
    <3>1. SlashCommand_parse(pairs) # None
      BY <2>1, <2>3
    <3>2. PICK n, u, g, p, x :
              SlashCommand_parse(pairs)
                = [team |-> form["team_id"], channel |-> n, user |-> u, trigger |-> g,
                   provider |-> p, text |-> x]
      BY <3>1, Zenon DEF SlashCommand_parse
    <3> HIDE DEF form
    <3>3. SlashCommand_parse(pairs).team = form["team_id"]
      BY <3>2
    <3> QED BY <3>3, <2>3, Zenon
  <2> QED BY <2>2, <2>5, <2>6
<1> QED BY <1>1, <1>2

\* A run that a granted request asks for is permitted.
LEMMA GrantedIsPermitted ==
    ASSUME NEW a \in Asking, Granted(a)
    PROVE  Permitted(a.run)
<1>1. PICK q \in Requests : a = RunRequest(config, q) /\ a # None
  BY DEF Asking
<1> QED BY <1>1, PinnedTeam DEF Permitted, Granted

\* What a step must respect.
LEMMA PermissionFrame ==
    ASSUME PermissionInv, config' = config,
           \A n \in DOMAIN call' :
               CallPermitted(call'[n]) \/ (n \in DOMAIN call /\ call'[n] = call[n]),
           \A r \in (journal' \cup detached') \ (journal \cup detached) : Permitted(r),
           posted' \subseteq journal'
    PROVE  PermissionInv'
<1>1. \A r : Permitted(r)' <=> Permitted(r)
  BY DEF Permitted
<1>2. \A n \in DOMAIN call' : CallPermitted(call'[n])
  BY DEF PermissionInv
<1>3. Asking' = Asking
  BY DEF Asking
<1>4. \A n \in DOMAIN call' : CallPermitted(call[n])'
  BY <1>2, <1>3 DEF CallPermitted, Granted
<1> QED BY <1>1, <1>4 DEF PermissionInv

\* A delivery that is answered, or goes on with what it was granted.
LEMMA PermissionServe ==
    ASSUME IInv, PermissionInv, NEW n \in DOMAIN call, call[n].pc # "done",
           NEW c, Follows(n, c),
           c.pc \in {"probe", "permit", "claim"} => Granted(call[n].req),
           config' = config, posted' = posted, journal \subseteq journal',
           \A r \in (journal' \cup detached') \ (journal \cup detached) :
               r = call[n].req.run /\ Granted(call[n].req)
    PROVE  PermissionInv'
<1>1. /\ DOMAIN call' = DOMAIN call /\ call'[n] = c
      /\ \A m \in DOMAIN call : m # n => call'[m] = call[m]
  BY CallFacts DEF Follows
<1>2. call[n].req \in Asking
  BY DEF PermissionInv, CallPermitted
<1>3. CallPermitted(c)
  BY <1>2 DEF CallPermitted, Follows
<1>4. \A r \in (journal' \cup detached') \ (journal \cup detached) : Permitted(r)
  BY <1>2, GrantedIsPermitted
<1>5. posted' \subseteq journal'
  BY DEF PermissionInv
<1> QED BY <1>1, <1>3, <1>4, <1>5, PermissionFrame

LEMMA PermissionServed ==
    ASSUME IInv, PermissionInv, NEW n \in DOMAIN call, Serve(n)
    PROVE  PermissionInv'
<1>0. ASSUME NEW answer \in Answers, Answered(n, answer), call[n].pc # "done"
      PROVE  \E c : Follows(n, c) /\ c.pc \notin {"probe", "permit", "claim"}
  <2>1. PICK c : Follows(n, c) /\ c.pc \in {answer, "done"}
    BY <1>0, AnsweredFacts
  <2> QED BY <1>0, <2>1 DEF Answers
<1>g. ASSUME NEW pc \in {"probe", "permit", "claim"}, Go(n, pc), call[n].pc # "done"
      PROVE  \E c : Follows(n, c)
  BY <1>g, GoFacts DEF Underway
<1>p. call[n].pc \in {"probe", "permit", "claim"} => Granted(call[n].req)
  BY DEF PermissionInv, CallPermitted
<1>1. CASE ResolveCall(n)
  <2>1. call[n].pc = "resolve" /\ UNCHANGED <<config, posted, journal, detached>>
    BY <1>1 DEF ResolveCall, At, Unserved
  <2>2. CASE Granted(call[n].req) /\ Go(n, "probe")
    BY <1>g, <2>1, <2>2, PermissionServe
  <2>3. CASE Answered(n, "denied_policy") \/ Answered(n, "config")
    BY <1>0, <2>1, <2>3, PermissionServe DEF Answers
  <2> QED BY <1>1, <2>2, <2>3 DEF ResolveCall, Granted
<1>2. CASE Probe(n)
  <2>1. call[n].pc = "probe" /\ UNCHANGED <<config, posted, journal, detached>>
    BY <1>2 DEF Probe, At, Unserved
  <2>2. CASE Go(n, "permit")
    BY <1>g, <1>p, <2>1, <2>2, PermissionServe
  <2>3. CASE Answered(n, "duplicate")
    BY <1>0, <2>1, <2>3, PermissionServe DEF Answers
  <2> QED BY <1>2, <2>2, <2>3 DEF Probe
<1>3. CASE TryAcquire(n)
  <2>1. call[n].pc = "permit" /\ UNCHANGED <<config, posted, journal, detached>>
    BY <1>3 DEF TryAcquire, At, Unserved
  <2>2. CASE Go(n, "claim")
    BY <1>g, <1>p, <2>1, <2>2, PermissionServe
  <2>3. CASE Answered(n, "at_capacity")
    BY <1>0, <2>1, <2>3, PermissionServe DEF Answers
  <2> QED BY <1>3, <2>2, <2>3 DEF TryAcquire
<1>4. CASE claim(n)
  <2>1. /\ call[n].pc = "claim" /\ UNCHANGED <<config, posted, detached>>
        /\ journal' \in {journal, journal \cup {call[n].req.run}}
    BY <1>4 DEF claim, At, Filed
  <2>2. \E answer \in Answers : Answered(n, answer)
    BY <1>4 DEF claim, SpawnDispatch, Answers
  <2>3. PICK c : Follows(n, c) /\ c.pc \notin {"probe", "permit", "claim"}
    BY <1>0, <2>1, <2>2
  <2> QED BY <1>p, <2>1, <2>3, PermissionServe
<1>5. CASE AckTimeout(n)
  <2>1. /\ call[n].pc \in {"resolve", "probe", "claim"} /\ UNCHANGED <<config, posted, journal>>
        /\ Answered(n, "ack_timeout")
        /\ detached' = IF call[n].pc = "claim" THEN detached \cup {call[n].req.run} ELSE detached
    BY <1>5 DEF AckTimeout, Unserved
  <2>2. PICK c : Follows(n, c) /\ c.pc \notin {"probe", "permit", "claim"}
    BY <1>0, <2>1 DEF Answers
  <2>3. \A r \in (journal' \cup detached') \ (journal \cup detached) :
            r = call[n].req.run /\ Granted(call[n].req)
    BY <1>p, <2>1
  <2> QED BY <2>1, <2>2, <2>3, PermissionServe
<1>6. CASE SocketAck(n)
  <2>1. call' = [call EXCEPT ![n] = Done] /\ UNCHANGED <<config, posted, journal, detached>>
    BY <1>6 DEF SocketAck, Quiet
  <2>2. Done \in Delivery /\ CallPermitted(Done)
    BY DEF Done, Delivery, CallPermitted
  <2>3. /\ DOMAIN call' = DOMAIN call /\ call'[n] = Done
        /\ \A m \in DOMAIN call : m # n => call'[m] = call[m]
    BY <2>1, <2>2, CallFacts
  <2> QED BY <2>1, <2>2, <2>3, PermissionFrame DEF PermissionInv
<1> QED BY <1>1, <1>2, <1>3, <1>4, <1>5, <1>6 DEF Serve, Handle

LEMMA PermissionKeeps ==
    ASSUME IInv, PermissionInv, [Next]_vars
    PROVE  PermissionInv'
<1>0. call \in Seq(Delivery)
  BY DEF IInv, TypeOK
<1>1. CASE UNCHANGED <<config, call, journal, detached, posted>>
  BY <1>1, PermissionFrame DEF PermissionInv
<1>2. ASSUME NEW q \in Requests, Deliver(q)
      PROVE  PermissionInv'
  <2> DEFINE c == [pc |-> "resolve", via |-> q.via, req |-> RunRequest(config, q)]
  <2>1. call' = Append(call, c) /\ UNCHANGED <<config, posted, journal, detached>>
    BY <1>2 DEF Deliver, Unserved
  <2>2. CallPermitted(c)
    <3>1. RunRequest(config, q) \in Asking
      BY <1>2 DEF Deliver, Asking
    <3>2. c.pc = "resolve" /\ c.req = RunRequest(config, q)
      OBVIOUS
    <3> QED BY <3>1, <3>2 DEF CallPermitted
  <2> HIDE DEF c
  <2>3. \A m \in DOMAIN call' : call'[m] = c \/ (m \in DOMAIN call /\ call'[m] = call[m])
    BY <1>0, <2>1
  <2> QED BY <2>1, <2>2, <2>3, PermissionFrame DEF PermissionInv
<1>3. ASSUME NEW r \in Runs, dispatch(r)
      PROVE  PermissionInv'
  <2>1. /\ UNCHANGED <<config, call, journal, detached>> /\ work[r] # "idle"
        /\ posted' \subseteq posted \cup {r}
    BY <1>3 DEF dispatch, Prepare, PostDryRun, create_workflow, create_job, post_status, Spent
  <2>2. r \in journal
    BY <2>1 DEF IInv, ByRun
  <2> QED BY <2>1, <2>2, PermissionFrame DEF PermissionInv
<1>4. ASSUME NEW r \in Runs, DetachedClaim(r)
      PROVE  PermissionInv'
  BY <1>4, PermissionFrame DEF DetachedClaim, Unserved, PermissionInv
<1>5. CASE Crash
  <2>1. /\ call' = [n \in DOMAIN call |-> Done] /\ detached' = {}
        /\ UNCHANGED <<config, journal, posted>>
    BY <1>5 DEF Crash
  <2>2. CallPermitted(Done)
    BY DEF Done, CallPermitted
  <2>3. \A n \in DOMAIN call' : CallPermitted(call'[n])
    BY <2>1, <2>2
  <2> QED BY <2>1, <2>3, PermissionFrame DEF PermissionInv
<1>6. CASE run_socket_mode \/ Restart \/ UNCHANGED vars
  BY <1>1, <1>6 DEF run_socket_mode, open_socket_connection, Connect, ReadFails, OtherFrame,
                    Reply, Recycle, Recycled, Sleep, Quiet, Restart, vars
<1>7. ASSUME NEW q \in Requests, open_modal(q)
      PROVE  PermissionInv'
  BY <1>1, <1>7 DEF open_modal, Unserved
<1> QED BY <1>2, <1>3, <1>4, <1>5, <1>6, <1>7, PermissionServed DEF Next

LEMMA PermissionInvariance == Spec => [](IInv /\ PermissionInv)
<1>1. Init => PermissionInv
  BY DEF Init, PermissionInv
<1>2. IInv /\ PermissionInv /\ [Next]_vars => PermissionInv'
  BY PermissionKeeps
<1> QED BY <1>1, <1>2, Invariance, PTL DEF Spec

\* TypeOK: the state of the command service keeps its types, over any number of
\* deliveries, failures and restarts.
THEOREM TypeCorrect == Spec => []TypeOK
<1>1. IInv => TypeOK
  BY DEF IInv
<1> QED BY <1>1, Invariance, PTL

\* CapacityKept: whichever of deadline, redelivery, failure and restart cuts a
\* delivery, each permit of App::capacity is free, with a claim or with a dispatch,
\* and the socket loop has one frame in hand exactly while it handles one.
THEOREM CapacityIsKept == Spec => []CapacityKept
<1>1. IInv => CapacityKept
  BY DEF IInv
<1> QED BY <1>1, Invariance, PTL

\* RunUnderClaim: dispatch makes at most one bridge workflow of a run, and only of one
\* that the registry permits in the pinned workspace; a member told "started" has a run
\* whose file survives a crash; the coordinator job and the channel's status follow the
\* workflow in that order.
THEOREM RunsAreClaimed == Spec => []RunUnderClaim
<1>1. ASSUME IInv, PermissionInv
      PROVE  RunUnderClaim
  <2>0. \A r \in Runs : ByRun(r) /\ made[r] \in Nat
    BY <1>1 DEF IInv, TypeOK
  <2>1. RunOnce
    BY <2>0 DEF RunOnce, ByRun
  <2>2. StartedIsDurable
    BY <2>0 DEF StartedIsDurable, ByRun
  <2>3. WritesInOrder
    <3>1. jobs \subseteq Runs /\ posted \subseteq Runs
      BY <1>1 DEF IInv, TypeOK
    <3> QED BY <2>0, <3>1 DEF WritesInOrder, ByRun
  <2>4. OnlyPermitted
    <3>1. ASSUME NEW r \in Runs, work[r] # "idle" \/ made[r] > 0 \/ r \in jobs \cup posted
                                 \/ "started" \in told[r]
          PROVE  r \in journal
      BY <1>1, <2>0, <3>1 DEF ByRun, PermissionInv
    <3> QED BY <1>1, <3>1 DEF OnlyPermitted, PermissionInv
  <2> QED BY <2>1, <2>2, <2>3, <2>4 DEF RunUnderClaim
<1> QED BY <1>1, PermissionInvariance, PTL

\* What readyz and the metrics read: socket_connected is set exactly while a running
\* process drives a connection, however that connection ends.
THEOREM ConnectedIsExact == Spec => [](ConnectedMeansDriving /\ (connected => up))
<1>1. IInv /\ DownMeansOff => ConnectedMeansDriving /\ (connected => up)
  BY DEF IInv, DownMeansOff, ConnectedMeansDriving, Driving
<1> QED BY <1>1, Invariance, PTL
=============================================================================
