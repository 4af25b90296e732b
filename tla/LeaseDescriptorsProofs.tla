------------------------ MODULE LeaseDescriptorsProofs ------------------------
(***************************************************************************)
(* Proofs about LeaseDescriptors, for every set of handlers, agents and     *)
(* paths, every ttl their clients ask for, registry size and bound.         *)
(*                                                                         *)
(* Two arguments carry the results. The mutation lock: only the handler     *)
(* that holds it is inside a renewal or a release, so the descriptor it     *)
(* loaded is still the active one when it writes it back. And the ownership *)
(* of a token: from the moment it is minted it is in exactly one pair of    *)
(* hands until a descriptor names it or it is given up, so nobody else can  *)
(* end the grant of a token that an agent was told of.                      *)
(***************************************************************************)
EXTENDS LeaseDescriptors, FiniteSetTheorems, TLAPS

-----------------------------------------------------------------------------
(* The inductive invariant *)

Body == [op : {"acquire", "renew", "release"}, agent : Agents, path : Paths, token : Nat,
         ttl : Nat]
Call == [pc : Calling, body : Body, reply : Reply \cup {None}]
Store == [pc : {"store"}, token : Nat, agent : Agents, path : Paths, told : Nat \cup {None},
          expires : Nat]
Descriptor == [agent : Agents, path : Paths, expires : Nat, status : {"active", "released"}]

\* The variables hold what the handlers and the control plane put there.
Shape ==
    /\ clock \in Nat /\ next_token \in Nat \ {0}
    /\ grants \in [Paths -> Grant \cup {None}]
    /\ req \in [Requests -> {Idle} \cup Call \cup Store]
    /\ lock \in Requests \cup {None}
    /\ descriptors \in [DOMAIN descriptors -> Descriptor]
    /\ told \in [DOMAIN descriptors -> Nat \cup {None}]
    /\ stray \subseteq Body

\* The numbers stay within the bounds of the model, the registry within its room.
Bounded ==
    /\ clock <= MaxClock /\ next_token <= MaxTokens + 1
    /\ DOMAIN descriptors \subseteq 1 .. next_token - 1
    /\ IsFiniteSet(DOMAIN descriptors)
    /\ Cardinality(DOMAIN descriptors) <= MAX_CONTEXT_KEYS

\* What a handler waits for is what its route asks.
CallsFit ==
    \A r \in Requests :
        /\ req[r].pc = "acquire" => req[r].body.op = "acquire"
        /\ req[r].pc = "renew" => req[r].body.op = "renew"
        /\ req[r].pc \in {"release", "cleanup"} => req[r].body.op = "release"

\* A reply grants only with a success, and for the token that was asked about.
RepliesFit ==
    \A r \in Requests : req[r].pc \in Calling /\ req[r].reply # None /\ req[r].reply.done =>
            /\ req[r].reply.status = 200
            /\ req[r].body.op # "acquire" => req[r].reply.token = req[r].body.token

\* The mutation lock: it is held by exactly the renewal or the release that is
\* under way, and the descriptor that one loaded is still there and active.
LockDiscipline ==
    /\ lock # None => req[lock].pc \in {"renew", "release"}
    /\ \A r \in Requests : req[r].pc \in {"renew", "release"} =>
          LET b == req[r].body
          IN  /\ lock = r
              /\ b.token \in DOMAIN descriptors
              /\ descriptors[b.token].status = "active"
              /\ descriptors[b.token].agent = b.agent
              /\ descriptors[b.token].path = b.path

\* Handler r has a fresh token: the reply of a compatible acquisition, or what
\* is about to be stored.
HasToken(r, t) ==
    \/ req[r].pc = "store" /\ req[r].token = t
    \/ /\ req[r].pc = "acquire" /\ req[r].reply # None
       /\ req[r].reply.done /\ req[r].reply.token = t

\* A fresh token is in one pair of hands and no descriptor names it yet.
OneOwner ==
    \A r \in Requests, t \in Nat : HasToken(r, t) =>
        /\ t \in 1 .. next_token - 1 /\ t \notin DOMAIN descriptors
        /\ \A s \in Requests : HasToken(s, t) => s = r

\* No agent was told of the token and none will be.
Abandoned(t) ==
    /\ t < next_token /\ t \notin DOMAIN descriptors
    /\ \A r \in Requests : ~HasToken(r, t)

\* Whoever asks the control plane to release a token was asked to by a client,
\* or gives back a grant that it could not store.
ReleaseJustified(b) == b.op = "release" => b.token \in given_back \/ Abandoned(b.token)
ReleasesJustified ==
    /\ \A b \in stray : ReleaseJustified(b)
    /\ \A r \in Requests : req[r].pc \in Calling => ReleaseJustified(req[r].body)

\* Every token that was minted is named by a descriptor, is known not to be,
\* or is in the hands of a handler.
Traced(t) ==
    \/ t \in DOMAIN descriptors \cup untracked
    \/ \E r \in Requests :
          \/ req[r].pc = "store" /\ req[r].token = t
          \/ req[r].pc = "cleanup" /\ req[r].body.token = t
          \/ req[r].pc \in Calling /\ t \in Minted(req[r])
TokensTraced ==
    /\ \A t \in 1 .. next_token - 1 : Traced(t)
    /\ \A p \in Paths : grants[p] # None => grants[p].token \in 1 .. next_token - 1

\* Until e, and unless somebody asked for its release or a renewal shortened
\* it, token t is a's on p.
Backed(t, a, p, e) ==
    clock < e /\ t \notin given_back \cup shortened =>
        /\ grants[p] # None /\ grants[p].token = t
        /\ grants[p].agent = a /\ grants[p].expires >= e

\* What the control plane stated is backed, told to the agent or on its way.
Promises ==
    /\ \A t \in DOMAIN descriptors : told[t] # None =>
          Backed(t, descriptors[t].agent, descriptors[t].path, told[t])
    /\ \A r \in Requests :
          /\ req[r].pc = "store" /\ req[r].told # None =>
                Backed(req[r].token, req[r].agent, req[r].path, req[r].told)
          /\ req[r].pc \in {"acquire", "renew"} /\ req[r].reply # None /\ req[r].reply.done
             /\ req[r].reply.expires # None =>
                Backed(req[r].reply.token, req[r].body.agent, req[r].body.path,
                       req[r].reply.expires)

Structure ==
    /\ Shape /\ Bounded /\ CallsFit /\ RepliesFit /\ LockDiscipline
    /\ OneOwner /\ ReleasesJustified /\ TokensTraced
IInv == Structure /\ Promises

-----------------------------------------------------------------------------
(* Shapes *)

\* What a handler has in hand is known from where it stands.
LEMMA InHand ==
    ASSUME Shape, NEW r \in Requests
    PROVE  /\ req[r].pc \in Calling => req[r] \in Call
           /\ req[r].pc = "store" => req[r] \in Store
           /\ req[r] = Idle => req[r].pc = "idle"
BY DEF Shape, Call, Store, Idle, Calling

\* The replies of the control plane are replies, and a refusal grants nothing.
LEMMA ReplyShape ==
           /\ Refused(409) \in Reply /\ ~Refused(409).done
           /\ Refused(200) \in Reply /\ ~Refused(200).done
           /\ \A t \in Nat, e \in Nat \cup {None} :
                 /\ Granted(t, e) \in Reply /\ Granted(t, e).done
                 /\ Granted(t, e).token = t /\ Granted(t, e).status = 200
                 /\ Granted(t, e).expires = e
BY DEF Refused, Granted, Reply

\* What serving a call may do: refuse it, or carry it out and grant it.
LEMMA ServeStep ==
    ASSUME Shape, NEW b \in Body, NEW reply, reply \in Replies(b), Serve(b, reply)
    PROVE  /\ reply \in Reply
           /\ reply.done => reply.status = 200 /\ reply.expires \in {clock + b.ttl, None}
           /\ \/ ~reply.done /\ UNCHANGED <<grants, next_token, shortened>>
              \/ /\ b.op = "acquire" /\ ~Held(b.path) /\ next_token <= MaxTokens
                 /\ next_token' = next_token + 1 /\ UNCHANGED shortened
                 /\ reply.done /\ reply.token = next_token
                 /\ grants' = [grants EXCEPT ![b.path] =
                       [agent |-> b.agent, token |-> next_token, expires |-> clock + b.ttl]]
              \/ /\ b.op = "renew" /\ Owns(b) /\ UNCHANGED next_token
                 /\ grants' = [grants EXCEPT ![b.path].expires = clock + b.ttl]
                 /\ shortened' = IF clock + b.ttl < grants[b.path].expires
                                 THEN shortened \cup {b.token} ELSE shortened
                 /\ reply.done /\ reply.token = b.token
              \/ /\ b.op = "release" /\ Owns(b) /\ UNCHANGED <<next_token, shortened>>
                 /\ grants' = [grants EXCEPT ![b.path] = None]
                 /\ reply.done /\ reply.token = b.token
<1>1. /\ clock \in Nat /\ next_token \in Nat /\ b.token \in Nat /\ b.ttl \in Nat
      /\ Stating(b.ttl) \subseteq Nat \cup {None} /\ Stating(b.ttl) = {clock + b.ttl, None}
  BY DEF Shape, Body, Stating
<1>2. reply \in Reply /\ (reply.done => reply.status = 200 /\ reply.expires \in Stating(b.ttl))
  BY <1>1, ReplyShape DEF Replies
<1>3. CASE b.op = "acquire"
  BY <1>1, <1>2, <1>3, ReplyShape DEF Serve, ServeAcquire
<1>4. CASE b.op = "renew"
  BY <1>1, <1>2, <1>4, ReplyShape DEF Serve, ServeRenew
<1>5. CASE b.op = "release"
  BY <1>1, <1>2, <1>5, ReplyShape DEF Serve, ServeRelease
<1> QED BY <1>1, <1>2, <1>3, <1>4, <1>5 DEF Body

\* Asking the control plane for a lease.
LEMMA StepAcquire ==
    ASSUME IInv, NEW r \in Requests, NEW a \in Agents, NEW p \in Paths, NEW d \in Ttls[r],
           acquire(r, a, p, d)
    PROVE  IInv'
<1>0. Structure /\ Shape /\ d \in Nat
  BY LeaseDescriptorAssumption DEF IInv, Structure
<1>1. Shape'
  BY <1>0, InHand
    DEF Shape, acquire, Waiting, bridge, Calling, Idle, Call, Body
<1>2. Bounded'
  BY <1>0, InHand, LeaseDescriptorAssumption
    DEF Structure, Bounded, acquire, Waiting, bridge, Calling, Idle, Call, Body,
        Shape
<1>3. CallsFit'
  BY <1>0, InHand
    DEF Structure, CallsFit, acquire, Waiting, bridge, Calling, Idle, Call, Body,
        Shape
<1>4. RepliesFit'
  BY <1>0, InHand
    DEF Structure, RepliesFit, acquire, Waiting, bridge, Calling, Idle, Call, Body,
        Shape
<1>5. LockDiscipline'
  BY <1>0, InHand, LeaseDescriptorAssumption
    DEF Structure, LockDiscipline, OneOwner, HasToken, acquire, Waiting, bridge,
        Calling, Idle, Call, Body, Shape
<1>6. OneOwner'
  BY <1>0, InHand
    DEF Structure, OneOwner, HasToken, Bounded, acquire, Waiting, bridge, Calling,
        Idle, Call, Body, Shape
<1>7. ReleasesJustified'
  BY <1>0, InHand
    DEF Structure, ReleasesJustified, ReleaseJustified, Abandoned, HasToken,
        acquire, Waiting, bridge, Calling, Idle, Call, Body, Shape
<1>8. TokensTraced'
  BY <1>0, InHand
    DEF Structure, TokensTraced, Traced, Minted, acquire, Waiting, bridge, Calling,
        Idle, Call, Body, Shape
<1>9. Promises'
  BY <1>0, InHand, LeaseDescriptorAssumption
    DEF Structure, Promises, IInv, Backed, OneOwner, HasToken, Bounded,
        LockDiscipline, RepliesFit, CallsFit, Grant, Store, Call,
        Reply, acquire, Waiting, bridge, Calling, Idle, Body, Shape
<1> QED BY <1>1, <1>2, <1>3, <1>4, <1>5, <1>6, <1>7, <1>8, <1>9 DEF IInv, Structure

\* A grant goes on to the registry: the token stays in the same hands.
LEMMA StepAcquired ==
    ASSUME IInv, NEW r \in Requests, Acquired(r)
    PROVE  IInv'
<1>0. Structure /\ Shape
  BY DEF IInv, Structure
<1>a. /\ req[r] \in Call /\ req[r].reply \in Reply /\ req[r].reply # None
      /\ req[r].pc = "acquire" /\ req[r].body.op = "acquire"
  BY <1>0, InHand DEF Acquired, Calling, Call, Structure, CallsFit
<1>b. /\ req' \in [Requests -> {req'[r]} \cup {req[s] : s \in Requests}]
      /\ \A s \in Requests : s # r => req'[s] = req[s]
      /\ UNCHANGED <<clock, grants, next_token, lock, descriptors, told, given_back, stray,
                     untracked, shortened>>
  BY <1>0 DEF Acquired, bridge, Shape
<1>c. ASSUME req[r].reply.done
      PROVE  /\ req'[r] \in Store /\ req'[r].token = req[r].reply.token
             /\ req'[r].agent = req[r].body.agent /\ req'[r].path = req[r].body.path
             /\ req'[r].told # None => req'[r].told = req[r].reply.expires
  <2>1. req[r].reply.status = 200
    BY <1>0, <1>a, <1>c DEF Structure, RepliesFit, Calling
  <2>2. PICK e, f : e = expiry_from_response(req[r].reply, req[r].body.ttl)
                    /\ f = Told(req[r].reply, req[r].body.ttl)
    OBVIOUS
  <2>3. e \in Nat /\ f \in Nat \cup {None} /\ (f # None => f = req[r].reply.expires)
    BY <1>0, <1>a, <2>2 DEF expiry_from_response, Told, Reply, Shape, Call, Body
  <2>4. req'[r] = [pc |-> "store", token |-> req[r].reply.token, agent |-> req[r].body.agent,
                   path |-> req[r].body.path, told |-> f, expires |-> e]
    BY <1>0, <1>c, <2>1, <2>2 DEF Acquired, success, Shape
  <2> QED BY <1>a, <2>3, <2>4 DEF Store, Call, Body, Reply
<1>d. ~req[r].reply.done => req'[r] = Idle
  BY <1>0 DEF Acquired, Shape
<1>1. Shape'
  BY <1>0, <1>a, <1>b, <1>c, <1>d
    DEF Shape, Idle, Calling, Minted
<1>2. Bounded'
  BY <1>0, <1>a, <1>b, <1>c, <1>d, LeaseDescriptorAssumption
    DEF Structure, Bounded, Idle, Calling, Minted, Shape
<1>3. CallsFit'
  BY <1>0, <1>a, <1>b, <1>c, <1>d
    DEF Structure, CallsFit, Store, Idle, Calling, Minted, Shape
<1>4. RepliesFit'
  BY <1>0, <1>a, <1>b, <1>c, <1>d
    DEF Structure, RepliesFit, Store, Idle, Calling, Minted, Shape
<1>5. LockDiscipline'
  BY <1>0, <1>a, <1>b, <1>c, <1>d, LeaseDescriptorAssumption
    DEF Structure, LockDiscipline, OneOwner, HasToken, Store, Idle, Calling, Minted,
        Shape
<1>6. OneOwner'
  BY <1>0, <1>a, <1>b, <1>c, <1>d
    DEF Structure, OneOwner, HasToken, Bounded, Store, Idle, Calling, Minted, Shape
<1>7. ReleasesJustified'
  BY <1>0, <1>a, <1>b, <1>c, <1>d
    DEF Structure, ReleasesJustified, ReleaseJustified, Abandoned, HasToken, Store,
        Idle, Calling, Minted, Shape
<1>8. TokensTraced'
  BY <1>0, <1>a, <1>b, <1>c, <1>d
    DEF Structure, TokensTraced, Traced, Minted, Store, Idle, Calling, Shape
<1>9. Promises'
  BY <1>0, <1>a, <1>b, <1>c, <1>d, LeaseDescriptorAssumption
    DEF Structure, Promises, IInv, Backed, OneOwner, HasToken, Bounded,
        LockDiscipline, RepliesFit, CallsFit, Grant, Store, Call,
        Reply, Idle, Calling, Minted, Shape
<1> QED BY <1>1, <1>2, <1>3, <1>4, <1>5, <1>6, <1>7, <1>8, <1>9 DEF IInv, Structure

\* The descriptor takes the token over, or the grant is abandoned.
LEMMA StepStore ==
    ASSUME IInv, NEW r \in Requests, store_descriptor(r)
    PROVE  IInv'
<1>0. Structure /\ Shape
  BY DEF IInv, Structure
<1>1. Shape'
  BY <1>0, InHand
    DEF Shape, store_descriptor, Put, Descriptor, Store, Waiting, bridge, Calling,
        Idle, Call, Body
<1>2. Bounded'
  <2>1. Bounded /\ req[r].token \in 1 .. next_token - 1 /\ req[r].token \notin DOMAIN descriptors
    BY <1>0, InHand DEF store_descriptor, Structure, OneOwner, HasToken, Store
  <2>2. CASE Cardinality(DOMAIN descriptors) < MAX_CONTEXT_KEYS
    <3>1. /\ DOMAIN descriptors' = DOMAIN descriptors \cup {req[r].token}
          /\ UNCHANGED <<clock, next_token>>
      BY <2>2 DEF store_descriptor, Put
    <3>2. /\ IsFiniteSet(DOMAIN descriptors')
          /\ Cardinality(DOMAIN descriptors') = Cardinality(DOMAIN descriptors) + 1
      BY <2>1, <3>1, FS_AddElement DEF Bounded
    <3>3. Cardinality(DOMAIN descriptors) \in Nat
      BY <2>1, FS_CardinalityType DEF Bounded
    <3> QED BY <2>1, <2>2, <3>1, <3>2, <3>3, LeaseDescriptorAssumption DEF Bounded
  <2>3. CASE ~(Cardinality(DOMAIN descriptors) < MAX_CONTEXT_KEYS)
    BY <2>1, <2>3 DEF store_descriptor, Bounded
  <2> QED BY <2>2, <2>3
<1>3. CallsFit'
  BY <1>0, InHand
    DEF Structure, CallsFit, store_descriptor, Put, Descriptor, Store, Waiting,
        bridge, Calling, Idle, Call, Body, Shape
<1>4. RepliesFit'
  BY <1>0, InHand
    DEF Structure, RepliesFit, store_descriptor, Put, Descriptor, Store, Waiting,
        bridge, Calling, Idle, Call, Body, Shape
<1>5. LockDiscipline'
  <2>1. lock = None /\ lock' = None /\ \A s \in Requests : s # r => req'[s] = req[s]
    BY <1>0 DEF store_descriptor, Shape
  <2>2. req'[r].pc \notin {"renew", "release"}
    BY <1>0 DEF store_descriptor, Waiting, Idle, Shape
  <2>3. \A s \in Requests : req[s].pc \notin {"renew", "release"}
    BY <1>0, <2>1, LeaseDescriptorAssumption DEF Structure, LockDiscipline
  <2> QED BY <2>1, <2>2, <2>3 DEF LockDiscipline
<1>6. OneOwner'
  BY <1>0, InHand
    DEF Structure, OneOwner, HasToken, Bounded, store_descriptor, Put, Descriptor,
        Store, Waiting, bridge, Calling, Idle, Call, Body, Shape
<1>7. ReleasesJustified'
  <2>0. PICK n : n = req[r].token
    OBVIOUS
  <2>1. /\ req[r].pc = "store" /\ n \in 1 .. next_token - 1 /\ n \notin DOMAIN descriptors
        /\ HasToken(r, n) /\ \A s \in Requests : HasToken(s, n) => s = r
    BY <1>0, <2>0, InHand DEF store_descriptor, Structure, OneOwner, HasToken, Store
  <2>2. /\ \A s \in Requests : s # r => req'[s] = req[s]
        /\ UNCHANGED <<next_token, given_back, stray>>
        /\ DOMAIN descriptors' \subseteq DOMAIN descriptors \cup {n}
        /\ req'[r] = Idle \/ req'[r] = Waiting("cleanup", "release", req[r].agent, req[r].path, n, 0)
        /\ req'[r].pc = "cleanup" => DOMAIN descriptors' = DOMAIN descriptors
    BY <1>0, <2>0 DEF store_descriptor, Put, Shape, Idle
  <2>3. \A s \in Requests, t \in Nat : HasToken(s, t)' => HasToken(s, t) /\ s # r
    BY <2>2 DEF HasToken, Waiting, Idle
  <2>4. ASSUME NEW t \in Nat, Abandoned(t)
        PROVE  Abandoned(t)'
    BY <2>1, <2>2, <2>3, <2>4 DEF Abandoned
  <2>5. ASSUME req'[r].pc = "cleanup"
        PROVE  Abandoned(n)'
    BY <1>0, <2>1, <2>2, <2>3, <2>5 DEF Abandoned, Shape
  <2>6. ASSUME NEW b \in Body, ReleaseJustified(b)
        PROVE  ReleaseJustified(b)'
    BY <2>2, <2>4, <2>6 DEF ReleaseJustified, Body
  <2>7. \A b \in stray' : ReleaseJustified(b)'
    BY <1>0, <2>2, <2>6 DEF Structure, ReleasesJustified, Shape
  <2>8. ASSUME NEW s \in Requests, (req[s].pc)' \in Calling
        PROVE  ReleaseJustified(req[s].body)'
    <3>1. CASE s = r
      BY <2>2, <2>5, <2>8, <3>1 DEF ReleaseJustified, Waiting, Idle, Calling
    <3>2. CASE s # r
      <4>1. PICK b : b = req[s].body
        OBVIOUS
      <4>2. b \in Body /\ ReleaseJustified(b) /\ req'[s].body = b
        BY <1>0, <2>2, <2>8, <3>2, <4>1, InHand DEF Structure, ReleasesJustified, Call
      <4> QED BY <2>6, <4>2 DEF ReleaseJustified
    <3> QED BY <3>1, <3>2
  <2> QED BY <2>7, <2>8 DEF ReleasesJustified
<1>8. TokensTraced'
  BY <1>0, InHand
    DEF Structure, TokensTraced, Traced, Minted, store_descriptor, Put, Descriptor,
        Store, Waiting, bridge, Calling, Idle, Call, Body, Shape
<1>9. Promises'
  <2>0. Promises /\ req[r] \in Store /\ req[r].pc = "store"
    BY <1>0, InHand DEF IInv, store_descriptor
  <2>1. /\ \A s \in Requests : s # r => req'[s] = req[s]
        /\ req'[r].pc \in {"idle", "cleanup"}
        /\ UNCHANGED <<clock, grants, given_back, shortened>>
    BY <1>0 DEF store_descriptor, Waiting, Idle, Shape
  <2>2. ASSUME NEW t \in DOMAIN descriptors', told'[t] # None
        PROVE  Backed(t, descriptors[t].agent, descriptors[t].path, told[t])'
    <3>1. \/ /\ t \in DOMAIN descriptors /\ told'[t] = told[t]
             /\ descriptors'[t] = descriptors[t]
          \/ /\ t = req[r].token /\ told'[t] = req[r].told
             /\ descriptors'[t].agent = req[r].agent /\ descriptors'[t].path = req[r].path
      BY <1>0, <2>2 DEF store_descriptor, Put, Shape
    <3> QED BY <2>0, <2>1, <2>2, <3>1 DEF Promises, Backed
  <2> QED BY <2>0, <2>1, <2>2 DEF Promises, Backed
<1> QED BY <1>1, <1>2, <1>3, <1>4, <1>5, <1>6, <1>7, <1>8, <1>9 DEF IInv, Structure

\* The grant that had no room is known to be untracked.
LEMMA StepCleanedUp ==
    ASSUME IInv, NEW r \in Requests, CleanedUp(r)
    PROVE  IInv'
<1>0. Structure /\ Shape
  BY DEF IInv, Structure
<1>1. Shape'
  BY <1>0, InHand
    DEF Shape, CleanedUp, bridge, Calling, Idle, Call, Body
<1>2. Bounded'
  BY <1>0, InHand, LeaseDescriptorAssumption
    DEF Structure, Bounded, CleanedUp, bridge, Calling, Idle, Call, Body, Shape
<1>3. CallsFit'
  BY <1>0, InHand
    DEF Structure, CallsFit, CleanedUp, bridge, Calling, Idle, Call, Body, Shape
<1>4. RepliesFit'
  BY <1>0, InHand
    DEF Structure, RepliesFit, CleanedUp, bridge, Calling, Idle, Call, Body, Shape
<1>5. LockDiscipline'
  BY <1>0, InHand, LeaseDescriptorAssumption
    DEF Structure, LockDiscipline, OneOwner, HasToken, CleanedUp, bridge, Calling,
        Idle, Call, Body, Shape
<1>6. OneOwner'
  BY <1>0, InHand
    DEF Structure, OneOwner, HasToken, Bounded, CleanedUp, bridge, Calling, Idle,
        Call, Body, Shape
<1>7. ReleasesJustified'
  BY <1>0, InHand
    DEF Structure, ReleasesJustified, ReleaseJustified, Abandoned, HasToken,
        CleanedUp, bridge, Calling, Idle, Call, Body, Shape
<1>8. TokensTraced'
  <2>1. /\ \A s \in Requests : s # r => req'[s] = req[s]
        /\ UNCHANGED <<grants, next_token, descriptors>>
        /\ untracked' = untracked \cup {req[r].body.token}
        /\ Minted(req[r]) = {}
    BY <1>0 DEF CleanedUp, bridge, Shape, Minted, Structure, CallsFit
  <2>2. ASSUME NEW t, Traced(t)
        PROVE  Traced(t)'
    BY <2>1, <2>2 DEF Traced, CleanedUp, Minted
  <2> QED BY <1>0, <2>1, <2>2 DEF Structure, TokensTraced
<1>9. Promises'
  BY <1>0, InHand, LeaseDescriptorAssumption
    DEF Structure, Promises, IInv, Backed, OneOwner, HasToken, Bounded,
        LockDiscipline, RepliesFit, CallsFit, Grant, Store, Call,
        Reply, CleanedUp, bridge, Calling, Idle, Body, Shape
<1> QED BY <1>1, <1>2, <1>3, <1>4, <1>5, <1>6, <1>7, <1>8, <1>9 DEF IInv, Structure

\* The lock is free, so no renewal and no release is under way.
LEMMA StepRenew ==
    ASSUME IInv, NEW r \in Requests, NEW t \in DOMAIN descriptors, NEW d \in Ttls[r],
           renew(r, t, d)
    PROVE  IInv'
<1>0. Structure /\ Shape /\ d \in Nat
  BY LeaseDescriptorAssumption DEF IInv, Structure
<1>1. Shape'
  BY <1>0, InHand
    DEF Structure, Shape, Bounded, renew, load_active_descriptor, Descriptor,
        Waiting, bridge, Calling, Idle, Call, Body
<1>2. Bounded'
  BY <1>0, InHand, LeaseDescriptorAssumption
    DEF Structure, Bounded, renew, load_active_descriptor, Descriptor, Waiting,
        bridge, Calling, Idle, Call, Body, Shape
<1>3. CallsFit'
  BY <1>0, InHand
    DEF Structure, CallsFit, renew, load_active_descriptor, Descriptor, Waiting,
        bridge, Calling, Idle, Call, Body, Shape
<1>4. RepliesFit'
  BY <1>0, InHand
    DEF Structure, RepliesFit, renew, load_active_descriptor, Descriptor, Waiting,
        bridge, Calling, Idle, Call, Body, Shape
<1>5. LockDiscipline'
  BY <1>0, InHand, LeaseDescriptorAssumption
    DEF Structure, LockDiscipline, OneOwner, HasToken, renew,
        load_active_descriptor, Descriptor, Waiting, bridge, Calling, Idle, Call,
        Body, Shape
<1>6. OneOwner'
  BY <1>0, InHand
    DEF Structure, OneOwner, HasToken, Bounded, renew, load_active_descriptor,
        Descriptor, Waiting, bridge, Calling, Idle, Call, Body, Shape
<1>7. ReleasesJustified'
  BY <1>0, InHand
    DEF Structure, ReleasesJustified, ReleaseJustified, Abandoned, HasToken, renew,
        load_active_descriptor, Descriptor, Waiting, bridge, Calling, Idle, Call,
        Body, Shape
<1>8. TokensTraced'
  BY <1>0, InHand
    DEF Structure, TokensTraced, Traced, Minted, renew, load_active_descriptor,
        Descriptor, Waiting, bridge, Calling, Idle, Call, Body, Shape
<1>9. Promises'
  BY <1>0, InHand, LeaseDescriptorAssumption
    DEF Structure, Promises, IInv, Backed, OneOwner, HasToken, Bounded,
        LockDiscipline, RepliesFit, CallsFit, Grant, Store, Call,
        Reply, renew, load_active_descriptor, Descriptor, Waiting, bridge, Calling,
        Idle, Body, Shape
<1> QED BY <1>1, <1>2, <1>3, <1>4, <1>5, <1>6, <1>7, <1>8, <1>9 DEF IInv, Structure

\* The lock is free, so no renewal and no release is under way.
LEMMA StepRelease ==
    ASSUME IInv, NEW r \in Requests, NEW t \in DOMAIN descriptors, release(r, t)
    PROVE  IInv'
<1>0. Structure /\ Shape
  BY DEF IInv, Structure
<1>1. Shape'
  BY <1>0, InHand
    DEF Structure, Shape, Bounded, release, load_active_descriptor, Descriptor,
        Waiting, bridge, Calling, Idle, Call, Body
<1>2. Bounded'
  BY <1>0, InHand, LeaseDescriptorAssumption
    DEF Structure, Bounded, release, load_active_descriptor, Descriptor, Waiting,
        bridge, Calling, Idle, Call, Body, Shape
<1>3. CallsFit'
  BY <1>0, InHand
    DEF Structure, CallsFit, release, load_active_descriptor, Descriptor, Waiting,
        bridge, Calling, Idle, Call, Body, Shape
<1>4. RepliesFit'
  BY <1>0, InHand
    DEF Structure, RepliesFit, release, load_active_descriptor, Descriptor, Waiting,
        bridge, Calling, Idle, Call, Body, Shape
<1>5. LockDiscipline'
  BY <1>0, InHand, LeaseDescriptorAssumption
    DEF Structure, LockDiscipline, OneOwner, HasToken, release,
        load_active_descriptor, Descriptor, Waiting, bridge, Calling, Idle, Call,
        Body, Shape
<1>6. OneOwner'
  BY <1>0, InHand
    DEF Structure, OneOwner, HasToken, Bounded, release, load_active_descriptor,
        Descriptor, Waiting, bridge, Calling, Idle, Call, Body, Shape
<1>7. ReleasesJustified'
  BY <1>0, InHand
    DEF Structure, ReleasesJustified, ReleaseJustified, Abandoned, HasToken,
        release, load_active_descriptor, Descriptor, Waiting, bridge, Calling, Idle,
        Call, Body, Shape
<1>8. TokensTraced'
  BY <1>0, InHand
    DEF Structure, TokensTraced, Traced, Minted, release, load_active_descriptor,
        Descriptor, Waiting, bridge, Calling, Idle, Call, Body, Shape
<1>9. Promises'
  BY <1>0, InHand, LeaseDescriptorAssumption
    DEF Structure, Promises, IInv, Backed, OneOwner, HasToken, Bounded,
        LockDiscipline, RepliesFit, CallsFit, Grant, Store, Call,
        Reply, release, load_active_descriptor, Descriptor, Waiting, bridge,
        Calling, Idle, Body, Shape
<1> QED BY <1>1, <1>2, <1>3, <1>4, <1>5, <1>6, <1>7, <1>8, <1>9 DEF IInv, Structure

\* The descriptor that is written back is the one that was loaded.
LEMMA StepRenewed ==
    ASSUME IInv, NEW r \in Requests, Renewed(r)
    PROVE  IInv'
<1>0. Structure /\ Shape
  BY DEF IInv, Structure
<1> DEFINE t == req[r].body.token
<1>a. /\ req[r] \in Call /\ req[r].reply \in Reply /\ req[r].reply # None
      /\ req[r].pc = "renew" /\ lock = r /\ t \in DOMAIN descriptors
      /\ req[r].body.op # "acquire" /\ Unlock(r)
  BY <1>0, InHand DEF Renewed, Calling, Call, Structure, CallsFit, LockDiscipline
<1>b. /\ req' = [req EXCEPT ![r] = Idle]
      /\ UNCHANGED <<clock, grants, next_token, given_back, stray, untracked>>
  BY DEF Renewed
<1>c. /\ DOMAIN descriptors' = DOMAIN descriptors
      /\ descriptors' \in [DOMAIN descriptors -> Descriptor]
      /\ told' \in [DOMAIN descriptors -> Nat \cup {None}]
      /\ \A x \in DOMAIN descriptors :
            /\ descriptors'[x].agent = descriptors[x].agent
            /\ descriptors'[x].path = descriptors[x].path
            /\ x # t => descriptors'[x] = descriptors[x] /\ told'[x] = told[x]
      /\ \/ told' = told /\ shortened' = shortened
         \/ /\ req[r].reply.done /\ req[r].reply.token = t
            /\ told'[t] # None => req[r].reply.expires # None /\ told'[t] = req[r].reply.expires
            /\ shortened' = Heard(req[r].body, req[r].reply)
  <2> DEFINE e == expiry_from_response(req[r].reply, req[r].body.ttl)
             f == Told(req[r].reply, req[r].body.ttl)
  <2>1. e \in Nat /\ f \in Nat \cup {None} /\ (f # None => req[r].reply.expires # None /\ f = req[r].reply.expires)
    BY <1>0, <1>a DEF Told, expiry_from_response, Reply, Shape, Call, Body
  <2>2. descriptors[t] \in Descriptor
    BY <1>0, <1>a DEF Shape
  <2>3. CASE success(req[r].reply) /\ req[r].reply.done /\ req[r].reply.token = t
    <3>1. /\ descriptors' = [descriptors EXCEPT ![t] = [@ EXCEPT !.expires = e, !.status = "active"]]
          /\ told' = Put(told, t, f) /\ shortened' = Heard(req[r].body, req[r].reply)
      BY <2>3 DEF Renewed
    <3> HIDE DEF e, f
    <3>2. [descriptors[t] EXCEPT !.expires = e, !.status = "active"] \in Descriptor
      BY <2>1, <2>2 DEF Descriptor
    <3>3. /\ told' \in [DOMAIN descriptors -> Nat \cup {None}] /\ told'[t] = f
          /\ \A x \in DOMAIN descriptors : x # t => told'[x] = told[x]
      BY <1>0, <1>a, <2>1, <3>1 DEF Shape, Put
    <3>4. /\ DOMAIN descriptors' = DOMAIN descriptors
          /\ descriptors' \in [DOMAIN descriptors -> Descriptor]
          /\ \A x \in DOMAIN descriptors :
                /\ descriptors'[x].agent = descriptors[x].agent
                /\ descriptors'[x].path = descriptors[x].path
                /\ x # t => descriptors'[x] = descriptors[x]
      BY <1>0, <1>a, <2>1, <2>2, <3>1, <3>2 DEF Shape, Descriptor
    <3> QED BY <2>1, <2>3, <3>1, <3>3, <3>4
  <2>4. CASE ~(success(req[r].reply) /\ req[r].reply.done /\ req[r].reply.token = t)
    BY <1>0, <2>4 DEF Renewed, Shape
  <2> QED BY <2>3, <2>4
<1>1. Shape'
  BY <1>0, <1>a, <1>b, <1>c, LeaseDescriptorAssumption
    DEF Shape, Descriptor, Idle, Calling, Unlock
<1>2. Bounded'
  BY <1>0, <1>a, <1>b, <1>c, LeaseDescriptorAssumption
    DEF Structure, Bounded, Idle, Calling, Unlock, Shape
<1>3. CallsFit'
  BY <1>0, <1>a, <1>b, <1>c, LeaseDescriptorAssumption
    DEF Structure, CallsFit, Idle, Calling, Unlock, Shape
<1>4. RepliesFit'
  BY <1>0, <1>a, <1>b, <1>c, LeaseDescriptorAssumption
    DEF Structure, RepliesFit, Idle, Calling, Unlock, Shape
<1>5. LockDiscipline'
  BY <1>0, <1>a, <1>b, <1>c, LeaseDescriptorAssumption
    DEF Structure, LockDiscipline, OneOwner, HasToken, Idle, Calling, Unlock, Shape
<1>6. OneOwner'
  BY <1>0, <1>a, <1>b, <1>c, LeaseDescriptorAssumption
    DEF Structure, OneOwner, HasToken, Bounded, Idle, Calling, Unlock, Shape
<1>7. ReleasesJustified'
  BY <1>0, <1>a, <1>b, <1>c, LeaseDescriptorAssumption
    DEF Structure, ReleasesJustified, ReleaseJustified, Abandoned, HasToken, Idle,
        Calling, Unlock, Shape
<1>8. TokensTraced'
  BY <1>0, <1>a, <1>b, <1>c, LeaseDescriptorAssumption
    DEF Structure, TokensTraced, Traced, Minted, Idle, Calling, Unlock, Shape
<1>9. Promises'
  <2>0. Promises
    BY DEF IInv
  <2>1. \A x \in Nat : x # t => (x \in shortened' <=> x \in shortened)
    BY <1>c DEF Heard
  <2>2. ASSUME NEW x \in DOMAIN descriptors, told'[x] # None
        PROVE  Backed(x, descriptors[x].agent, descriptors[x].path, told[x])'
    <3>0. x \in Nat
      BY <1>0 DEF Structure, Bounded, Shape
    <3>1. CASE x # t \/ (told' = told /\ shortened' = shortened)
      BY <1>b, <1>c, <2>0, <2>1, <2>2, <3>0, <3>1 DEF Promises, Backed
    <3>2. CASE x = t /\ shortened' = Heard(req[r].body, req[r].reply) /\ req[r].reply.done
               /\ req[r].reply.token = t /\ told'[t] = req[r].reply.expires
               /\ req[r].reply.expires # None
      <4>1. req[r].body.agent = descriptors[x].agent /\ req[r].body.path = descriptors[x].path
        BY <1>0, <1>a, <3>2 DEF Structure, LockDiscipline
      <4>2. Backed(x, descriptors[x].agent, descriptors[x].path, req[r].reply.expires)
        BY <1>a, <2>0, <3>2, <4>1 DEF Promises
      <4>3. CASE Owns(req[r].body) /\ req[r].reply.expires <= grants[req[r].body.path].expires
        <5>1. /\ grants[descriptors[x].path] # None /\ grants[descriptors[x].path].token = x
              /\ grants[descriptors[x].path].agent = descriptors[x].agent
              /\ req[r].reply.expires <= grants[descriptors[x].path].expires
          BY <3>2, <4>1, <4>3 DEF Owns, Held
        <5>2. descriptors[x].path \in Paths
          BY <1>0 DEF Shape, Descriptor
        <5>3. grants[descriptors[x].path].expires \in Nat /\ req[r].reply.expires \in Nat
          BY <1>0, <1>a, <3>2, <5>1, <5>2 DEF Shape, Grant, Reply
        <5> QED BY <1>b, <1>c, <3>2, <5>1, <5>3 DEF Backed
      <4>4. CASE ~(Owns(req[r].body) /\ req[r].reply.expires <= grants[req[r].body.path].expires)
        <5>1. shortened' = shortened
          BY <3>2, <4>4 DEF Heard
        <5> QED BY <1>b, <1>c, <3>2, <4>2, <5>1 DEF Backed
      <4> QED BY <4>3, <4>4
    <3> QED BY <1>c, <2>2, <3>1, <3>2
  <2>3. \A s \in Requests : s # r => req'[s] = req[s]
    BY <1>0, <1>b DEF Shape
  <2>4. req'[r].pc = "idle"
    BY <1>0, <1>b DEF Shape, Idle
  <2>5. ASSUME NEW s \in Requests, s # r, req[s].pc = "store", req[s].told # None
        PROVE  Backed(req[s].token, req[s].agent, req[s].path, req[s].told)'
    <3>1. req[s].token \in Nat /\ req[s].token # t
      BY <1>0, <1>a, <2>5, InHand DEF Structure, OneOwner, HasToken, Store
    <3> QED BY <1>b, <2>0, <2>1, <2>3, <2>5, <3>1 DEF Promises, Backed
  <2>6. ASSUME NEW s \in Requests, s # r, req[s].pc \in {"acquire", "renew"}, req[s].reply # None,
               req[s].reply.done, req[s].reply.expires # None
        PROVE  Backed(req[s].reply.token, req[s].body.agent, req[s].body.path, req[s].reply.expires)'
    <3>1. req[s].pc = "acquire"
      BY <1>0, <1>a, <2>6 DEF Structure, LockDiscipline
    <3>2. req[s].reply.token \in Nat /\ req[s].reply.token # t
      BY <1>0, <1>a, <2>6, <3>1, InHand DEF Structure, OneOwner, HasToken, Call, Calling, Reply
    <3> QED BY <1>b, <2>0, <2>1, <2>3, <2>6, <3>2 DEF Promises, Backed
  <2> QED BY <1>c, <2>2, <2>3, <2>4, <2>5, <2>6 DEF Promises
<1> QED BY <1>1, <1>2, <1>3, <1>4, <1>5, <1>6, <1>7, <1>8, <1>9 DEF IInv, Structure

\* The tombstone keeps the path and the agent.
LEMMA StepReleased ==
    ASSUME IInv, NEW r \in Requests, Released(r)
    PROVE  IInv'
<1>0. Structure /\ Shape
  BY DEF IInv, Structure
<1> DEFINE t == req[r].body.token
<1>a. /\ req[r] \in Call /\ req[r].reply \in Reply /\ req[r].reply # None
      /\ req[r].pc \in {"renew", "release"} /\ lock = r /\ t \in DOMAIN descriptors
      /\ req[r].body.op # "acquire" /\ Unlock(r)
  BY <1>0, InHand DEF Released, Calling, Call, Structure, CallsFit, LockDiscipline
<1>b. /\ req' = [req EXCEPT ![r] = Idle]
      /\ UNCHANGED <<clock, grants, next_token, given_back, stray, untracked, shortened>>
  BY DEF Released
<1>c. /\ DOMAIN descriptors' = DOMAIN descriptors
      /\ descriptors' \in [DOMAIN descriptors -> Descriptor]
      /\ told' = told
      /\ \A x \in DOMAIN descriptors :
            /\ descriptors'[x].agent = descriptors[x].agent
            /\ descriptors'[x].path = descriptors[x].path
            /\ x # t => descriptors'[x] = descriptors[x]
  <2>1. descriptors[t] \in Descriptor /\ clock \in Nat
    BY <1>0, <1>a DEF Shape
  <2>2. [descriptors[t] EXCEPT !.status = "released", !.expires = clock] \in Descriptor
    BY <2>1 DEF Descriptor
  <2> QED BY <1>0, <1>a, <2>1, <2>2 DEF Released, Shape, Descriptor
<1>1. Shape'
  BY <1>0, <1>a, <1>b, <1>c, LeaseDescriptorAssumption
    DEF Shape, Descriptor, Idle, Calling, Unlock
<1>2. Bounded'
  BY <1>0, <1>a, <1>b, <1>c, LeaseDescriptorAssumption
    DEF Structure, Bounded, Idle, Calling, Unlock, Shape
<1>3. CallsFit'
  BY <1>0, <1>a, <1>b, <1>c, LeaseDescriptorAssumption
    DEF Structure, CallsFit, Idle, Calling, Unlock, Shape
<1>4. RepliesFit'
  BY <1>0, <1>a, <1>b, <1>c, LeaseDescriptorAssumption
    DEF Structure, RepliesFit, Idle, Calling, Unlock, Shape
<1>5. LockDiscipline'
  BY <1>0, <1>a, <1>b, <1>c, LeaseDescriptorAssumption
    DEF Structure, LockDiscipline, OneOwner, HasToken, Idle, Calling, Unlock, Shape
<1>6. OneOwner'
  BY <1>0, <1>a, <1>b, <1>c, LeaseDescriptorAssumption
    DEF Structure, OneOwner, HasToken, Bounded, Idle, Calling, Unlock, Shape
<1>7. ReleasesJustified'
  BY <1>0, <1>a, <1>b, <1>c, LeaseDescriptorAssumption
    DEF Structure, ReleasesJustified, ReleaseJustified, Abandoned, HasToken, Idle,
        Calling, Unlock, Shape
<1>8. TokensTraced'
  BY <1>0, <1>a, <1>b, <1>c, LeaseDescriptorAssumption
    DEF Structure, TokensTraced, Traced, Minted, Idle, Calling, Unlock, Shape
<1>9. Promises'
  <2>0. Promises
    BY DEF IInv
  <2>1. ASSUME NEW x \in DOMAIN descriptors, told[x] # None
        PROVE  Backed(x, descriptors[x].agent, descriptors[x].path, told[x])'
    BY <1>b, <1>c, <2>0, <2>1 DEF Promises, Backed
  <2>2. \A s \in Requests : s # r => req'[s] = req[s]
    BY <1>0, <1>b DEF Shape
  <2>3. req'[r].pc = "idle"
    BY <1>0, <1>b DEF Shape, Idle
  <2> QED BY <1>b, <1>c, <2>0, <2>1, <2>2, <2>3 DEF Promises, Backed
<1> QED BY <1>1, <1>2, <1>3, <1>4, <1>5, <1>6, <1>7, <1>8, <1>9 DEF IInv, Structure

\* A forwarded acquisition.
LEMMA StepForwardAcquire ==
    ASSUME IInv, NEW r \in Requests, NEW a \in Agents, NEW p \in Paths, NEW d \in Ttls[r],
           ForwardAcquire(r, a, p, d)
    PROVE  IInv'
<1>0. Structure /\ Shape /\ d \in Nat
  BY LeaseDescriptorAssumption DEF IInv, Structure
<1>1. Shape'
  BY <1>0, InHand
    DEF Shape, ForwardAcquire, Waiting, bridge, Calling, Idle, Call, Body
<1>2. Bounded'
  BY <1>0, InHand, LeaseDescriptorAssumption
    DEF Structure, Bounded, ForwardAcquire, Waiting, bridge, Calling, Idle, Call,
        Body, Shape
<1>3. CallsFit'
  BY <1>0, InHand
    DEF Structure, CallsFit, ForwardAcquire, Waiting, bridge, Calling, Idle, Call,
        Body, Shape
<1>4. RepliesFit'
  BY <1>0, InHand
    DEF Structure, RepliesFit, ForwardAcquire, Waiting, bridge, Calling, Idle, Call,
        Body, Shape
<1>5. LockDiscipline'
  BY <1>0, InHand, LeaseDescriptorAssumption
    DEF Structure, LockDiscipline, OneOwner, HasToken, ForwardAcquire, Waiting,
        bridge, Calling, Idle, Call, Body, Shape
<1>6. OneOwner'
  BY <1>0, InHand
    DEF Structure, OneOwner, HasToken, Bounded, ForwardAcquire, Waiting, bridge,
        Calling, Idle, Call, Body, Shape
<1>7. ReleasesJustified'
  BY <1>0, InHand
    DEF Structure, ReleasesJustified, ReleaseJustified, Abandoned, HasToken,
        ForwardAcquire, Waiting, bridge, Calling, Idle, Call, Body, Shape
<1>8. TokensTraced'
  BY <1>0, InHand
    DEF Structure, TokensTraced, Traced, Minted, ForwardAcquire, Waiting, bridge,
        Calling, Idle, Call, Body, Shape
<1>9. Promises'
  BY <1>0, InHand, LeaseDescriptorAssumption
    DEF Structure, Promises, IInv, Backed, OneOwner, HasToken, Bounded,
        LockDiscipline, RepliesFit, CallsFit, Grant, Store, Call,
        Reply, ForwardAcquire, Waiting, bridge, Calling, Idle, Body, Shape
<1> QED BY <1>1, <1>2, <1>3, <1>4, <1>5, <1>6, <1>7, <1>8, <1>9 DEF IInv, Structure

\* A forwarded renewal.
LEMMA StepForwardRenew ==
    ASSUME IInv, NEW r \in Requests, NEW a \in Agents, NEW p \in Paths,
           NEW t \in 1 .. next_token - 1, NEW d \in Ttls[r], ForwardRenew(r, a, p, t, d)
    PROVE  IInv'
<1>0. Structure /\ Shape /\ d \in Nat
  BY LeaseDescriptorAssumption DEF IInv, Structure
<1>1. Shape'
  BY <1>0, InHand
    DEF Shape, ForwardRenew, Waiting, bridge, Calling, Idle, Call, Body
<1>2. Bounded'
  BY <1>0, InHand, LeaseDescriptorAssumption
    DEF Structure, Bounded, ForwardRenew, Waiting, bridge, Calling, Idle, Call,
        Body, Shape
<1>3. CallsFit'
  BY <1>0, InHand
    DEF Structure, CallsFit, ForwardRenew, Waiting, bridge, Calling, Idle, Call,
        Body, Shape
<1>4. RepliesFit'
  BY <1>0, InHand
    DEF Structure, RepliesFit, ForwardRenew, Waiting, bridge, Calling, Idle, Call,
        Body, Shape
<1>5. LockDiscipline'
  BY <1>0, InHand, LeaseDescriptorAssumption
    DEF Structure, LockDiscipline, OneOwner, HasToken, ForwardRenew, Waiting,
        bridge, Calling, Idle, Call, Body, Shape
<1>6. OneOwner'
  BY <1>0, InHand
    DEF Structure, OneOwner, HasToken, Bounded, ForwardRenew, Waiting, bridge,
        Calling, Idle, Call, Body, Shape
<1>7. ReleasesJustified'
  BY <1>0, InHand
    DEF Structure, ReleasesJustified, ReleaseJustified, Abandoned, HasToken,
        ForwardRenew, Waiting, bridge, Calling, Idle, Call, Body, Shape
<1>8. TokensTraced'
  BY <1>0, InHand
    DEF Structure, TokensTraced, Traced, Minted, ForwardRenew, Waiting, bridge,
        Calling, Idle, Call, Body, Shape
<1>9. Promises'
  BY <1>0, InHand, LeaseDescriptorAssumption
    DEF Structure, Promises, IInv, Backed, OneOwner, HasToken, Bounded,
        LockDiscipline, RepliesFit, CallsFit, Grant, Store, Call,
        Reply, ForwardRenew, Waiting, bridge, Calling, Idle, Body, Shape
<1> QED BY <1>1, <1>2, <1>3, <1>4, <1>5, <1>6, <1>7, <1>8, <1>9 DEF IInv, Structure

\* A forwarded release: somebody asked for it.
LEMMA StepForwardRelease ==
    ASSUME IInv, NEW r \in Requests, NEW a \in Agents, NEW p \in Paths,
           NEW t \in 1 .. next_token - 1, ForwardRelease(r, a, p, t)
    PROVE  IInv'
<1>0. Structure /\ Shape
  BY DEF IInv, Structure
<1>1. Shape'
  BY <1>0, InHand
    DEF Shape, ForwardRelease, Waiting, bridge, Calling, Idle, Call, Body
<1>2. Bounded'
  BY <1>0, InHand, LeaseDescriptorAssumption
    DEF Structure, Bounded, ForwardRelease, Waiting, bridge, Calling, Idle, Call,
        Body, Shape
<1>3. CallsFit'
  BY <1>0, InHand
    DEF Structure, CallsFit, ForwardRelease, Waiting, bridge, Calling, Idle, Call,
        Body, Shape
<1>4. RepliesFit'
  BY <1>0, InHand
    DEF Structure, RepliesFit, ForwardRelease, Waiting, bridge, Calling, Idle, Call,
        Body, Shape
<1>5. LockDiscipline'
  BY <1>0, InHand, LeaseDescriptorAssumption
    DEF Structure, LockDiscipline, OneOwner, HasToken, ForwardRelease, Waiting,
        bridge, Calling, Idle, Call, Body, Shape
<1>6. OneOwner'
  BY <1>0, InHand
    DEF Structure, OneOwner, HasToken, Bounded, ForwardRelease, Waiting, bridge,
        Calling, Idle, Call, Body, Shape
<1>7. ReleasesJustified'
  BY <1>0, InHand
    DEF Structure, ReleasesJustified, ReleaseJustified, Abandoned, HasToken,
        ForwardRelease, Waiting, bridge, Calling, Idle, Call, Body, Shape
<1>8. TokensTraced'
  BY <1>0, InHand
    DEF Structure, TokensTraced, Traced, Minted, ForwardRelease, Waiting, bridge,
        Calling, Idle, Call, Body, Shape
<1>9. Promises'
  BY <1>0, InHand, LeaseDescriptorAssumption
    DEF Structure, Promises, IInv, Backed, OneOwner, HasToken, Bounded,
        LockDiscipline, RepliesFit, CallsFit, Grant, Store, Call,
        Reply, ForwardRelease, Waiting, bridge, Calling, Idle, Body, Shape
<1> QED BY <1>1, <1>2, <1>3, <1>4, <1>5, <1>6, <1>7, <1>8, <1>9 DEF IInv, Structure

\* What a forwarded acquisition minted is known to be untracked.
LEMMA StepForwarded ==
    ASSUME IInv, NEW r \in Requests, Forwarded(r)
    PROVE  IInv'
<1>0. Structure /\ Shape
  BY DEF IInv, Structure
<1>1. Shape'
  BY <1>0, InHand
    DEF Shape, Forwarded, bridge, Calling, Idle, Call, Body
<1>2. Bounded'
  BY <1>0, InHand, LeaseDescriptorAssumption
    DEF Structure, Bounded, Forwarded, bridge, Calling, Idle, Call, Body, Shape
<1>3. CallsFit'
  BY <1>0, InHand
    DEF Structure, CallsFit, Forwarded, bridge, Calling, Idle, Call, Body, Shape
<1>4. RepliesFit'
  BY <1>0, InHand
    DEF Structure, RepliesFit, Forwarded, bridge, Calling, Idle, Call, Body, Shape
<1>5. LockDiscipline'
  BY <1>0, InHand, LeaseDescriptorAssumption
    DEF Structure, LockDiscipline, OneOwner, HasToken, Forwarded, bridge, Calling,
        Idle, Call, Body, Shape
<1>6. OneOwner'
  BY <1>0, InHand
    DEF Structure, OneOwner, HasToken, Bounded, Forwarded, bridge, Calling, Idle,
        Call, Body, Shape
<1>7. ReleasesJustified'
  BY <1>0, InHand
    DEF Structure, ReleasesJustified, ReleaseJustified, Abandoned, HasToken,
        Forwarded, bridge, Calling, Idle, Call, Body, Shape
<1>8. TokensTraced'
  BY <1>0, InHand
    DEF Structure, TokensTraced, Traced, Minted, Forwarded, bridge, Calling, Idle,
        Call, Body, Shape
<1>9. Promises'
  BY <1>0, InHand, LeaseDescriptorAssumption
    DEF Structure, Promises, IInv, Backed, OneOwner, HasToken, Bounded,
        LockDiscipline, RepliesFit, CallsFit, Grant, Store, Call,
        Reply, Forwarded, bridge, Calling, Idle, Body, Shape
<1> QED BY <1>1, <1>2, <1>3, <1>4, <1>5, <1>6, <1>7, <1>8, <1>9 DEF IInv, Structure

\* A call nobody waits for any more may still be served.
LEMMA StepGiveUp ==
    ASSUME IInv, NEW r \in Requests, GiveUp(r)
    PROVE  IInv'
<1>0. Structure /\ Shape
  BY DEF IInv, Structure
<1>1. Shape'
  BY <1>0, InHand, LeaseDescriptorAssumption
    DEF Shape, GiveUp, Unlock, bridge, Calling, Idle, Call, Body
<1>2. Bounded'
  BY <1>0, InHand, LeaseDescriptorAssumption
    DEF Structure, Bounded, GiveUp, Unlock, bridge, Calling, Idle, Call, Body,
        Shape
<1>3. CallsFit'
  BY <1>0, InHand, LeaseDescriptorAssumption
    DEF Structure, CallsFit, GiveUp, Unlock, bridge, Calling, Idle, Call, Body,
        Shape
<1>4. RepliesFit'
  BY <1>0, InHand, LeaseDescriptorAssumption
    DEF Structure, RepliesFit, GiveUp, Unlock, bridge, Calling, Idle, Call, Body,
        Shape
<1>5. LockDiscipline'
  BY <1>0, InHand, LeaseDescriptorAssumption
    DEF Structure, LockDiscipline, OneOwner, HasToken, GiveUp, Unlock, bridge,
        Calling, Idle, Call, Body, Shape
<1>6. OneOwner'
  BY <1>0, InHand, LeaseDescriptorAssumption
    DEF Structure, OneOwner, HasToken, Bounded, GiveUp, Unlock, bridge, Calling,
        Idle, Call, Body, Shape
<1>7. ReleasesJustified'
  BY <1>0, InHand, LeaseDescriptorAssumption
    DEF Structure, ReleasesJustified, ReleaseJustified, Abandoned, HasToken, GiveUp,
        Unlock, bridge, Calling, Idle, Call, Body, Shape
<1>8. TokensTraced'
  BY <1>0, InHand, LeaseDescriptorAssumption
    DEF Structure, TokensTraced, Traced, Minted, GiveUp, Unlock, bridge, Calling,
        Idle, Call, Body, Shape
<1>9. Promises'
  BY <1>0, InHand, LeaseDescriptorAssumption
    DEF Structure, Promises, IInv, Backed, OneOwner, HasToken, Bounded,
        LockDiscipline, RepliesFit, CallsFit, Grant, Store, Call,
        Reply, GiveUp, Unlock, bridge, Calling, Idle, Body, Shape
<1> QED BY <1>1, <1>2, <1>3, <1>4, <1>5, <1>6, <1>7, <1>8, <1>9 DEF IInv, Structure

\* A handler dropped before it stored.
LEMMA StepDropStore ==
    ASSUME IInv, NEW r \in Requests, DropStore(r)
    PROVE  IInv'
<1>0. Structure /\ Shape
  BY DEF IInv, Structure
<1>1. Shape'
  BY <1>0, InHand
    DEF Shape, DropStore, bridge, Calling, Idle, Store
<1>2. Bounded'
  BY <1>0, InHand, LeaseDescriptorAssumption
    DEF Structure, Bounded, DropStore, bridge, Calling, Idle, Store, Shape
<1>3. CallsFit'
  BY <1>0, InHand
    DEF Structure, CallsFit, DropStore, bridge, Calling, Idle, Store, Shape
<1>4. RepliesFit'
  BY <1>0, InHand
    DEF Structure, RepliesFit, DropStore, bridge, Calling, Idle, Store, Shape
<1>5. LockDiscipline'
  BY <1>0, InHand, LeaseDescriptorAssumption
    DEF Structure, LockDiscipline, OneOwner, HasToken, DropStore, bridge, Calling,
        Idle, Store, Shape
<1>6. OneOwner'
  BY <1>0, InHand
    DEF Structure, OneOwner, HasToken, Bounded, DropStore, bridge, Calling, Idle,
        Store, Shape
<1>7. ReleasesJustified'
  BY <1>0, InHand
    DEF Structure, ReleasesJustified, ReleaseJustified, Abandoned, HasToken,
        DropStore, bridge, Calling, Idle, Store, Shape
<1>8. TokensTraced'
  BY <1>0, InHand
    DEF Structure, TokensTraced, Traced, Minted, DropStore, bridge, Calling, Idle,
        Store, Shape
<1>9. Promises'
  BY <1>0, InHand, LeaseDescriptorAssumption
    DEF Structure, Promises, IInv, Backed, OneOwner, HasToken, Bounded,
        LockDiscipline, RepliesFit, CallsFit, Grant, Store, Call,
        Reply, DropStore, bridge, Calling, Idle, Shape
<1> QED BY <1>1, <1>2, <1>3, <1>4, <1>5, <1>6, <1>7, <1>8, <1>9 DEF IInv, Structure

\* A call that never arrives.
LEMMA StepLoseStray ==
    ASSUME IInv, NEW b \in stray, LoseStray(b)
    PROVE  IInv'
<1>0. Structure /\ Shape
  BY DEF IInv, Structure
<1>1. Shape'
  BY <1>0, InHand
    DEF Shape, LoseStray, bridge
<1>2. Bounded'
  BY <1>0, InHand, LeaseDescriptorAssumption
    DEF Structure, Bounded, LoseStray, bridge, Shape
<1>3. CallsFit'
  BY <1>0, InHand
    DEF Structure, CallsFit, LoseStray, bridge, Shape
<1>4. RepliesFit'
  BY <1>0, InHand
    DEF Structure, RepliesFit, LoseStray, bridge, Shape
<1>5. LockDiscipline'
  BY <1>0, InHand, LeaseDescriptorAssumption
    DEF Structure, LockDiscipline, OneOwner, HasToken, LoseStray, bridge, Shape
<1>6. OneOwner'
  BY <1>0, InHand
    DEF Structure, OneOwner, HasToken, Bounded, LoseStray, bridge, Shape
<1>7. ReleasesJustified'
  BY <1>0, InHand
    DEF Structure, ReleasesJustified, ReleaseJustified, Abandoned, HasToken,
        LoseStray, bridge, Shape
<1>8. TokensTraced'
  BY <1>0, InHand
    DEF Structure, TokensTraced, Traced, Minted, LoseStray, bridge, Shape
<1>9. Promises'
  BY <1>0, InHand, LeaseDescriptorAssumption
    DEF Structure, Promises, IInv, Backed, OneOwner, HasToken, Bounded,
        LockDiscipline, RepliesFit, CallsFit, Grant, Store, Call,
        Reply, LoseStray, bridge, Shape
<1> QED BY <1>1, <1>2, <1>3, <1>4, <1>5, <1>6, <1>7, <1>8, <1>9 DEF IInv, Structure

\* Time passes: what was backed until e still is.
LEMMA StepTick ==
    ASSUME IInv, Tick
    PROVE  IInv'
<1>0. Structure /\ Shape
  BY DEF IInv, Structure
<1>1. Shape'
  BY <1>0, InHand, LeaseDescriptorAssumption
    DEF Shape, Tick, bridge
<1>2. Bounded'
  BY <1>0, InHand, LeaseDescriptorAssumption
    DEF Structure, Bounded, Tick, bridge, Shape
<1>3. CallsFit'
  BY <1>0, InHand, LeaseDescriptorAssumption
    DEF Structure, CallsFit, Tick, bridge, Shape
<1>4. RepliesFit'
  BY <1>0, InHand, LeaseDescriptorAssumption
    DEF Structure, RepliesFit, Tick, bridge, Shape
<1>5. LockDiscipline'
  BY <1>0, InHand, LeaseDescriptorAssumption
    DEF Structure, LockDiscipline, OneOwner, HasToken, Tick, bridge, Shape
<1>6. OneOwner'
  BY <1>0, InHand, LeaseDescriptorAssumption
    DEF Structure, OneOwner, HasToken, Bounded, Tick, bridge, Shape
<1>7. ReleasesJustified'
  BY <1>0, InHand, LeaseDescriptorAssumption
    DEF Structure, ReleasesJustified, ReleaseJustified, Abandoned, HasToken, Tick,
        bridge, Shape
<1>8. TokensTraced'
  BY <1>0, InHand, LeaseDescriptorAssumption
    DEF Structure, TokensTraced, Traced, Minted, Tick, bridge, Shape
<1>9. Promises'
  BY <1>0, InHand, LeaseDescriptorAssumption
    DEF Structure, Promises, IInv, Backed, OneOwner, HasToken, Bounded,
        LockDiscipline, RepliesFit, CallsFit, Grant, Store, Call,
        Reply, Tick, bridge, Shape
<1> QED BY <1>1, <1>2, <1>3, <1>4, <1>5, <1>6, <1>7, <1>8, <1>9 DEF IInv, Structure

\* Serving a call keeps the control plane's table in order: every grant has a
\* token that was minted, what was backed stays backed unless the token was
\* abandoned, and so is what a granted answer states.
LEMMA ServeKeeps ==
    ASSUME Structure, NEW b \in Body, NEW reply, reply \in Replies(b), Serve(b, reply),
           ReleaseJustified(b), UNCHANGED <<clock, given_back>>
    PROVE  /\ grants' \in [Paths -> Grant \cup {None}]
           /\ next_token' \in Nat \ {0} /\ next_token' <= MaxTokens + 1
           /\ \A p \in Paths : grants'[p] # None => grants'[p].token \in 1 .. next_token' - 1
           /\ \A t, e \in Nat, a \in Agents, p \in Paths :
                 ~Abandoned(t) /\ Backed(t, a, p, e) => Backed(t, a, p, e)'
           /\ reply.done /\ b.op # "release" /\ reply.expires # None =>
                 Backed(reply.token, b.agent, b.path, reply.expires)'
           /\ reply.done => reply.status = 200 /\ reply.token \in Nat
           /\ reply.done /\ b.op = "acquire" =>
                 reply.token = next_token /\ next_token' = next_token + 1
           /\ ~(reply.done /\ b.op = "acquire") => next_token' = next_token
           /\ reply.done /\ b.op # "acquire" => reply.token = b.token
<1>1. /\ Shape /\ next_token <= MaxTokens + 1
      /\ \A p \in Paths : grants[p] # None => grants[p].token \in 1 .. next_token - 1
  BY DEF Structure, Bounded, TokensTraced
<1>e. PICK x : x = clock + b.ttl
  OBVIOUS
<1>2. clock \in Nat /\ next_token \in Nat \ {0} /\ x \in Nat
      /\ b.path \in Paths /\ b.agent \in Agents /\ b.token \in Nat
      /\ grants \in [Paths -> Grant \cup {None}] /\ MaxTokens \in Nat
  BY <1>1, <1>e, LeaseDescriptorAssumption DEF Shape, Body
<1> DEFINE G == [agent |-> b.agent, token |-> next_token, expires |-> x]
<1>s. /\ reply \in Reply /\ reply.token \in Nat
      /\ reply.done => reply.status = 200
      /\ reply.done /\ reply.expires # None => reply.expires = x
  <2>1. reply \in Reply /\ (reply.done => reply.status = 200 /\ reply.expires \in {clock + b.ttl, None})
    BY <1>1, ServeStep
  <2> QED BY <1>e, <2>1 DEF Reply
<1>3. CASE ~reply.done /\ UNCHANGED <<grants, next_token, shortened>>
  BY <1>1, <1>2, <1>3 DEF Backed
<1>4. CASE /\ b.op = "acquire" /\ ~Held(b.path) /\ next_token <= MaxTokens
           /\ next_token' = next_token + 1 /\ UNCHANGED shortened
           /\ reply.done /\ reply.token = next_token
           /\ grants' = [grants EXCEPT ![b.path] = G]
  <2>1. G \in Grant /\ G # None
    BY <1>2, LeaseDescriptorAssumption DEF Grant
  <2>3. ASSUME NEW t \in Nat, NEW a, NEW e \in Nat, NEW p \in Paths, Backed(t, a, p, e)
        PROVE  Backed(t, a, p, e)'
    BY <1>2, <1>4, <2>3 DEF Backed, Held, Grant
  <2>4. reply.expires # None => Backed(reply.token, b.agent, b.path, reply.expires)'
    BY <1>2, <1>4, <1>s, <2>1 DEF Backed
  <2>5. \A p \in Paths : grants'[p] # None => grants'[p].token \in 1 .. next_token' - 1
    BY <1>1, <1>2, <1>4 DEF Grant
  <2>6. grants' \in [Paths -> Grant \cup {None}]
    BY <1>2, <1>4, <2>1
  <2>7. next_token' \in Nat \ {0} /\ next_token' <= MaxTokens + 1
    BY <1>2, <1>4
  <2> QED BY <1>4, <1>s, <2>3, <2>4, <2>5, <2>6, <2>7
<1>5. CASE /\ b.op = "renew" /\ Owns(b) /\ UNCHANGED next_token
           /\ grants' = [grants EXCEPT ![b.path].expires = x]
           /\ shortened' = IF x < grants[b.path].expires
                           THEN shortened \cup {b.token} ELSE shortened
           /\ reply.done /\ reply.token = b.token
  <2> DEFINE g == [grants[b.path] EXCEPT !.expires = x]
  <2>1. /\ grants[b.path] \in Grant /\ grants[b.path].token = b.token
        /\ grants[b.path].agent = b.agent /\ grants[b.path].expires \in Nat
    BY <1>1, <1>2, <1>5 DEF Owns, Held, Grant
  <2>2. /\ g \in Grant /\ g # None /\ g.expires = x
        /\ g.token = b.token /\ g.agent = b.agent
    BY <1>2, <2>1, LeaseDescriptorAssumption DEF Grant
  <2>3. grants' = [grants EXCEPT ![b.path] = g]
    BY <1>2, <1>5
  <2> HIDE DEF g
  <2>5. ASSUME NEW t \in Nat, NEW a, NEW e \in Nat, NEW p \in Paths, Backed(t, a, p, e)
        PROVE  Backed(t, a, p, e)'
    BY <1>2, <1>5, <2>1, <2>2, <2>3, <2>5 DEF Backed, Grant
  <2>6. reply.expires # None => Backed(reply.token, b.agent, b.path, reply.expires)'
    <3>1. grants'[b.path] = g /\ reply.token = b.token /\ (reply.expires # None => reply.expires = x)
      BY <1>2, <1>5, <1>s, <2>3
    <3> QED BY <1>2, <2>2, <3>1 DEF Backed
  <2>7. \A p \in Paths : grants'[p] # None => grants'[p].token \in 1 .. next_token' - 1
    BY <1>1, <1>2, <1>5, <2>1, <2>2, <2>3, LeaseDescriptorAssumption DEF Grant
  <2>8. grants' \in [Paths -> Grant \cup {None}]
    BY <1>2, <2>2, <2>3
  <2> QED BY <1>1, <1>2, <1>5, <1>s, <2>5, <2>6, <2>7, <2>8
<1>6. CASE /\ b.op = "release" /\ Owns(b) /\ UNCHANGED <<next_token, shortened>>
           /\ grants' = [grants EXCEPT ![b.path] = None]
           /\ reply.done /\ reply.token = b.token
  <2>1. grants[b.path] # None /\ grants[b.path].token = b.token
    BY <1>6 DEF Owns, Held
  <2>3. b.token \in given_back \/ Abandoned(b.token)
    BY <1>6 DEF ReleaseJustified
  <2>4. ASSUME NEW t \in Nat, NEW a, NEW e \in Nat, NEW p \in Paths, Backed(t, a, p, e), ~Abandoned(t)
        PROVE  Backed(t, a, p, e)'
    BY <1>2, <1>6, <2>1, <2>3, <2>4 DEF Backed
  <2>5. \A p \in Paths : grants'[p] # None => grants'[p].token \in 1 .. next_token' - 1
    BY <1>1, <1>2, <1>6
  <2> QED BY <1>1, <1>2, <1>6, <1>s, <2>4, <2>5
<1> QED BY <1>1, <1>e, <1>3, <1>4, <1>5, <1>6, ServeStep

\* A call is served while its handler waits.
LEMMA StepAnswer ==
    ASSUME IInv, NEW r \in Requests, Answer(r)
    PROVE  IInv'
<1>0. Structure /\ Shape
  BY DEF IInv, Structure
<1>a. PICK b : b = req[r].body
  OBVIOUS
<1>b. /\ req[r].pc \in Calling /\ req[r] \in Call /\ b \in Body /\ req[r].reply = None
      /\ ReleaseJustified(b) /\ b = req[r].body
  BY <1>0, <1>a, InHand DEF Answer, Call, Structure, ReleasesJustified
<1>c. UNCHANGED <<clock, lock, descriptors, told, given_back, stray, untracked>>
  BY DEF Answer, bridge
<1>r. PICK reply \in Replies(b) : Serve(b, reply) /\ req' = [req EXCEPT ![r].reply = reply]
  BY <1>b DEF Answer
<1>d. /\ grants' \in [Paths -> Grant \cup {None}]
      /\ next_token' \in Nat \ {0} /\ next_token' <= MaxTokens + 1
      /\ \A p \in Paths : grants'[p] # None => grants'[p].token \in 1 .. next_token' - 1
      /\ \A t, e \in Nat, a \in Agents, p \in Paths :
            ~Abandoned(t) /\ Backed(t, a, p, e) => Backed(t, a, p, e)'
      /\ reply.done /\ b.op # "release" /\ reply.expires # None =>
            Backed(reply.token, b.agent, b.path, reply.expires)'
      /\ reply.done => reply.status = 200 /\ reply.token \in Nat
      /\ reply.done /\ b.op = "acquire" => reply.token = next_token /\ next_token' = next_token + 1
      /\ ~(reply.done /\ b.op = "acquire") => next_token' = next_token
      /\ reply.done /\ b.op # "acquire" => reply.token = b.token
  BY <1>0, <1>b, <1>c, <1>r, ServeKeeps
<1>e. next_token' = next_token \/ next_token' = next_token + 1
  BY <1>d
<1>f. /\ req' \in [Requests -> {Idle} \cup Call \cup Store]
      /\ \A s \in Requests : s # r => req'[s] = req[s]
      /\ req'[r].pc = req[r].pc /\ req'[r].body = b /\ req'[r].reply = reply
      /\ reply \in Reply
  <2>1. reply \in Reply
    BY <1>0, <1>b, <1>r, ServeStep
  <2>2. [req[r] EXCEPT !.reply = reply] \in Call
    BY <1>b, <2>1 DEF Call
  <2> QED BY <1>0, <1>b, <1>r, <2>1, <2>2 DEF Shape, Call
<1>g. \A s \in Requests, t \in Nat :
         HasToken(s, t)' => HasToken(s, t) \/ (s = r /\ t = next_token /\ next_token' = next_token + 1)
  <2>1. req[r].pc = "acquire" => b.op = "acquire"
    BY <1>0, <1>b DEF Structure, CallsFit
  <2> QED BY <1>b, <1>d, <1>f, <2>1 DEF HasToken, Calling
<1>h. ASSUME NEW t \in Nat, Abandoned(t)
      PROVE  Abandoned(t)'
  BY <1>0, <1>c, <1>d, <1>e, <1>g, <1>h DEF Abandoned, Shape
<1>1. Shape'
  BY <1>0, <1>c, <1>d, <1>f
    DEF Shape
<1>2. Bounded'
  <2>1. Bounded /\ clock' = clock /\ descriptors' = descriptors
    BY <1>0, <1>c DEF Structure
  <2> QED BY <1>0, <1>d, <1>e, <2>1 DEF Bounded, Shape
<1>3. CallsFit'
  BY <1>0, <1>b, <1>f
    DEF Structure, CallsFit
<1>4. RepliesFit'
  BY <1>0, <1>d, <1>f
    DEF Structure, RepliesFit, Shape
<1>5. LockDiscipline'
  BY <1>0, <1>b, <1>c, <1>f, LeaseDescriptorAssumption
    DEF Structure, LockDiscipline, Shape
<1>6. OneOwner'
  <2>1. ASSUME NEW s \in Requests, NEW t \in Nat, HasToken(s, t)'
        PROVE  /\ t \in 1 .. next_token' - 1 /\ t \notin DOMAIN descriptors'
               /\ \A q \in Requests : HasToken(q, t)' => q = s
    BY <1>0, <1>c, <1>e, <1>g, <2>1 DEF Structure, OneOwner, Shape, Bounded
  <2> QED BY <2>1 DEF OneOwner
<1>7. ReleasesJustified'
  <2>1. \A s \in Requests : req'[s].pc = req[s].pc /\ (req[s].pc \in Calling => req'[s].body = req[s].body)
    BY <1>b, <1>f
  <2> QED BY <1>0, <1>c, <1>h, <2>1, InHand DEF Structure, ReleasesJustified, ReleaseJustified, Call, Body, Shape
<1>8. TokensTraced'
  <2>1. ASSUME NEW t, Traced(t)
        PROVE  Traced(t)'
    BY <1>b, <1>c, <1>f, <2>1, LeaseDescriptorAssumption DEF Traced, Minted, Calling
  <2>2. ASSUME NEW n, n = next_token, next_token' # n
        PROVE  next_token' = n + 1 /\ Traced(n)'
    <3>1. next_token' = n + 1 /\ req'[r].pc \in Calling /\ n \in Minted(req'[r])
      BY <1>b, <1>d, <1>f, <2>2, LeaseDescriptorAssumption DEF Minted
    <3> QED BY <3>1 DEF Traced
  <2> QED BY <1>0, <1>d, <1>e, <2>1, <2>2 DEF Structure, TokensTraced, Shape
<1>9. Promises'
  <2>0. Promises
    BY DEF IInv
  <2>1. ASSUME NEW t \in DOMAIN descriptors, told[t] # None
        PROVE  Backed(t, descriptors[t].agent, descriptors[t].path, told[t])'
    <3>1. /\ descriptors[t].agent \in Agents /\ descriptors[t].path \in Paths
          /\ told[t] \in Nat /\ t \in Nat /\ ~Abandoned(t)
          /\ Backed(t, descriptors[t].agent, descriptors[t].path, told[t])
      BY <1>0, <2>0, <2>1 DEF Structure, Shape, Bounded, Descriptor, Promises, Abandoned
    <3>2. PICK a, p, e : a = descriptors[t].agent /\ p = descriptors[t].path /\ e = told[t]
      OBVIOUS
    <3>3. Backed(t, a, p, e)'
      BY <1>d, <3>1, <3>2
    <3> QED BY <1>c, <3>2, <3>3 DEF Backed
  <2>2. ASSUME NEW s \in Requests, req[s].pc = "store", req[s].told # None
        PROVE  Backed(req[s].token, req[s].agent, req[s].path, req[s].told)'
    <3>1. /\ req[s].agent \in Agents /\ req[s].path \in Paths
          /\ req[s].told \in Nat /\ req[s].token \in Nat /\ ~Abandoned(req[s].token)
          /\ Backed(req[s].token, req[s].agent, req[s].path, req[s].told)
      BY <1>0, <2>0, <2>2, InHand DEF Structure, Store, Promises, Abandoned, HasToken
    <3>2. PICK t, a, p, e :
            t = req[s].token /\ a = req[s].agent /\ p = req[s].path /\ e = req[s].told
      OBVIOUS
    <3>3. Backed(t, a, p, e)'
      BY <1>d, <3>1, <3>2
    <3> QED BY <1>b, <1>c, <1>f, <2>2, <3>2, <3>3 DEF Backed, Calling
  <2>3. ASSUME NEW s \in Requests, req[s].pc \in {"acquire", "renew"}, s # r, req[s].reply # None,
               req[s].reply.done, req[s].reply.expires # None
        PROVE  Backed(req[s].reply.token, req[s].body.agent, req[s].body.path, req[s].reply.expires)'
    <3>1. req[s] \in Call /\ req[s].reply \in Reply /\ req[s].body \in Body
      BY <1>0, <2>3, InHand DEF Call, Calling
    <3>2. req[s].reply.expires \in Nat
      BY <2>3, <3>1 DEF Reply
    <3>3. ~Abandoned(req[s].reply.token)
      BY <1>0, <2>3, <3>1 DEF Structure, RepliesFit, Calling, CallsFit, LockDiscipline, Abandoned, HasToken
    <3>4. Backed(req[s].reply.token, req[s].body.agent, req[s].body.path, req[s].reply.expires)
      BY <2>0, <2>3 DEF Promises
    <3>5. PICK t, a, p, e :
            /\ t = req[s].reply.token /\ a = req[s].body.agent /\ p = req[s].body.path
            /\ e = req[s].reply.expires
      OBVIOUS
    <3>6. Backed(t, a, p, e)'
      BY <1>d, <3>1, <3>2, <3>3, <3>4, <3>5 DEF Body, Reply
    <3> QED BY <1>c, <1>f, <2>3, <3>5, <3>6 DEF Backed
  <2>4. ASSUME req[r].pc \in {"acquire", "renew"}, reply.done, reply.expires # None
        PROVE  Backed(req[r].reply.token, req[r].body.agent, req[r].body.path, req[r].reply.expires)'
    <3>1. b.op # "release"
      BY <1>0, <1>b, <2>4 DEF Structure, CallsFit
    <3>2. PICK t, e : t = reply.token /\ e = reply.expires
      OBVIOUS
    <3>3. Backed(t, b.agent, b.path, e)'
      BY <1>d, <2>4, <3>1, <3>2
    <3> QED BY <1>f, <3>2, <3>3 DEF Backed
  <2> QED BY <1>b, <1>c, <1>f, <2>1, <2>2, <2>3, <2>4 DEF Promises, Calling
<1> QED BY <1>1, <1>2, <1>3, <1>4, <1>5, <1>6, <1>7, <1>8, <1>9 DEF IInv, Structure

\* A call is served after its handler gave up.
LEMMA StepAnswerStray ==
    ASSUME IInv, NEW b \in stray, AnswerStray(b)
    PROVE  IInv'
<1>0. Structure /\ Shape
  BY DEF IInv, Structure
<1>b. b \in Body /\ ReleaseJustified(b)
  BY <1>0 DEF Shape, Structure, ReleasesJustified
<1>c. /\ UNCHANGED <<clock, req, lock, descriptors, told, given_back>>
      /\ stray' = stray \ {b} /\ untracked \subseteq untracked'
  BY DEF AnswerStray, bridge
<1>r. PICK reply \in Replies(b) :
         /\ Serve(b, reply)
         /\ b.op = "acquire" /\ reply.done => reply.token \in untracked'
  BY DEF AnswerStray
<1>d. /\ grants' \in [Paths -> Grant \cup {None}]
      /\ next_token' \in Nat \ {0} /\ next_token' <= MaxTokens + 1
      /\ \A p \in Paths : grants'[p] # None => grants'[p].token \in 1 .. next_token' - 1
      /\ \A t, e \in Nat, a \in Agents, p \in Paths :
            ~Abandoned(t) /\ Backed(t, a, p, e) => Backed(t, a, p, e)'
      /\ reply.done /\ b.op = "acquire" => reply.token = next_token /\ next_token' = next_token + 1
      /\ ~(reply.done /\ b.op = "acquire") => next_token' = next_token
  BY <1>0, <1>b, <1>c, <1>r, ServeKeeps
<1>e. next_token' = next_token \/ next_token' = next_token + 1
  BY <1>d
<1>h. ASSUME NEW t \in Nat, Abandoned(t)
      PROVE  Abandoned(t)'
  BY <1>0, <1>c, <1>d, <1>e, <1>h DEF Abandoned, HasToken, Shape
<1>1. Shape'
  BY <1>0, <1>c, <1>d
    DEF Shape
<1>2. Bounded'
  <2>1. Bounded /\ clock' = clock /\ descriptors' = descriptors
    BY <1>0, <1>c DEF Structure
  <2> QED BY <1>0, <1>d, <1>e, <2>1 DEF Bounded, Shape
<1>3. CallsFit'
  BY <1>0, <1>c
    DEF Structure, CallsFit
<1>4. RepliesFit'
  BY <1>0, <1>c
    DEF Structure, RepliesFit
<1>5. LockDiscipline'
  BY <1>0, <1>c
    DEF Structure, LockDiscipline
<1>6. OneOwner'
  BY <1>0, <1>c, <1>d, <1>e
    DEF Structure, OneOwner, HasToken, Shape
<1>7. ReleasesJustified'
  BY <1>0, <1>c, <1>h, InHand
    DEF Structure, ReleasesJustified, ReleaseJustified, Call, Body, Shape
<1>8. TokensTraced'
  <2>1. ASSUME NEW t, Traced(t)
        PROVE  Traced(t)'
    BY <1>c, <2>1 DEF Traced
  <2>2. ASSUME NEW n, n = next_token, next_token' # n
        PROVE  next_token' = n + 1 /\ Traced(n)'
    BY <1>d, <1>r, <2>2 DEF Traced
  <2> QED BY <1>0, <1>d, <1>e, <2>1, <2>2 DEF Structure, TokensTraced, Shape
<1>9. Promises'
  <2>0. Promises
    BY DEF IInv
  <2>1. ASSUME NEW t \in DOMAIN descriptors, told[t] # None
        PROVE  Backed(t, descriptors[t].agent, descriptors[t].path, told[t])'
    <3>1. /\ descriptors[t].agent \in Agents /\ descriptors[t].path \in Paths
          /\ told[t] \in Nat /\ t \in Nat /\ ~Abandoned(t)
          /\ Backed(t, descriptors[t].agent, descriptors[t].path, told[t])
      BY <1>0, <2>0, <2>1 DEF Structure, Shape, Bounded, Descriptor, Promises, Abandoned
    <3>2. PICK a, p, e : a = descriptors[t].agent /\ p = descriptors[t].path /\ e = told[t]
      OBVIOUS
    <3>3. Backed(t, a, p, e)'
      BY <1>d, <3>1, <3>2
    <3> QED BY <1>c, <3>2, <3>3 DEF Backed
  <2>2. ASSUME NEW s \in Requests, req[s].pc = "store", req[s].told # None
        PROVE  Backed(req[s].token, req[s].agent, req[s].path, req[s].told)'
    <3>1. /\ req[s].agent \in Agents /\ req[s].path \in Paths
          /\ req[s].told \in Nat /\ req[s].token \in Nat /\ ~Abandoned(req[s].token)
          /\ Backed(req[s].token, req[s].agent, req[s].path, req[s].told)
      BY <1>0, <2>0, <2>2, InHand DEF Structure, Store, Promises, Abandoned, HasToken
    <3>2. PICK t, a, p, e :
            t = req[s].token /\ a = req[s].agent /\ p = req[s].path /\ e = req[s].told
      OBVIOUS
    <3>3. Backed(t, a, p, e)'
      BY <1>d, <3>1, <3>2
    <3> QED BY <1>c, <2>2, <3>2, <3>3 DEF Backed
  <2>3. ASSUME NEW s \in Requests, req[s].pc \in {"acquire", "renew"}, req[s].reply # None,
               req[s].reply.done, req[s].reply.expires # None
        PROVE  Backed(req[s].reply.token, req[s].body.agent, req[s].body.path, req[s].reply.expires)'
    <3>1. req[s] \in Call /\ req[s].reply \in Reply /\ req[s].body \in Body
      BY <1>0, <2>3, InHand DEF Call, Calling
    <3>2. req[s].reply.expires \in Nat
      BY <2>3, <3>1 DEF Reply
    <3>3. ~Abandoned(req[s].reply.token)
      BY <1>0, <2>3, <3>1 DEF Structure, RepliesFit, Calling, CallsFit, LockDiscipline, Abandoned, HasToken
    <3>4. Backed(req[s].reply.token, req[s].body.agent, req[s].body.path, req[s].reply.expires)
      BY <2>0, <2>3 DEF Promises
    <3>5. PICK t, a, p, e :
            /\ t = req[s].reply.token /\ a = req[s].body.agent /\ p = req[s].body.path
            /\ e = req[s].reply.expires
      OBVIOUS
    <3>6. Backed(t, a, p, e)'
      BY <1>d, <3>1, <3>2, <3>3, <3>4, <3>5 DEF Body, Reply
    <3> QED BY <1>c, <2>3, <3>5, <3>6 DEF Backed
  <2> QED BY <1>c, <2>1, <2>2, <2>3 DEF Promises
<1> QED BY <1>1, <1>2, <1>3, <1>4, <1>5, <1>6, <1>7, <1>8, <1>9 DEF IInv, Structure

-----------------------------------------------------------------------------
(* The theorems *)

\* The invariant holds of a bridge that has stored nothing.
LEMMA InitIInv == Init => IInv
<1> SUFFICES ASSUME Init PROVE IInv
  OBVIOUS
<1>1. \A r \in Requests : req[r] = Idle /\ req[r].pc = "idle"
  BY DEF Init, Idle
<1>2. Shape
  BY LeaseDescriptorAssumption DEF Init, Shape
<1>3. Bounded
  BY FS_EmptySet, LeaseDescriptorAssumption DEF Init, Bounded
<1>4. CallsFit /\ RepliesFit /\ LockDiscipline /\ OneOwner
  BY <1>1 DEF Init, CallsFit, RepliesFit, LockDiscipline, OneOwner, HasToken, Calling
<1>5. ReleasesJustified /\ TokensTraced /\ Promises
  BY <1>1 DEF Init, ReleasesJustified, TokensTraced, Promises, Calling
<1> QED BY <1>2, <1>3, <1>4, <1>5 DEF IInv, Structure

\* Every step of a handler, of the control plane or of time keeps the invariant.
LEMMA NextIInv == IInv /\ [Next]_vars => IInv'
<1> SUFFICES ASSUME IInv, [Next]_vars PROVE IInv'
  OBVIOUS
<1>1. ASSUME NEW r \in Requests,
             \/ Answer(r) \/ Acquired(r) \/ store_descriptor(r) \/ CleanedUp(r)
             \/ Renewed(r) \/ Released(r) \/ Forwarded(r) \/ GiveUp(r) \/ DropStore(r)
      PROVE  IInv'
  BY <1>1, StepAnswer, StepAcquired, StepStore, StepCleanedUp, StepRenewed, StepReleased,
     StepForwarded, StepGiveUp, StepDropStore
<1>2. ASSUME NEW r \in Requests, NEW t \in DOMAIN descriptors,
             release(r, t) \/ \E d \in Ttls[r] : renew(r, t, d)
      PROVE  IInv'
  BY <1>2, StepRenew, StepRelease
<1>3. ASSUME NEW r \in Requests, NEW a \in Agents, NEW p \in Paths, NEW d \in Ttls[r],
             acquire(r, a, p, d)
      PROVE  IInv'
  BY <1>3, StepAcquire
<1>4. ASSUME NEW r \in Canonical, NEW a \in Agents, NEW p \in Paths,
             \/ \E d \in Ttls[r] : ForwardAcquire(r, a, p, d)
             \/ \E t \in 1 .. (next_token - 1) : ForwardRelease(r, a, p, t)
             \/ \E t \in 1 .. (next_token - 1), d \in Ttls[r] : ForwardRenew(r, a, p, t, d)
      PROVE  IInv'
  <2>1. r \in Requests
    BY LeaseDescriptorAssumption
  <2> QED BY <1>4, <2>1, StepForwardAcquire, StepForwardRenew, StepForwardRelease
<1>5. ASSUME NEW b \in stray, AnswerStray(b) \/ LoseStray(b)
      PROVE  IInv'
  BY <1>5, StepAnswerStray, StepLoseStray
<1>6. CASE Tick
  BY <1>6, StepTick
<1>7. CASE UNCHANGED vars
  <2>1. Structure'
    BY <1>7 DEF IInv, vars, Structure, Shape, Bounded, CallsFit, RepliesFit, LockDiscipline, OneOwner,
                HasToken, ReleasesJustified, ReleaseJustified, Abandoned, TokensTraced, Traced
  <2>2. Promises'
    BY <1>7 DEF IInv, vars, Promises, Backed
  <2> QED BY <2>1, <2>2 DEF IInv
<1> QED BY <1>1, <1>2, <1>3, <1>4, <1>5, <1>6, <1>7 DEF Next

\* The inductive invariant holds throughout.
LEMMA Invariance == Spec => []IInv
BY InitIInv, NextIInv, PTL DEF Spec

\* Every variable keeps its type, only a renewal or a release holds the
\* mutation lock, and the registry, tombstones included, stays within its room.
THEOREM TypeCorrect == Spec => []TypeOK
<1>1. IInv => TypeOK
  BY LeaseDescriptorAssumption DEF IInv, Structure, Shape, Bounded, LockDiscipline, TypeOK
<1> QED BY <1>1, Invariance, PTL

\* While it is locked the descriptor a renewal loaded stays as it was, so its
\* late answer never brings a released descriptor back.
THEOREM ReleasedStaysReleased == Spec => ReleasedIsFinal
<1>1. ASSUME IInv, Next, NEW t \in DOMAIN descriptors, descriptors[t].status = "released"
      PROVE  descriptors'[t] = descriptors[t]
  <2>0. Structure /\ Shape
    BY <1>1 DEF IInv, Structure
  <2>1. ASSUME NEW r \in Requests, store_descriptor(r) PROVE descriptors'[t] = descriptors[t]
    BY <1>1, <2>0, <2>1, InHand DEF store_descriptor, Put, Structure, OneOwner, HasToken, Store
  <2>2. ASSUME NEW r \in Requests, Renewed(r) \/ Released(r) PROVE descriptors'[t] = descriptors[t]
    <3>1. req[r].body.token # t
      BY <1>1, <2>0, <2>2 DEF Renewed, Released, Structure, LockDiscipline
    <3> QED BY <1>1, <2>0, <2>2, <3>1 DEF Renewed, Released, Shape
  <2>3. ASSUME NEW r \in Requests,
               \/ Answer(r) \/ Acquired(r) \/ CleanedUp(r) \/ Forwarded(r) \/ GiveUp(r) \/ DropStore(r)
               \/ \E x \in DOMAIN descriptors : release(r, x)
               \/ \E x \in DOMAIN descriptors, d \in Ttls[r] : renew(r, x, d)
               \/ \E a \in Agents, p \in Paths, d \in Ttls[r] : acquire(r, a, p, d)
        PROVE  descriptors' = descriptors
    BY <2>3 DEF Answer, Acquired, CleanedUp, Forwarded, GiveUp, DropStore, renew, release, acquire, bridge
  <2>4. ASSUME NEW r \in Canonical, NEW a \in Agents, NEW p \in Paths,
               \/ \E d \in Ttls[r] : ForwardAcquire(r, a, p, d)
               \/ \E x \in 1 .. (next_token - 1) : ForwardRelease(r, a, p, x)
               \/ \E x \in 1 .. (next_token - 1), d \in Ttls[r] : ForwardRenew(r, a, p, x, d)
        PROVE  descriptors' = descriptors
    BY <2>4 DEF ForwardAcquire, ForwardRenew, ForwardRelease, bridge
  <2>5. ASSUME (\E b \in stray : AnswerStray(b) \/ LoseStray(b)) \/ Tick
        PROVE  descriptors' = descriptors
    BY <2>5 DEF AnswerStray, LoseStray, Tick, bridge
  <2> QED BY <1>1, <2>1, <2>2, <2>3, <2>4, <2>5 DEF Next
<1>2. IInv /\ [Next]_vars =>
        [\A t \in DOMAIN descriptors :
            descriptors[t].status = "released" => descriptors'[t] = descriptors[t]]_vars
  BY <1>1
<1> QED BY <1>2, Invariance, PTL DEF Spec, ReleasedIsFinal

\* Every token ever minted is named by a descriptor, in the hands of one
\* handler or known to be untracked; so is the token of every live grant.
THEOREM GrantsAccounted == Spec => []GrantAccounted
<1>1. IInv => GrantAccounted
  <2> SUFFICES ASSUME IInv, NEW p \in Paths, Held(p)
               PROVE  \/ grants[p].token \in DOMAIN descriptors \cup untracked
                      \/ \E r \in Requests :
                            \/ req[r].pc = "store" /\ req[r].token = grants[p].token
                            \/ req[r].pc = "cleanup" /\ req[r].body.token = grants[p].token
                            \/ req[r].pc \in Calling /\ req[r].reply # None
                               /\ req[r].reply.token = grants[p].token
    BY DEF GrantAccounted
  <2>1. Traced(grants[p].token)
    BY DEF IInv, Structure, TokensTraced, Held
  <2> QED BY <2>1 DEF Traced, Minted
<1> QED BY <1>1, Invariance, PTL

\* An agent that was told an expiry the control plane had stated may write
\* until then: the control plane keeps the grant for the same path, agent and
\* token at least as long, unless somebody asked to release it or a renewal for
\* a shorter ttl, which the agent has not heard of, took it back. (When no
\* expiry is stated the bridge counts a ttl from the moment it reads the
\* answer, and the descriptor may outlive the grant.)
THEOREM WritesAreAuthorised == Spec => []WriteAuthority
<1>1. IInv => WriteAuthority
  BY DEF IInv, Structure, Shape, Promises, Backed, WriteAuthority
<1> QED BY <1>1, Invariance, PTL

=============================================================================
