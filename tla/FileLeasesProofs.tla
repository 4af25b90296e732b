-------------------------- MODULE FileLeasesProofs --------------------------
(***************************************************************************)
(* Proofs about FileLeases, for every set of agents, repositories, paths,  *)
(* TTLs and requests and every bound.                                      *)
(***************************************************************************)
EXTENDS FileLeases, FiniteSetTheorems, SequenceTheorems, TLAPS

-----------------------------------------------------------------------------
(* Paths *)

\* A strict prefix, read segment by segment.
LEMMA StrictPrefixPointwise ==
    ASSUME NEW p \in Seq(STRING), NEW q \in Seq(STRING)
    PROVE  IsStrictPrefix(p, q) <=>
              /\ Len(p) < Len(q)
              /\ \A i \in 1 .. Len(p) : p[i] = q[i]
<1>1. ASSUME IsStrictPrefix(p, q)
      PROVE  Len(p) < Len(q) /\ \A i \in 1 .. Len(p) : p[i] = q[i]
  <2>1. Len(p) <= Len(q) /\ SubSeq(p, 1, Len(p)) = SubSeq(q, 1, Len(p)) /\ p # q
    BY <1>1 DEF IsStrictPrefix, IsPrefix
  <2>2. \A i \in 1 .. Len(p) : p[i] = q[i]
    <3>1. \A i \in 1 .. Len(p) : SubSeq(p, 1, Len(p))[i] = p[i]
      BY SubSeqProperties
    <3>2. \A i \in 1 .. Len(p) : SubSeq(q, 1, Len(p))[i] = q[i]
      BY <2>1, SubSeqProperties
    <3> QED BY <2>1, <3>1, <3>2
  <2>3. Len(p) # Len(q)
    BY <2>1, <2>2, SeqEqual
  <2> QED BY <2>1, <2>2, <2>3
<1>2. ASSUME Len(p) < Len(q), \A i \in 1 .. Len(p) : p[i] = q[i]
      PROVE  IsStrictPrefix(p, q)
  <2>1. p # q
    BY <1>2
  <2>2. SubSeq(p, 1, Len(p)) = SubSeq(q, 1, Len(p))
    <3>1. /\ SubSeq(p, 1, Len(p)) \in Seq(STRING)
          /\ Len(SubSeq(p, 1, Len(p))) = Len(p)
          /\ \A i \in 1 .. Len(p) : SubSeq(p, 1, Len(p))[i] = p[i]
      BY SubSeqProperties
    <3>2. /\ SubSeq(q, 1, Len(p)) \in Seq(STRING)
          /\ Len(SubSeq(q, 1, Len(p))) = Len(p)
          /\ \A i \in 1 .. Len(p) : SubSeq(q, 1, Len(p))[i] = q[i]
      BY <1>2, SubSeqProperties
    <3> QED BY <1>2, <3>1, <3>2, SeqEqual
  <2> QED BY <1>2, <2>1, <2>2 DEF IsStrictPrefix, IsPrefix
<1> QED BY <1>1, <1>2

\* Two strict prefixes of one path are comparable.
LEMMA PrefixesComparable ==
    ASSUME NEW p \in Seq(STRING), NEW q \in Seq(STRING), NEW f \in Seq(STRING),
           IsStrictPrefix(p, f), IsStrictPrefix(q, f)
    PROVE  p = q \/ IsStrictPrefix(p, q) \/ IsStrictPrefix(q, p)
<1>1. \A i \in 1 .. Len(p) : p[i] = f[i]
  BY StrictPrefixPointwise
<1>2. \A i \in 1 .. Len(q) : q[i] = f[i]
  BY StrictPrefixPointwise
<1>3. CASE Len(p) = Len(q)
  BY <1>1, <1>2, <1>3, SeqEqual
<1>4. CASE Len(p) < Len(q)
  BY <1>1, <1>2, <1>4, StrictPrefixPointwise
<1>5. CASE Len(q) < Len(p)
  BY <1>1, <1>2, <1>5, StrictPrefixPointwise
<1> QED BY <1>3, <1>4, <1>5

\* lease_scopes_overlap is exact: it holds of two scopes just when some file is
\* covered by both.  (Stated on leases, the form in which Covers takes a scope.)
THEOREM OverlapIsSharedFile ==
    ASSUME NEW l, NEW m, l.path \in Paths, m.path \in Paths,
           l.recursive \in BOOLEAN, m.recursive \in BOOLEAN
    PROVE  lease_scopes_overlap(l.path, l.recursive, m.path, m.recursive)
              <=> \E file \in Paths : Covers(l, file) /\ Covers(m, file)
<1> USE FileLeaseConstants
<1>1. ASSUME lease_scopes_overlap(l.path, l.recursive, m.path, m.recursive)
      PROVE  \E file \in Paths : Covers(l, file) /\ Covers(m, file)
  BY <1>1 DEF lease_scopes_overlap, Covers
<1>2. ASSUME NEW file \in Paths, Covers(l, file), Covers(m, file)
      PROVE  lease_scopes_overlap(l.path, l.recursive, m.path, m.recursive)
  <2>1. l.path \in Seq(STRING) /\ m.path \in Seq(STRING) /\ file \in Seq(STRING)
    OBVIOUS
  <2>2. CASE l.path = file \/ m.path = file
    BY <1>2, <2>2 DEF lease_scopes_overlap, Covers
  <2>3. CASE l.path # file /\ m.path # file
    <3>1. /\ l.recursive /\ IsStrictPrefix(l.path, file)
          /\ m.recursive /\ IsStrictPrefix(m.path, file)
      BY <1>2, <2>3 DEF Covers
    <3> QED BY <2>1, <3>1, PrefixesComparable DEF lease_scopes_overlap
  <2> QED BY <2>2, <2>3
<1> QED BY <1>1, <1>2

-----------------------------------------------------------------------------
(* Type correctness *)

\* What a table is, apart from the variables: ids below n, leases that carry
\* their own id as token.
TableOK(table, n) ==
    /\ DOMAIN table \subseteq 1 .. n
    /\ table \in [DOMAIN table -> FileLease]
    /\ \A id \in DOMAIN table : table[id].fencing_token = id

\* The pruning retain only drops entries.
LEMMA RetainedOK ==
    ASSUME TypeOK, NEW now
    PROVE  /\ TableOK(Retained(now), next_file_fencing_token)
           /\ DOMAIN Retained(now) \subseteq DOMAIN file_leases
           /\ \A id \in DOMAIN Retained(now) : Retained(now)[id] = file_leases[id]
BY DEF TypeOK, TableOK, Retained

\* Cutting an instant to milliseconds takes less than a millisecond off it.
LEMMA CutToMillis ==
    ASSUME NEW t \in Nat
    PROVE  /\ t - (t % TicksPerMs) \in Nat
           /\ t < t - (t % TicksPerMs) + TicksPerMs
<1>1. TicksPerMs \in Nat /\ TicksPerMs > 0
  BY FileLeaseConstants
<1>2. t % TicksPerMs \in 0 .. TicksPerMs - 1 /\ t % TicksPerMs <= t
  BY <1>1, SMT
<1> QED BY <1>1, <1>2

\* The reported expiry, for a ttl the code accepts.
LEMMA ExpiryOK ==
    ASSUME NEW ttl \in Ttls, clock \in Nat
    PROVE  /\ file_lease_expiry_ts(ttl) \in Nat
           /\ clock + ttl < file_lease_expiry_ts(ttl) + TicksPerMs
<1>1. clock + ttl \in Nat
  BY FileLeaseConstants
<1> QED BY <1>1, CutToMillis DEF file_lease_expiry_ts

\* A lease whose deadlines are set anew is a lease.
LEMMA RefreshedOK ==
    ASSUME NEW lease \in FileLease, NEW q, q.now \in Nat, q.ttl_ms \in Ttls,
           NEW rec \in BOOLEAN, clock \in Nat
    PROVE  Refreshed(lease, q, rec) \in FileLease
<1>1. q.ttl_ms \in Nat
  BY FileLeaseConstants
<1>2. q.now + q.ttl_ms \in Nat /\ file_lease_expiry_ts(q.ttl_ms) \in Nat
  BY <1>1, ExpiryOK
<1> QED BY <1>2 DEF Refreshed, FileLease

\* Re-acquiring a held path changes that one lease.
LEMMA ExtendedOK ==
    ASSUME NEW n \in Nat, NEW table, TableOK(table, n), NEW q \in AcquireReq,
           NEW id \in DOMAIN table, clock \in Nat
    PROVE  /\ TableOK(Extended(table, id, q), n)
           /\ DOMAIN Extended(table, id, q) = DOMAIN table
           /\ \A i \in DOMAIN table : i # id => Extended(table, id, q)[i] = table[i]
           /\ Extended(table, id, q)[id] = Refreshed(table[id], q, q.recursive)
<1>1. Refreshed(table[id], q, q.recursive) \in FileLease
  BY RefreshedOK DEF TableOK, AcquireReq
<1>2. Refreshed(table[id], q, q.recursive).fencing_token = id
  BY DEF TableOK, Refreshed
<1> QED BY <1>1, <1>2 DEF TableOK, Extended

\* renew_file_lease changes the lease it names and no other.
LEMMA RenewedOK ==
    ASSUME NEW n \in Nat, NEW table, TableOK(table, n), NEW q \in RenewReq,
           q.lease_id \in DOMAIN table, clock \in Nat
    PROVE  /\ TableOK(Renewed(table, q), n)
           /\ DOMAIN Renewed(table, q) = DOMAIN table
           /\ \A i \in DOMAIN table : i # q.lease_id => Renewed(table, q)[i] = table[i]
           /\ Renewed(table, q)[q.lease_id] =
                 Refreshed(table[q.lease_id], q, table[q.lease_id].recursive)
<1> DEFINE lease == table[q.lease_id]
<1>0. lease \in FileLease /\ lease.recursive \in BOOLEAN
  BY DEF TableOK, FileLease
<1>1. Refreshed(lease, q, lease.recursive) \in FileLease
  BY <1>0, RefreshedOK DEF RenewReq
<1>2. Refreshed(lease, q, lease.recursive).fencing_token = q.lease_id
  BY DEF TableOK, Refreshed
<1> QED BY <1>1, <1>2 DEF TableOK, Renewed

\* A grant adds one lease, under a token that was never used.
LEMMA GrantedOK ==
    ASSUME NEW n \in Nat, NEW table, TableOK(table, n), NEW q \in AcquireReq,
           clock \in Nat
    PROVE  /\ TableOK(Granted(table, n + 1, q), n + 1)
           /\ DOMAIN Granted(table, n + 1, q) = DOMAIN table \cup {n + 1}
           /\ \A i \in DOMAIN table : Granted(table, n + 1, q)[i] = table[i]
           /\ Granted(table, n + 1, q)[n + 1] = NewLease(n + 1, q)
           /\ n + 1 \notin DOMAIN table
<1>1. NewLease(n + 1, q) \in FileLease
  <2>1. q.now \in Nat /\ q.ttl_ms \in Nat
    BY FileLeaseConstants DEF AcquireReq
  <2>2. /\ q.now + q.ttl_ms \in Nat /\ n + 1 \in Nat
        /\ file_lease_expiry_ts(q.ttl_ms) \in Nat
    BY <2>1, ExpiryOK DEF AcquireReq
  <2> QED BY <2>2 DEF NewLease, FileLease, AcquireReq
<1>2. NewLease(n + 1, q).fencing_token = n + 1
  BY DEF NewLease
<1>3. n + 1 \notin DOMAIN table /\ n + 1 \in 1 .. n + 1 /\ 1 .. n \subseteq 1 .. n + 1
  BY DEF TableOK
<1> QED BY <1>1, <1>2, <1>3 DEF TableOK, Granted

\* A request in hand has the fields of its operation and read the clock in the past.
LEMMA RequestShape ==
    ASSUME TypeOK, NEW r \in Requests
    PROVE  /\ req[r].op = "acquire" => req[r] \in AcquireReq
           /\ req[r].op = "renew" => req[r] \in RenewReq
           /\ req[r].op = "release" => req[r] \in ReleaseReq
           /\ req[r].op = "holders" => req[r] \in HoldersReq
           /\ req[r].op \in {"acquire", "renew", "release", "holders"} => req[r] # Idle
           /\ req[r] # Idle => req[r].now \in Nat /\ req[r].now <= clock
<1>1. req[r] \in Request
  BY DEF TypeOK
<1>2. \/ req[r] = Idle \/ req[r] \in AcquireReq \/ req[r] \in RenewReq
      \/ req[r] \in ReleaseReq \/ req[r] \in HoldersReq
  BY <1>1 DEF Request
<1>3. req[r] # Idle => req[r].now \in Nat
  BY <1>2 DEF AcquireReq, RenewReq, ReleaseReq, HoldersReq
<1>4. req[r] = Idle => req[r].op = "idle"
  BY DEF Idle
<1> QED
  BY <1>2, <1>3, <1>4 DEF TypeOK, AcquireReq, RenewReq, ReleaseReq, HoldersReq

\* What a locked section can do to the table, whichever operation it is.
TableStep(r) ==
    LET q == req[r]
        table == Retained(q.now)
        n == next_file_fencing_token
    IN  \/ file_leases' = table /\ n' = n
        \/ /\ q \in AcquireReq /\ Conflicting(table, q) = {} /\ n' = n
           /\ \E id \in Existing(table, q) : file_leases' = Extended(table, id, q)
        \/ /\ q \in AcquireReq /\ Conflicting(table, q) = {}
           /\ ~AtCapacity(table)
           /\ file_leases' = Granted(table, n + 1, q) /\ n' = n + 1
        \/ /\ q \in RenewReq /\ Authorised(table, q) /\ n' = n
           /\ file_leases' = Renewed(table, q)
        \/ /\ q \in ReleaseReq /\ Authorised(table, q) /\ n' = n
           /\ file_leases' = [id \in DOMAIN table \ {q.lease_id} |-> table[id]]

\* Every critical section first prunes the table, then changes at most one lease.
LEMMA LockedIsTableStep ==
    ASSUME TypeOK, NEW r \in Requests, Locked(r)
    PROVE  /\ TableStep(r)
           /\ req[r] # Idle /\ req[r].now \in Nat /\ req[r].now <= clock
           /\ req' = [req EXCEPT ![r] = Idle]
           /\ UNCHANGED <<agents, clock>>
<1>1. CASE acquire_file_lease(r)
  BY <1>1, RequestShape DEF acquire_file_lease, TableStep
<1>2. CASE renew_file_lease(r)
  BY <1>2, RequestShape DEF renew_file_lease, TableStep
<1>3. CASE release_file_lease(r)
  BY <1>3, RequestShape DEF release_file_lease, TableStep
<1>4. CASE file_lease_holders(r)
  BY <1>4, RequestShape DEF file_lease_holders, TableStep
<1> QED BY <1>1, <1>2, <1>3, <1>4 DEF Locked

\* A request starts by reading the clock, before it has the lock.
LEMMA StartShape ==
    ASSUME TypeOK, NEW r \in Requests, Start(r)
    PROVE  /\ \E q \in Request :
                 q # Idle /\ q.now = clock /\ req' = [req EXCEPT ![r] = q]
           /\ req[r] = Idle
           /\ UNCHANGED <<agents, file_leases, next_file_fencing_token, clock>>
<1> USE DEF TypeOK
<1>1. CASE StartAcquire(r)
  <2>1. PICK repo \in Repositories, p \in Paths, a \in agents, ttl \in Ttls,
             rec \in BOOLEAN :
          Park(r, [op |-> "acquire", repository |-> repo, path |-> p,
                   agent_key |-> a, ttl_ms |-> ttl, recursive |-> rec,
                   now |-> clock])
    BY <1>1 DEF StartAcquire
  <2> DEFINE q == [op |-> "acquire", repository |-> repo, path |-> p,
                   agent_key |-> a, ttl_ms |-> ttl, recursive |-> rec,
                   now |-> clock]
  <2>2. q \in AcquireReq /\ q # Idle /\ q.now = clock
    BY DEF AcquireReq, Idle
  <2> HIDE DEF q
  <2> QED BY <2>1, <2>2 DEF Park, Request, q
<1>2. CASE StartRenew(r)
  <2>1. PICK id \in 1 .. next_file_fencing_token, a \in Agents, ttl \in Ttls,
             token \in Nat :
          Park(r, [op |-> "renew", lease_id |-> id, agent_key |-> a,
                   fencing_token |-> token, ttl_ms |-> ttl, now |-> clock])
    <3>1. \A id \in 1 .. next_file_fencing_token : {id, 0} \subseteq Nat
      OBVIOUS
    <3> QED BY <1>2, <3>1, Zenon DEF StartRenew
  <2> DEFINE q == [op |-> "renew", lease_id |-> id, agent_key |-> a,
                   fencing_token |-> token, ttl_ms |-> ttl, now |-> clock]
  <2>2. q \in RenewReq /\ q # Idle /\ q.now = clock
    BY DEF RenewReq, Idle
  <2> HIDE DEF q
  <2> QED BY <2>1, <2>2 DEF Park, Request, q
<1>3. CASE StartRelease(r)
  <2>1. PICK id \in 1 .. next_file_fencing_token, a \in Agents, token \in Nat :
          Park(r, [op |-> "release", lease_id |-> id, agent_key |-> a,
                   fencing_token |-> token, now |-> clock])
    BY <1>3 DEF StartRelease
  <2> DEFINE q == [op |-> "release", lease_id |-> id, agent_key |-> a,
                   fencing_token |-> token, now |-> clock]
  <2>2. q \in ReleaseReq /\ q # Idle /\ q.now = clock
    BY DEF ReleaseReq, Idle
  <2> HIDE DEF q
  <2> QED BY <2>1, <2>2 DEF Park, Request, q
<1>4. CASE StartHolders(r)
  <2> DEFINE q == [op |-> "holders", now |-> clock]
  <2>1. q \in HoldersReq /\ q # Idle /\ q.now = clock
    BY DEF HoldersReq, Idle
  <2> HIDE DEF q
  <2> QED BY <1>4, <2>1 DEF StartHolders, Park, Request, q
<1> QED BY <1>1, <1>2, <1>3, <1>4 DEF Start

\* Every step keeps the types.
LEMMA TypeStep ==
    ASSUME TypeOK, [Next]_vars
    PROVE  TypeOK'
<1>1. CASE Tick
  <2>1. \A r \in Requests : req[r] # Idle => req[r].now <= clock + 1
    BY RequestShape DEF TypeOK
  <2> QED BY <1>1, <2>1 DEF Tick, TypeOK
<1>2. ASSUME NEW a \in Agents, register_agent(a) PROVE TypeOK'
  BY <1>2 DEF register_agent, TypeOK
<1>3. ASSUME NEW r \in Requests, Start(r) PROVE TypeOK'
  BY <1>3, StartShape DEF TypeOK
<1>4. ASSUME NEW r \in Requests, Locked(r) PROVE TypeOK'
  <2> DEFINE q == req[r]
             table == Retained(q.now)
             n == next_file_fencing_token
  <2>1. TableStep(r) /\ req' = [req EXCEPT ![r] = Idle] /\ UNCHANGED <<agents, clock>>
    BY <1>4, LockedIsTableStep
  <2>2. TableOK(table, n) /\ n \in Nat /\ clock \in Nat
    BY RetainedOK DEF TypeOK
  <2>3. TableOK(file_leases', n') /\ n' \in Nat
    <3>1. CASE file_leases' = table /\ n' = n
      BY <2>2, <3>1
    <3>2. ASSUME q \in AcquireReq, n' = n,
                 NEW id \in Existing(table, q), file_leases' = Extended(table, id, q)
          PROVE  TableOK(file_leases', n') /\ n' \in Nat
      <4>1. id \in DOMAIN table
        BY <3>2 DEF Existing
      <4> QED BY <2>2, <3>2, <4>1, ExtendedOK
    <3>3. CASE q \in AcquireReq /\ file_leases' = Granted(table, n + 1, q) /\ n' = n + 1
      <4>1. TableOK(Granted(table, n + 1, q), n + 1)
        BY <2>2, <3>3, GrantedOK
      <4> QED BY <2>2, <3>3, <4>1
    <3>4. CASE /\ q \in RenewReq /\ Authorised(table, q) /\ n' = n
               /\ file_leases' = Renewed(table, q)
      <4>1. q.lease_id \in DOMAIN table
        BY <3>4 DEF Authorised
      <4> QED BY <2>2, <3>4, <4>1, RenewedOK
    <3>5. CASE /\ n' = n
               /\ file_leases' = [id \in DOMAIN table \ {q.lease_id} |-> table[id]]
      BY <2>2, <3>5 DEF TableOK
    <3> QED BY <2>1, <3>1, <3>2, <3>3, <3>4, <3>5 DEF TableStep
  <2>4. req' \in [Requests -> Request]
    BY <2>1 DEF TypeOK, Request
  <2>5. \A s \in Requests : req'[s] # Idle => req'[s].now <= clock'
    BY <2>1 DEF TypeOK
  <2> QED BY <2>1, <2>3, <2>4, <2>5 DEF TypeOK, TableOK
<1>5. CASE UNCHANGED vars
  BY <1>5 DEF vars, TypeOK
<1> QED BY <1>1, <1>2, <1>3, <1>4, <1>5 DEF Next

\* Every variable of the lease table keeps its type, and tokens in the table
\* are tokens that were issued.
THEOREM TypeCorrect == Spec => []TypeOK
<1>1. Init => TypeOK
  BY DEF Init, TypeOK, Request, FileLease
<1> QED BY <1>1, TypeStep, PTL DEF Spec

-----------------------------------------------------------------------------
(* Exclusion, capacity and the reported expiry *)

\* The table form of exclusion, on the scopes the code compares.
NoConflict(table) ==
    \A i, j \in DOMAIN table :
        /\ table[i].agent_key # table[j].agent_key
        /\ table[i].repository = table[j].repository
        => ~lease_scopes_overlap(table[i].path, table[i].recursive,
                                 table[j].path, table[j].recursive)

ReportedOK(table) ==
    \A id \in DOMAIN table : table[id].deadline < table[id].expires_at + TicksPerMs

\* The inductive invariant.
IInv == TypeOK /\ NoConflict(file_leases) /\ ReportedOK(file_leases) /\ WithinCapacity

\* Overlap of scopes does not depend on their order.
LEMMA OverlapSymmetric ==
    ASSUME NEW p, NEW a, NEW q, NEW b
    PROVE  lease_scopes_overlap(p, a, q, b) <=> lease_scopes_overlap(q, b, p, a)
BY DEF lease_scopes_overlap

\* Putting one lease into a conflict-free table keeps it so if the lease meets
\* no other agent's lease.
LEMMA PutKeepsNoConflict ==
    ASSUME NEW table, NoConflict(table), NEW new, NEW k,
           DOMAIN new = DOMAIN table \cup {k},
           \A i \in DOMAIN table : i # k => new[i] = table[i],
           \A i \in DOMAIN table :
              /\ i # k
              /\ table[i].repository = new[k].repository
              /\ table[i].agent_key # new[k].agent_key
              => ~lease_scopes_overlap(table[i].path, table[i].recursive,
                                       new[k].path, new[k].recursive)
    PROVE  NoConflict(new)
<1> SUFFICES ASSUME NEW i \in DOMAIN new, NEW j \in DOMAIN new,
                    new[i].agent_key # new[j].agent_key,
                    new[i].repository = new[j].repository
             PROVE  ~lease_scopes_overlap(new[i].path, new[i].recursive,
                                          new[j].path, new[j].recursive)
  BY DEF NoConflict
<1>1. CASE i # k /\ j # k
  BY <1>1 DEF NoConflict
<1>2. CASE i # k /\ j = k
  BY <1>2
<1>3. CASE i = k /\ j # k
  BY <1>3, OverlapSymmetric
<1>4. CASE i = k /\ j = k
  BY <1>4
<1> QED BY <1>1, <1>2, <1>3, <1>4

\* A table that keeps some leases of a good one is good.
LEMMA SubtableOK ==
    ASSUME NEW table, NEW new, DOMAIN new \subseteq DOMAIN table,
           \A i \in DOMAIN new : new[i] = table[i],
           NoConflict(table), ReportedOK(table)
    PROVE  NoConflict(new) /\ ReportedOK(new)
BY DEF NoConflict, ReportedOK

\* Renewal changes a lease's deadlines, never whose it is or what it covers.
LEMMA RefreshedFields ==
    ASSUME NEW lease, NEW q, NEW rec
    PROVE  /\ Refreshed(lease, q, rec).repository = lease.repository
           /\ Refreshed(lease, q, rec).path = lease.path
           /\ Refreshed(lease, q, rec).recursive = rec
           /\ Refreshed(lease, q, rec).agent_key = lease.agent_key
           /\ Refreshed(lease, q, rec).deadline = q.now + q.ttl_ms
           /\ Refreshed(lease, q, rec).expires_at = file_lease_expiry_ts(q.ttl_ms)
BY DEF Refreshed

\* A critical section leaves no two live leases of different agents in conflict.
LEMMA LockedKeepsSafe ==
    ASSUME IInv, NEW r \in Requests, Locked(r)
    PROVE  NoConflict(file_leases') /\ ReportedOK(file_leases')
<1> DEFINE q == req[r]
           table == Retained(q.now)
           n == next_file_fencing_token
<1>1. /\ TableStep(r) /\ q.now \in Nat /\ q.now <= clock /\ clock \in Nat
      /\ n \in Nat
  BY LockedIsTableStep DEF IInv, TypeOK
<1>2. TableOK(table, n) /\ DOMAIN table \subseteq DOMAIN file_leases
  BY RetainedOK DEF IInv
<1>3. NoConflict(table) /\ ReportedOK(table)
  BY RetainedOK, SubtableOK DEF IInv
<1>4. CASE file_leases' = table
  BY <1>3, <1>4
<1>5. ASSUME q \in AcquireReq, Conflicting(table, q) = {},
             NEW id \in Existing(table, q), file_leases' = Extended(table, id, q)
      PROVE  NoConflict(file_leases') /\ ReportedOK(file_leases')
  <2> DEFINE new == Extended(table, id, q)
  <2>1. /\ id \in DOMAIN table /\ table[id].repository = q.repository
        /\ table[id].path = q.path /\ table[id].agent_key = q.agent_key
    BY <1>5 DEF Existing
  <2>2. /\ DOMAIN new = DOMAIN table
        /\ \A i \in DOMAIN table : i # id => new[i] = table[i]
        /\ new[id] = Refreshed(table[id], q, q.recursive)
    BY <1>1, <1>2, <1>5, <2>1, ExtendedOK
  <2>3. /\ new[id].repository = q.repository /\ new[id].path = q.path
        /\ new[id].recursive = q.recursive /\ new[id].agent_key = q.agent_key
        /\ new[id].deadline = q.now + q.ttl_ms
        /\ new[id].expires_at = file_lease_expiry_ts(q.ttl_ms)
    BY <2>1, <2>2, RefreshedFields
  <2> HIDE DEF new
  <2>4. NoConflict(new)
    <3>1. DOMAIN new = DOMAIN table \cup {id}
      BY <2>1, <2>2
    <3>2. \A i \in DOMAIN table :
             /\ table[i].repository = new[id].repository
             /\ table[i].agent_key # new[id].agent_key
             => ~lease_scopes_overlap(table[i].path, table[i].recursive,
                                      new[id].path, new[id].recursive)
      BY <1>5, <2>3 DEF Conflicting
    <3> QED BY <1>3, <2>2, <3>1, <3>2, PutKeepsNoConflict
  <2>5. ReportedOK(new)
    <3>1. q.ttl_ms \in Ttls /\ q.ttl_ms \in Nat /\ TicksPerMs \in Nat
      BY <1>5, FileLeaseConstants DEF AcquireReq
    <3>2. new[id].deadline < new[id].expires_at + TicksPerMs
      BY <1>1, <2>3, <3>1, ExpiryOK
    <3> QED BY <1>3, <2>2, <3>2 DEF ReportedOK
  <2> QED BY <1>5, <2>4, <2>5 DEF new
<1>6. CASE /\ q \in AcquireReq /\ Conflicting(table, q) = {}
           /\ file_leases' = Granted(table, n + 1, q)
  <2> DEFINE new == Granted(table, n + 1, q)
  <2>1. /\ DOMAIN new = DOMAIN table \cup {n + 1}
        /\ \A i \in DOMAIN table : new[i] = table[i]
        /\ new[n + 1] = NewLease(n + 1, q)
    BY <1>1, <1>2, <1>6, GrantedOK
  <2>2. /\ new[n + 1].repository = q.repository /\ new[n + 1].path = q.path
        /\ new[n + 1].recursive = q.recursive /\ new[n + 1].agent_key = q.agent_key
        /\ new[n + 1].deadline = q.now + q.ttl_ms
        /\ new[n + 1].expires_at = file_lease_expiry_ts(q.ttl_ms)
    BY <2>1 DEF NewLease
  <2> HIDE DEF new
  <2>3. NoConflict(new)
    <3>1. \A i \in DOMAIN table :
             /\ table[i].repository = new[n + 1].repository
             /\ table[i].agent_key # new[n + 1].agent_key
             => ~lease_scopes_overlap(table[i].path, table[i].recursive,
                                      new[n + 1].path, new[n + 1].recursive)
      BY <1>6, <2>2 DEF Conflicting
    <3> QED BY <1>3, <2>1, <3>1, PutKeepsNoConflict
  <2>4. ReportedOK(new)
    <3>1. q.ttl_ms \in Ttls /\ q.ttl_ms \in Nat /\ TicksPerMs \in Nat
      BY <1>6, FileLeaseConstants DEF AcquireReq
    <3>2. new[n + 1].deadline < new[n + 1].expires_at + TicksPerMs
      BY <1>1, <2>2, <3>1, ExpiryOK
    <3> QED BY <1>3, <2>1, <3>2 DEF ReportedOK
  <2> QED BY <1>6, <2>3, <2>4 DEF new
<1>7. CASE /\ q \in RenewReq /\ Authorised(table, q)
           /\ file_leases' = Renewed(table, q)
  <2> DEFINE new == Renewed(table, q)
             id == q.lease_id
  <2>1. id \in DOMAIN table
    BY <1>7 DEF Authorised
  <2>2. /\ DOMAIN new = DOMAIN table
        /\ \A i \in DOMAIN table : i # id => new[i] = table[i]
        /\ new[id] = Refreshed(table[id], q, table[id].recursive)
    BY <1>1, <1>2, <1>7, <2>1, RenewedOK
  <2>3. /\ new[id].repository = table[id].repository /\ new[id].path = table[id].path
        /\ new[id].recursive = table[id].recursive
        /\ new[id].agent_key = table[id].agent_key
        /\ new[id].deadline = q.now + q.ttl_ms
        /\ new[id].expires_at = file_lease_expiry_ts(q.ttl_ms)
    BY <2>2, RefreshedFields
  <2> HIDE DEF new
  <2>4. NoConflict(new)
    BY <1>3, <2>1, <2>2, <2>3 DEF NoConflict
  <2>5. ReportedOK(new)
    <3>1. q.ttl_ms \in Ttls /\ q.ttl_ms \in Nat /\ TicksPerMs \in Nat
      BY <1>7, FileLeaseConstants DEF RenewReq
    <3>2. new[id].deadline < new[id].expires_at + TicksPerMs
      BY <1>1, <2>3, <3>1, ExpiryOK
    <3> QED BY <1>3, <2>2, <3>2 DEF ReportedOK
  <2> QED BY <1>7, <2>4, <2>5 DEF new
<1>8. CASE file_leases' = [id \in DOMAIN table \ {q.lease_id} |-> table[id]]
  BY <1>3, <1>8, SubtableOK
<1> QED BY <1>1, <1>4, <1>5, <1>6, <1>7, <1>8 DEF TableStep

\* A grant is refused when the pruned table is full.
LEMMA LockedKeepsCapacity ==
    ASSUME IInv, NEW r \in Requests, Locked(r)
    PROVE  WithinCapacity'
<1> DEFINE q == req[r]
           table == Retained(q.now)
           n == next_file_fencing_token
<1>1. TableStep(r) /\ n \in Nat /\ clock \in Nat /\ MaxFileLeases \in Nat
  BY LockedIsTableStep, FileLeaseConstants DEF IInv, TypeOK
<1>2. TableOK(table, n) /\ DOMAIN table \subseteq DOMAIN file_leases
  BY RetainedOK DEF IInv
<1>3. IsFiniteSet(DOMAIN file_leases)
  <2>1. IsFiniteSet(1 .. n)
    BY <1>1, FS_Interval
  <2>2. DOMAIN file_leases \subseteq 1 .. n
    BY DEF IInv, TypeOK
  <2> QED BY <2>1, <2>2, FS_Subset
<1>4. \A D \in SUBSET DOMAIN file_leases : Cardinality(D) <= MaxFileLeases
  BY <1>1, <1>3, FS_Subset, FS_CardinalityType DEF IInv, WithinCapacity
<1>5. IsFiniteSet(DOMAIN table) /\ Cardinality(DOMAIN table) \in Nat
  BY <1>2, <1>3, FS_Subset, FS_CardinalityType
<1>6. CASE DOMAIN file_leases' \subseteq DOMAIN table
  BY <1>2, <1>4, <1>6 DEF WithinCapacity
<1>7. CASE /\ q \in AcquireReq /\ ~AtCapacity(table)
           /\ file_leases' = Granted(table, n + 1, q)
  <2>1. DOMAIN file_leases' = DOMAIN table \cup {n + 1} /\ n + 1 \notin DOMAIN table
    BY <1>1, <1>2, <1>7, GrantedOK
  <2>2. Cardinality(DOMAIN file_leases') = Cardinality(DOMAIN table) + 1
    BY <1>5, <2>1, FS_AddElement
  <2> QED BY <1>1, <1>5, <1>7, <2>2 DEF AtCapacity, WithinCapacity
<1>8. ASSUME q \in AcquireReq,
             NEW id \in Existing(table, q), file_leases' = Extended(table, id, q)
      PROVE  WithinCapacity'
  <2>1. id \in DOMAIN table
    BY <1>8 DEF Existing
  <2>2. DOMAIN file_leases' \subseteq DOMAIN table
    BY <1>1, <1>2, <1>8, <2>1, ExtendedOK
  <2> QED BY <1>6, <2>2
<1>9. CASE q \in RenewReq /\ Authorised(table, q) /\ file_leases' = Renewed(table, q)
  <2>1. DOMAIN file_leases' \subseteq DOMAIN table
    BY <1>1, <1>2, <1>9, RenewedOK DEF Authorised
  <2> QED BY <1>6, <2>1
<1> QED BY <1>1, <1>6, <1>7, <1>8, <1>9 DEF TableStep

\* Every step keeps the invariant.
LEMMA InvStep ==
    ASSUME IInv, [Next]_vars
    PROVE  IInv'
<1>1. TypeOK'
  BY TypeStep DEF IInv
<1>2. ASSUME NEW r \in Requests, Locked(r) PROVE IInv'
  BY <1>1, <1>2, LockedKeepsSafe, LockedKeepsCapacity DEF IInv, NoConflict, ReportedOK
<1>3. CASE UNCHANGED file_leases
  BY <1>1, <1>3 DEF IInv, NoConflict, ReportedOK, WithinCapacity
<1>4. ASSUME NEW r \in Requests, Start(r) PROVE UNCHANGED file_leases
  BY <1>4, StartShape DEF IInv
<1> QED BY <1>2, <1>3, <1>4 DEF Next, Tick, register_agent, vars

\* The empty table satisfies the invariant.
LEMMA InvInit == Init => IInv
<1> SUFFICES ASSUME Init PROVE IInv
  OBVIOUS
<1>1. TypeOK
  BY DEF Init, TypeOK, Request, FileLease
<1>2. DOMAIN file_leases = {}
  BY DEF Init
<1>3. WithinCapacity
  BY <1>2, FS_EmptySet, FileLeaseConstants DEF WithinCapacity
<1> QED BY <1>1, <1>2, <1>3 DEF IInv, NoConflict, ReportedOK

\* No file is ever covered by leases of two agents.
THEOREM Exclusion == Spec => []ExclusiveCoverage
<1>1. IInv => ExclusiveCoverage
  <2> SUFFICES ASSUME IInv, NEW i \in DOMAIN file_leases, NEW j \in DOMAIN file_leases,
                      NEW file \in Paths,
                      file_leases[i].agent_key # file_leases[j].agent_key,
                      file_leases[i].repository = file_leases[j].repository,
                      Covers(file_leases[i], file), Covers(file_leases[j], file)
               PROVE  FALSE
    BY DEF ExclusiveCoverage
  <2> DEFINE l == file_leases[i]
             m == file_leases[j]
  <2>1. /\ l.path \in Paths /\ m.path \in Paths
        /\ l.recursive \in BOOLEAN /\ m.recursive \in BOOLEAN
    BY DEF IInv, TypeOK, FileLease
  <2>2. lease_scopes_overlap(l.path, l.recursive, m.path, m.recursive)
    BY <2>1, OverlapIsSharedFile
  <2> QED BY <2>2 DEF IInv, NoConflict
<1> QED BY <1>1, InvInit, InvStep, PTL DEF Spec

\* The table never outgrows config.max_file_leases.
THEOREM Capacity == Spec => []WithinCapacity
<1>1. IInv => WithinCapacity
  BY DEF IInv
<1> QED BY <1>1, InvInit, InvStep, PTL DEF Spec

\* A request made a millisecond or more after the expiry a holder was told is not
\* held up by that holder's lease: acquire_file_lease prunes by the deadline, which
\* lies less than the cut-off millisecond behind file_lease_expiry_ts.
THEOREM ReportedExpiry == Spec => []FreeAfterReportedExpiry
<1>1. IInv => FreeAfterReportedExpiry
  <2> SUFFICES ASSUME IInv, NEW r \in Requests, req[r].op = "acquire",
                      NEW id \in Conflicting(Retained(req[r].now), req[r])
               PROVE  req[r].now < file_leases[id].expires_at + TicksPerMs
    BY DEF FreeAfterReportedExpiry
  <2>1. id \in DOMAIN file_leases /\ file_leases[id].deadline > req[r].now
    BY DEF Conflicting, Retained
  <2>2. file_leases[id].deadline < file_leases[id].expires_at + TicksPerMs
    BY <2>1 DEF IInv, ReportedOK
  <2>3. req[r] # Idle /\ req[r] \in Request
    BY DEF IInv, TypeOK, Idle
  <2>4. req[r].now \in Nat
    BY <2>3 DEF Request, AcquireReq, RenewReq, ReleaseReq, HoldersReq
  <2>5. file_leases[id].deadline \in Nat /\ file_leases[id].expires_at \in Nat
    BY <2>1 DEF IInv, TypeOK, FileLease
  <2>6. TicksPerMs \in Nat
    BY FileLeaseConstants
  <2> QED BY <2>1, <2>2, <2>4, <2>5, <2>6
<1> QED BY <1>1, InvInit, InvStep, PTL DEF Spec

-----------------------------------------------------------------------------
(* Who may change a live lease *)

\* The body of LiveLeaseOnlyChangedByOwner for one lease.
OwnerStep(id) ==
    file_leases[id].deadline > clock =>
        \/ id \in DOMAIN file_leases' /\ file_leases'[id] = file_leases[id]
        \/ \E r \in Requests :
            /\ req[r] # Idle /\ req'[r] = Idle
            /\ req[r].op # "holders"
            /\ req[r].agent_key = file_leases[id].agent_key
            /\ IF req[r].op = "acquire"
               THEN req[r].path = file_leases[id].path
               ELSE req[r].fencing_token = id

\* Only its owner changes a lease that has not expired.
LEMMA LockedOwner ==
    ASSUME TypeOK, NEW r \in Requests, Locked(r), NEW id \in DOMAIN file_leases
    PROVE  OwnerStep(id)
<1> DEFINE q == req[r]
           table == Retained(q.now)
           n == next_file_fencing_token
<1> SUFFICES ASSUME file_leases[id].deadline > clock,
                    ~(id \in DOMAIN file_leases' /\ file_leases'[id] = file_leases[id])
             PROVE  /\ q.op # "holders"
                    /\ q.agent_key = file_leases[id].agent_key
                    /\ IF q.op = "acquire" THEN q.path = file_leases[id].path
                                           ELSE q.fencing_token = id
  <2>1. req[r] # Idle /\ req'[r] = Idle
    BY LockedIsTableStep DEF TypeOK
  <2> QED BY <2>1 DEF OwnerStep
<1>1. /\ TableStep(r) /\ q.now \in Nat /\ q.now <= clock /\ clock \in Nat
      /\ n \in Nat
  BY LockedIsTableStep DEF TypeOK
<1>2. TableOK(table, n)
  BY RetainedOK
<1>3. id \in DOMAIN table /\ table[id] = file_leases[id]
  <2>1. file_leases[id].deadline \in Nat
    BY DEF TypeOK, FileLease
  <2> QED BY <1>1, <2>1 DEF Retained
<1>4. ~(file_leases' = table)
  BY <1>3
<1>5. ASSUME q \in AcquireReq, NEW k \in Existing(table, q),
             file_leases' = Extended(table, k, q)
      PROVE  q.op = "acquire" /\ q.agent_key = file_leases[id].agent_key
             /\ q.path = file_leases[id].path
  <2>1. k \in DOMAIN table
    BY <1>5 DEF Existing
  <2>2. k = id
    BY <1>1, <1>2, <1>3, <1>5, <2>1, ExtendedOK
  <2> QED BY <1>3, <1>5, <2>2 DEF Existing, AcquireReq
<1>6. ASSUME q \in AcquireReq, file_leases' = Granted(table, n + 1, q)
      PROVE  FALSE
  <2>1. /\ DOMAIN Granted(table, n + 1, q) = DOMAIN table \cup {n + 1}
        /\ \A i \in DOMAIN table : Granted(table, n + 1, q)[i] = table[i]
        /\ Granted(table, n + 1, q)[n + 1] = NewLease(n + 1, q)
    BY <1>1, <1>2, <1>6, GrantedOK
  <2> QED BY <1>3, <1>6, <2>1
<1>7. CASE q \in RenewReq /\ Authorised(table, q) /\ file_leases' = Renewed(table, q)
  <2>1. q.lease_id \in DOMAIN table
    BY <1>7 DEF Authorised
  <2>2. q.lease_id = id
    BY <1>1, <1>2, <1>3, <1>7, <2>1, RenewedOK
  <2> QED BY <1>2, <1>3, <1>7, <2>2 DEF Authorised, TableOK, RenewReq
<1>8. CASE /\ q \in ReleaseReq /\ Authorised(table, q)
           /\ file_leases' = [k \in DOMAIN table \ {q.lease_id} |-> table[k]]
  <2>1. q.lease_id = id
    BY <1>3, <1>8
  <2> QED BY <1>2, <1>3, <1>8, <2>1 DEF Authorised, TableOK, ReleaseReq
<1> QED BY <1>1, <1>4, <1>5, <1>6, <1>7, <1>8 DEF TableStep

\* A live lease is only changed or removed by its own agent.
THEOREM OwnerOnly == Spec => LiveLeaseOnlyChangedByOwner
<1>1. ASSUME TypeOK, [Next]_vars, NEW id \in DOMAIN file_leases
      PROVE  OwnerStep(id)
  <2>1. CASE UNCHANGED file_leases
    BY <2>1 DEF OwnerStep
  <2>2. ASSUME NEW r \in Requests, Start(r) PROVE UNCHANGED file_leases
    BY <1>1, <2>2, StartShape
  <2> QED BY <1>1, <2>1, <2>2, LockedOwner DEF Next, Tick, register_agent, vars
<1>2. TypeOK /\ [Next]_vars => [\A id \in DOMAIN file_leases : OwnerStep(id)]_vars
  BY <1>1
<1>3. [][\A id \in DOMAIN file_leases : OwnerStep(id)]_vars => LiveLeaseOnlyChangedByOwner
  BY PTL DEF LiveLeaseOnlyChangedByOwner, OwnerStep
<1> QED BY <1>2, <1>3, TypeCorrect, PTL DEF Spec
=============================================================================
