-------------------------- MODULE TenantPoolProofs --------------------------
(***************************************************************************)
(* Isolation of the pooled connections, for every number of requests,      *)
(* connections and organizations.                                          *)
(***************************************************************************)
EXTENDS TenantPool, SequenceTheorems, TLAPS

\* What each point of a request says of the connection it holds.
SessionOf(r) ==
  /\ pc[r] \in Reading \cup {"setRole"} => Clean(conn[r])
  /\ pc[r] = "setOrg" => role[conn[r]] = AppRole /\ setting[conn[r]] = NoOrg
  /\ pc[r] \in {"handle", "resetRole"} =>
       role[conn[r]] = AppRole /\ setting[conn[r]] = tenant[r]
  /\ pc[r] = "resetOrg" => role[conn[r]] = OwnerRole

\* A request holds a connection exactly while it runs statements on it, and
\* that connection is out of the pool.
HoldsWhenRunning(r) ==
  /\ conn[r] # NoConn <=> pc[r] \in Reading \cup Bound
  /\ conn[r] # NoConn => slot[conn[r]] \in {"held", "broken"}

\* A request past the guard's first wait is one of an organization.
TenantOfBound(r) ==
  pc[r] \in Bound \cup {"waitOrganization", "waitMembership", "waitRunner",
                        "readOrganization", "readMembership"}
    => tenant[r] # NoOrg

NoSharing == \A r, s \in Requests : r # s /\ conn[r] = conn[s] => conn[r] = NoConn

\* The queue holds waiting requests only, each of them once.
QueueOfWaiters ==
  /\ \A i \in 1 .. Len(queue) : pc[queue[i]] \in Waiting
  /\ \A i, j \in 1 .. Len(queue) : i # j => queue[i] # queue[j]

FreeClean == \A c \in Conns : slot[c] \in {"idle", "unopened"} => Clean(c)

\* The inductive invariant: Isolation alone does not say which session each
\* statement starts from, nor that whoever the pool serves holds nothing.
IInv ==
  /\ TypeOK
  /\ \A r \in Requests : SessionOf(r)
  /\ \A r \in Requests : HoldsWhenRunning(r)
  /\ \A r \in Requests : TenantOfBound(r)
  /\ NoSharing
  /\ QueueOfWaiters
  /\ FreeClean

-----------------------------------------------------------------------------
USE PoolAssumption

\* The pool's queue: what asking and being served do to it.
LEMMA AskQueue ==
  ASSUME TypeOK, QueueOfWaiters, NEW r \in Requests, NEW w \in Waiting,
         pc[r] \notin Waiting, Ask(r, w)
  PROVE  QueueOfWaiters' /\ queue' \in Seq(Requests)
BY DEF TypeOK, QueueOfWaiters, Ask

\* Whoever is served holds the connection and goes on.
LEMMA AfterGrantRunning ==
  \A w \in Waiting : AfterGrant[w] \in Reading \cup {"setRole"}
BY DEF Waiting, AfterGrant, Reading

\* Leaving the queue keeps the order of the others.
LEMMA RemoveAtQueue ==
  ASSUME NEW q \in Seq(Requests), NEW i \in 1 .. Len(q)
  PROVE  /\ RemoveAt(q, i) \in Seq(Requests)
         /\ Len(RemoveAt(q, i)) = Len(q) - 1
         /\ \A j \in 1 .. Len(q) - 1 :
              RemoveAt(q, i)[j] = IF j < i THEN q[j] ELSE q[j + 1]
<1> DEFINE s == SubSeq(q, 1, i - 1)
           t == SubSeq(q, i + 1, Len(q))
<1>1. /\ s \in Seq(Requests) /\ Len(s) = i - 1
      /\ \A j \in 1 .. i - 1 : s[j] = q[j]
  OBVIOUS
<1>2. /\ t \in Seq(Requests) /\ Len(t) = Len(q) - i
      /\ \A j \in 1 .. Len(q) - i : t[j] = q[j + i]
  OBVIOUS
<1>3. RemoveAt(q, i) = s \o t
  BY DEF RemoveAt
<1> HIDE DEF s, t
<1>4. /\ s \o t \in Seq(Requests)
      /\ Len(s \o t) = Len(s) + Len(t)
      /\ \A j \in 1 .. Len(s) + Len(t) :
           (s \o t)[j] = IF j <= Len(s) THEN s[j] ELSE t[j - Len(s)]
  BY <1>1, <1>2, ConcatProperties
<1> QED
  BY <1>1, <1>2, <1>3, <1>4

\* The pool starts empty and nobody holds a connection.
LEMMA InitIInv == Init => IInv
BY DEF Init, IInv, TypeOK, SessionOf, HoldsWhenRunning, TenantOfBound, NoSharing,
       QueueOfWaiters, FreeClean, Clean, Reading, Bound, Waiting, AfterGrant,
       OwnerRole, AppRole

\* A read of the guard gives its connection back as it got it.
LEMMA GuardReadIInv ==
  ASSUME IInv, NEW r \in Requests,
         \/ ReadOrganization(r)
         \/ ReadMembership(r)
  PROVE  IInv'
<1> USE DEF IInv, TypeOK, SessionOf, HoldsWhenRunning, TenantOfBound, NoSharing,
        FreeClean, Clean
<1>1. /\ pc[r] \in {"readOrganization", "readMembership"}
      /\ Release(r)
      /\ UNCHANGED <<tenant, role, setting>>
  BY DEF ReadOrganization, ReadMembership, GuardRead
<1>2. CASE \E w \in {"waitMembership", "waitRunner"} : Ask(r, w)
  <2>1. PICK w \in {"waitMembership", "waitRunner"} : Ask(r, w)
    BY <1>2
  <2>2. QueueOfWaiters' /\ queue' \in Seq(Requests)
    BY <1>1, <2>1, AskQueue DEF Waiting, AfterGrant
  <2> QED
    BY <1>1, <2>1, <2>2 DEF Release, Ask, Waiting, AfterGrant, Reading, Bound
<1>3. CASE pc' = [pc EXCEPT ![r] = "out"] /\ UNCHANGED queue
  BY <1>1, <1>3 DEF Release, QueueOfWaiters, Waiting, AfterGrant, Reading, Bound
<1> QED
  BY <1>2, <1>3 DEF ReadOrganization, ReadMembership, GuardRead

\* Every step keeps the invariant.
LEMMA NextIInv == IInv /\ [Next]_vars => IInv'
<1> SUFFICES ASSUME IInv, [Next]_vars PROVE IInv'
  OBVIOUS
<1> USE DEF IInv, TypeOK, SessionOf, HoldsWhenRunning, TenantOfBound, NoSharing,
        FreeClean, Clean, OwnerRole, AppRole
<1>1. ASSUME NEW r \in Requests, Arrive(r) PROVE IInv'
  <2>1. PICK o \in Orgs \cup {NoOrg} :
          /\ tenant' = [tenant EXCEPT ![r] = o]
          /\ Ask(r, IF o = NoOrg THEN "waitQuery" ELSE "waitOrganization")
    BY <1>1 DEF Arrive
  <2>2. QueueOfWaiters' /\ queue' \in Seq(Requests)
    BY <1>1, <2>1, AskQueue DEF Arrive, Waiting, AfterGrant
  <2> QED
    BY <1>1, <2>1, <2>2 DEF Arrive, Ask, Waiting, AfterGrant, Reading, Bound
<1>2. ASSUME NEW r \in Requests, Timeout(r) PROVE IInv'
  <2>1. QueueOfWaiters' /\ queue' \in Seq(Requests)
    <3>1. PICK i \in 1 .. Len(queue) : queue[i] = r /\ queue' = RemoveAt(queue, i)
      BY <1>2 DEF Timeout
    <3> queue \in Seq(Requests)
      OBVIOUS
    <3> HIDE DEF IInv, TypeOK
    <3>2. /\ queue' \in Seq(Requests)
          /\ Len(queue') = Len(queue) - 1
          /\ \A j \in 1 .. Len(queue) - 1 :
               queue'[j] = IF j < i THEN queue[j] ELSE queue[j + 1]
      BY <3>1, RemoveAtQueue
    <3>3. pc' = [pc EXCEPT ![r] = "out"]
      BY <1>2 DEF Timeout
    <3>4. /\ pc \in [Requests -> {"out"} \cup Waiting \cup Reading \cup Bound]
          /\ QueueOfWaiters
      BY DEF IInv, TypeOK
    <3>5. \A j \in 1 .. Len(queue') :
            /\ queue'[j] # r
            /\ queue'[j] \in Requests
            /\ \E k \in 1 .. Len(queue) : queue'[j] = queue[k]
      <4> SUFFICES ASSUME NEW j \in 1 .. Len(queue')
                   PROVE  /\ queue'[j] # r
                          /\ queue'[j] \in Requests
                          /\ \E k \in 1 .. Len(queue) : queue'[j] = queue[k]
        OBVIOUS
      <4>1. \A k \in 1 .. Len(queue) : queue[k] \in Requests /\ (k # i => queue[k] # r)
        BY <3>1, <3>4 DEF QueueOfWaiters
      <4>2. CASE j < i
        <5> j \in 1 .. Len(queue) /\ queue'[j] = queue[j]
          BY <3>1, <3>2, <4>2
        <5> QED
          BY <4>1, <4>2
      <4>3. CASE ~(j < i)
        <5> j + 1 \in 1 .. Len(queue) /\ j + 1 # i /\ queue'[j] = queue[j + 1]
          BY <3>1, <3>2, <4>3
        <5> QED
          BY <4>1
      <4> QED
        BY <4>2, <4>3
    <3>6. \A j, k \in 1 .. Len(queue') : j # k => queue'[j] # queue'[k]
      BY <3>1, <3>2, <3>4 DEF QueueOfWaiters
    <3> QED
      BY <3>2, <3>3, <3>4, <3>5, <3>6 DEF QueueOfWaiters
  <2> QED
    BY <1>2, <2>1 DEF Timeout, Waiting, AfterGrant, Reading, Bound
<1>3. ASSUME NEW r \in Requests, RequestStep(r) PROVE IInv'
  <2>1. CASE ReadOrganization(r)
    BY <2>1, GuardReadIInv
  <2>2. CASE ReadMembership(r)
    BY <2>2, GuardReadIInv
  <2>3. CASE OwnerQuery(r)
    BY <2>3 DEF OwnerQuery, Release, QueueOfWaiters, Waiting, AfterGrant, Reading, Bound
  <2>4. CASE SetRole(r)
    BY <2>4 DEF SetRole, Release, QueueOfWaiters, Waiting, AfterGrant, Reading, Bound
  <2>5. CASE SetOrg(r)
    BY <2>5 DEF SetOrg, QueueOfWaiters, Waiting, AfterGrant, Reading, Bound
  <2>6. CASE Finalize(r)
    BY <2>6 DEF Finalize, QueueOfWaiters, Waiting, AfterGrant, Reading, Bound
  <2>7. CASE ResetRole(r)
    BY <2>7 DEF ResetRole, QueueOfWaiters, Waiting, AfterGrant, Reading, Bound
  <2>8. CASE ResetOrg(r)
    BY <2>8 DEF ResetOrg, Release, QueueOfWaiters, Waiting, AfterGrant, Reading, Bound
  <2>9. CASE StatementFails(r)
    BY <2>9 DEF StatementFails, Discard, QueueOfWaiters, Waiting, AfterGrant, Reading, Bound
  <2> QED
    BY <1>3, <2>1, <2>2, <2>3, <2>4, <2>5, <2>6, <2>7, <2>8, <2>9 DEF RequestStep
<1>4. ASSUME NEW c \in Conns, Grant(c) PROVE IInv'
  <2> DEFINE r == queue[1]
  <2>1. /\ r \in Requests
        /\ pc[r] \in Waiting
        /\ conn[r] = NoConn
        /\ \A i \in 2 .. Len(queue) : queue[i] # r
    BY <1>4 DEF Grant, QueueOfWaiters, Waiting, AfterGrant, Reading, Bound
  <2>2. /\ pc' = [pc EXCEPT ![r] = AfterGrant[pc[r]]]
        /\ conn' = [conn EXCEPT ![r] = c]
        /\ slot' = [slot EXCEPT ![c] = "held"]
        /\ queue' = Tail(queue)
        /\ UNCHANGED <<tenant, role, setting>>
        /\ slot[c] \in {"unopened", "idle"}
    BY <1>4 DEF Grant
  <2>3. /\ queue' \in Seq(Requests)
        /\ Len(queue') = Len(queue) - 1
        /\ \A i \in 1 .. Len(queue') : queue'[i] = queue[i + 1]
    BY <1>4, <2>2 DEF Grant
  <2>4. QueueOfWaiters'
    BY <2>1, <2>2, <2>3 DEF QueueOfWaiters
  <2>5. \A s \in Requests : conn[s] # c
    BY <2>2
  <2>6. AfterGrant[pc[r]] \in {"readOrganization", "readMembership", "query", "setRole"}
    BY <2>1, AfterGrantRunning DEF Reading
  <2>7. pc[r] \in {"waitOrganization", "waitMembership", "waitRunner"} => tenant[r] # NoOrg
    BY <2>1
  <2>8. AfterGrant[pc[r]] # "query" => pc[r] # "waitQuery"
    BY DEF AfterGrant
  <2>9. TypeOK'
    BY <2>1, <2>2, <2>3, <2>6 DEF Reading, Bound
  <2>10. \A s \in Requests : SessionOf(s)' /\ HoldsWhenRunning(s)' /\ TenantOfBound(s)'
    BY <2>1, <2>2, <2>5, <2>6, <2>7, <2>8 DEF Reading, Bound, Waiting, AfterGrant
  <2> QED
    BY <2>1, <2>2, <2>4, <2>5, <2>9, <2>10
<1>5. ASSUME NEW c \in Conns, Break(c) PROVE IInv'
  BY <1>5 DEF Break, QueueOfWaiters, Waiting, AfterGrant, Reading, Bound
<1>6. CASE UNCHANGED vars
  BY <1>6 DEF vars, QueueOfWaiters, Waiting, AfterGrant, Reading, Bound
<1> QED
  BY <1>1, <1>2, <1>3, <1>4, <1>5, <1>6 DEF Next

-----------------------------------------------------------------------------
\* Hence every reachable state has it.
LEMMA InvariantHolds == Spec => []IInv
BY InitIInv, NextIInv, PTL DEF Spec

\* The types of TenantPool's variables hold in every reachable state.
THEOREM TypeCorrect == Spec => []TypeOK
BY InvariantHolds, PTL DEF IInv

\* However many requests share however many connections, whatever connection
\* breaks and whoever gives up waiting: an idle connection carries neither role
\* nor organization, a handler runs with its own organization, the guard and
\* the anonymous routes read unbound, and nobody holds a connection while
\* waiting for another.
THEOREM ConnectionsIsolated == Spec => []Isolation
<1>1. IInv => Isolation
  BY DEF IInv, Isolation, IdleClean, HandlerInTenant, OwnerReadsUnbound, Exclusive, Visible,
         OwnerRole, AppRole,
         FreeClean, SessionOf, HoldsWhenRunning, TenantOfBound, NoSharing, TypeOK,
         Reading, Bound, Waiting, AfterGrant
<1> QED
  BY <1>1, InvariantHolds, PTL

\* A connection passes from one organization to another only through a state
\* where its organization was reset.
THEOREM SettingsReset == Spec => ResetBetweenTenants
<1>1. IInv /\ [Next]_vars =>
        [\A c \in Conns : setting[c] # NoOrg => setting'[c] \in {setting[c], NoOrg}]_setting
  <2> SUFFICES ASSUME IInv, [Next]_vars, NEW c \in Conns, setting[c] # NoOrg
               PROVE  setting'[c] \in {setting[c], NoOrg}
    OBVIOUS
  <2> USE DEF IInv, TypeOK, SessionOf, HoldsWhenRunning
  <2>1. ASSUME NEW r \in Requests, RequestStep(r)
        PROVE  setting'[c] \in {setting[c], NoOrg}
    BY <2>1 DEF RequestStep, ReadOrganization, ReadMembership, GuardRead, OwnerQuery,
                SetRole, SetOrg, Finalize, ResetRole, ResetOrg, StatementFails,
                Release, Discard, Usable, Reading, Bound
  <2> QED
    BY <2>1 DEF Next, Arrive, Timeout, Grant, Break, vars
<1> QED
  BY <1>1, InvariantHolds, PTL DEF Spec, ResetBetweenTenants
=============================================================================
