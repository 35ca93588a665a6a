----------------------------- MODULE TenantPool -----------------------------
(***************************************************************************)
(* The database connections of the server process: the bounded pool of     *)
(* app.module.ts, the two reads TenantGuard makes with connections it      *)
(* gives back at once, and TenantContextInterceptor, which holds one       *)
(* connection for the rest of a tenant request after switching it to the   *)
(* restricted role and to the organization of the request.                 *)
(*                                                                         *)
(* A request is a tenant request of one organization, or an anonymous one  *)
(* whose queries run as owner.  What a handler does with its connection is *)
(* not modelled here; that it never asks the pool for another one is.      *)
(***************************************************************************)
EXTENDS Naturals, SequencesExt

CONSTANTS
  Requests,   \* the requests in flight; a slot is used again when it is answered
  Conns,      \* the slots of the pool: as many as `extra.max`
  Orgs,       \* organizations
  NoOrg,      \* no organization set, on a connection or on a request
  NoConn      \* the request holds no connection

ASSUME PoolAssumption ==
  /\ NoOrg \notin Orgs
  /\ NoConn \notin Conns

VARIABLES
  pc,         \* where each request is
  tenant,     \* organization of each request, NoOrg for the anonymous routes
  conn,       \* connection each request holds
  queue,      \* requests waiting for a connection, oldest first
  slot,       \* each slot of the pool: never opened, idle, held or broken
  role,       \* session role of each connection
  setting     \* `app.current_org` of each connection

vars == <<pc, tenant, conn, queue, slot, role, setting>>

OwnerRole == "owner"
AppRole   == "hornerito_app"

\* A request waits in the pool's queue at the first of each pair and goes on
\* at the second, holding the connection it was given.
AfterGrant == [waitOrganization |-> "readOrganization",
               waitMembership   |-> "readMembership",
               waitRunner       |-> "setRole",
               waitQuery        |-> "query"]

Waiting == DOMAIN AfterGrant
Reading == {"readOrganization", "readMembership", "query"}
Bound   == {"setRole", "setOrg", "handle", "resetRole", "resetOrg"}

TypeOK ==
  /\ pc \in [Requests -> {"out"} \cup Waiting \cup Reading \cup Bound]
  /\ tenant \in [Requests -> Orgs \cup {NoOrg}]
  /\ conn \in [Requests -> Conns \cup {NoConn}]
  /\ queue \in Seq(Requests)
  /\ slot \in [Conns -> {"unopened", "idle", "held", "broken"}]
  /\ role \in [Conns -> {OwnerRole, AppRole}]
  /\ setting \in [Conns -> Orgs \cup {NoOrg}]

Init ==
  /\ pc = [r \in Requests |-> "out"]
  /\ tenant = [r \in Requests |-> NoOrg]
  /\ conn = [r \in Requests |-> NoConn]
  /\ queue = <<>>
  /\ slot = [c \in Conns |-> "unopened"]
  /\ role = [c \in Conns |-> OwnerRole]
  /\ setting = [c \in Conns |-> NoOrg]

-----------------------------------------------------------------------------
(* The pool (node-pg): first come first served, a new connection is opened *)
(* while a slot is free, a broken one is discarded instead of kept.        *)

Ask(r, wait) ==
  /\ pc' = [pc EXCEPT ![r] = wait]
  /\ queue' = Append(queue, r)

\* A slot that was never opened, or whose connection was discarded, is opened
\* now: a fresh session, of the owner and with no organization.
Grant(c) ==
  /\ queue # <<>>
  /\ slot[c] \in {"unopened", "idle"}
  /\ LET r == Head(queue) IN
       /\ pc' = [pc EXCEPT ![r] = AfterGrant[pc[r]]]
       /\ conn' = [conn EXCEPT ![r] = c]
  /\ queue' = Tail(queue)
  /\ slot' = [slot EXCEPT ![c] = "held"]
  /\ UNCHANGED <<tenant, role, setting>>

\* connectionTimeoutMillis: the pool gives up on a request that is waiting and
\* the request fails.
Timeout(r) ==
  /\ pc[r] \in Waiting
  /\ \E i \in 1 .. Len(queue) : queue[i] = r /\ queue' = RemoveAt(queue, i)
  /\ pc' = [pc EXCEPT ![r] = "out"]
  /\ UNCHANGED <<tenant, conn, slot, role, setting>>

\* Gives the connection back as it is.
Release(r) ==
  /\ slot' = [slot EXCEPT ![conn[r]] = "idle"]
  /\ conn' = [conn EXCEPT ![r] = NoConn]

\* A broken connection does not go back: its slot is free for a fresh session.
Discard(r) ==
  /\ slot' = [slot EXCEPT ![conn[r]] = "unopened"]
  /\ role' = [role EXCEPT ![conn[r]] = OwnerRole]
  /\ setting' = [setting EXCEPT ![conn[r]] = NoOrg]
  /\ conn' = [conn EXCEPT ![r] = NoConn]

Usable(r) == slot[conn[r]] = "held"

\* The server or the network drops a connection that is in use.
Break(c) ==
  /\ slot[c] = "held"
  /\ slot' = [slot EXCEPT ![c] = "broken"]
  /\ UNCHANGED <<pc, tenant, conn, queue, role, setting>>

-----------------------------------------------------------------------------
(* Anonymous requests and TenantGuard: a query takes a connection and      *)
(* gives it back.                                                          *)

Arrive(r) ==
  /\ pc[r] = "out"
  /\ \E o \in Orgs \cup {NoOrg} :
       /\ tenant' = [tenant EXCEPT ![r] = o]
       /\ Ask(r, IF o = NoOrg THEN "waitQuery" ELSE "waitOrganization")
  /\ UNCHANGED <<conn, slot, role, setting>>

\* The guard's two reads.  A read that refuses (organization not validated, no
\* membership or a disabled one) ends the request; so does a broken connection.
GuardRead(r, at, next) ==
  /\ pc[r] = at
  /\ Usable(r)
  /\ Release(r)
  /\ \/ Ask(r, next)
     \/ pc' = [pc EXCEPT ![r] = "out"] /\ UNCHANGED queue
  /\ UNCHANGED <<tenant, role, setting>>

ReadOrganization(r) == GuardRead(r, "readOrganization", "waitMembership")
ReadMembership(r)   == GuardRead(r, "readMembership", "waitRunner")

OwnerQuery(r) ==
  /\ pc[r] = "query"
  /\ Usable(r)
  /\ Release(r)
  /\ pc' = [pc EXCEPT ![r] = "out"]
  /\ UNCHANGED <<tenant, queue, role, setting>>

-----------------------------------------------------------------------------
(* TenantContextInterceptor: one connection for the rest of the request.   *)

\* `SET ROLE`.  It may fail on a live connection (the role does not exist yet):
\* the catch gives the connection back, whose role did not change.
SetRole(r) ==
  /\ pc[r] = "setRole"
  /\ Usable(r)
  /\ \/ /\ role' = [role EXCEPT ![conn[r]] = AppRole]
        /\ pc' = [pc EXCEPT ![r] = "setOrg"]
        /\ UNCHANGED <<conn, slot>>
     \/ /\ Release(r)
        /\ pc' = [pc EXCEPT ![r] = "out"]
        /\ UNCHANGED role
  /\ UNCHANGED <<tenant, queue, setting>>

SetOrg(r) ==
  /\ pc[r] = "setOrg"
  /\ Usable(r)
  /\ setting' = [setting EXCEPT ![conn[r]] = tenant[r]]
  /\ pc' = [pc EXCEPT ![r] = "handle"]
  /\ UNCHANGED <<tenant, conn, queue, slot, role>>

\* Mutant of Finalize: a handler that asks the pool for a second connection
\* while it holds its own (an injected repository in a tenant service).
FinalizeAsksAgain(r) ==
  /\ pc[r] = "handle"
  /\ Ask(r, "waitQuery")
  /\ UNCHANGED <<tenant, conn, slot, role, setting>>

\* The handler's observable completes or fails: `finalize` starts the release,
\* whatever happened to the connection meanwhile.
Finalize(r) ==
  /\ pc[r] = "handle"
  /\ pc' = [pc EXCEPT ![r] = "resetRole"]
  /\ UNCHANGED <<tenant, conn, queue, slot, role, setting>>

\* Mutant of ResetRole: only the organization is reset.
ResetRoleSkipped(r) ==
  /\ pc[r] = "resetRole"
  /\ Usable(r)
  /\ pc' = [pc EXCEPT ![r] = "resetOrg"]
  /\ UNCHANGED <<tenant, conn, queue, slot, role, setting>>

ResetRole(r) ==
  /\ pc[r] = "resetRole"
  /\ Usable(r)
  /\ role' = [role EXCEPT ![conn[r]] = OwnerRole]
  /\ pc' = [pc EXCEPT ![r] = "resetOrg"]
  /\ UNCHANGED <<tenant, conn, queue, slot, setting>>

\* Mutant of ResetOrg: only the role is reset.
ResetOrgSkipped(r) ==
  /\ pc[r] = "resetOrg"
  /\ Usable(r)
  /\ Release(r)
  /\ pc' = [pc EXCEPT ![r] = "out"]
  /\ UNCHANGED <<tenant, queue, role, setting>>

\* `RESET app.current_org`, then the release of the `finally`.
ResetOrg(r) ==
  /\ pc[r] = "resetOrg"
  /\ Usable(r)
  /\ setting' = [setting EXCEPT ![conn[r]] = NoOrg]
  /\ Release(r)
  /\ pc' = [pc EXCEPT ![r] = "out"]
  /\ UNCHANGED <<tenant, queue, role>>

\* A statement on a broken connection fails: the catch of `intercept` or of
\* `releaseTenantConnection` (or the query's own release) lets go of it.  A
\* handler only sees its queries fail and reaches `finalize` as usual.
StatementFails(r) ==
  /\ pc[r] \in (Reading \cup Bound) \ {"handle"}
  /\ ~Usable(r)
  /\ Discard(r)
  /\ pc' = [pc EXCEPT ![r] = "out"]
  /\ UNCHANGED <<tenant, queue>>

-----------------------------------------------------------------------------
RequestStep(r) ==
  \/ ReadOrganization(r) \/ ReadMembership(r) \/ OwnerQuery(r)
  \/ SetRole(r) \/ SetOrg(r) \/ Finalize(r) \/ ResetRole(r) \/ ResetOrg(r)
  \/ StatementFails(r)

Next ==
  \/ \E r \in Requests : Arrive(r) \/ Timeout(r) \/ RequestStep(r)
  \/ \E c \in Conns : Grant(c) \/ Break(c)

\* The statements of a request complete, its handler ends and the pool serves
\* its queue.  No fairness on Arrive, Break or Timeout: what is promised below
\* does not rest on the ten seconds after which the pool gives up.
Fairness ==
  /\ \A r \in Requests : WF_vars(RequestStep(r))
  /\ WF_vars(\E c \in Conns : Grant(c))

Spec == Init /\ [][Next]_vars
FairSpec == Spec /\ Fairness

-----------------------------------------------------------------------------
(* Properties.                                                             *)

\* The organizations whose rows a query on a connection reaches.  The policies
\* do not bind the owner of the tables; a role they bind sees and writes the
\* rows of the organization that is set, and none while none is.
Visible(c) == IF role[c] = OwnerRole THEN Orgs ELSE {setting[c]} \ {NoOrg}

Clean(c) == role[c] = OwnerRole /\ setting[c] = NoOrg

\* No connection goes back to the pool with the role or the organization of
\* the request that had it (what releaseTenantConnection is for).
IdleClean == \A c \in Conns : slot[c] = "idle" => Clean(c)

\* While a handler runs, its connection has the restricted role and reaches the
\* rows of the organization of its own request and no others.
HandlerInTenant ==
  \A r \in Requests : pc[r] = "handle" =>
    /\ tenant[r] # NoOrg
    /\ role[conn[r]] = AppRole
    /\ Visible(conn[r]) = {tenant[r]}

\* The guard's reads and the anonymous routes need the owner's view of every
\* organization: no connection they get is still bound to one.
OwnerReadsUnbound ==
  \A r \in Requests : pc[r] \in Reading => Clean(conn[r])

\* No two requests share a connection, and nobody waits for the pool while
\* holding one: the invariant TenantContextInterceptor imposes on the code.
Exclusive ==
  /\ \A r, s \in Requests : r # s /\ conn[r] = conn[s] => conn[r] = NoConn
  /\ \A r \in Requests : pc[r] \in Waiting => conn[r] = NoConn

Isolation == IdleClean /\ HandlerInTenant /\ OwnerReadsUnbound /\ Exclusive

\* A connection never passes from one organization straight to another: there
\* is a state in between where its organization was reset.
ResetBetweenTenants ==
  [][\A c \in Conns :
       setting[c] # NoOrg => setting'[c] \in {setting[c], NoOrg}]_setting

\* Every request ends, and without the pool's timeout: there is never a cycle
\* of requests that hold a connection and wait for another one.
EveryRequestEnds == \A r \in Requests : []<>(pc[r] = "out" /\ conn[r] = NoConn)
=============================================================================
