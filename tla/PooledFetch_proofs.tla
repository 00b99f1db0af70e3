------------------------- MODULE PooledFetch_proofs -------------------------
(***************************************************************************)
(* Every value of Addr, Req and Conn: the safety invariants of PooledFetch *)
(* and its implementation of ConnLease.                                    *)
(***************************************************************************)
EXTENDS PooledFetch, FiniteSetTheorems, TLAPS

\* The consequence of a SkipMap whose key is the address of the upstream: the pool
\* keeps one connection per upstream at most, however many were returned to it.
OneIdlePerUpstream ==
  \A a \in Addr : \A c, d \in idle[a] : c = d

\* How the variables go together: the SkipMap of an absent key is written {}, a
\* call has an address, some of its states have a connection, and so has a task.
Bookkeeping ==
  /\ \A a \in Addr : idle[a] # {} => a \in keys
  /\ \A r \in Req :
        /\ pc[r] \in {"cached", "new", "body"} <=> conn[r] # None
        /\ pc[r] \in {"idle", "dropping"} <=> target[r] = None
  /\ \A c \in Conn : task[c] # "none" => addr[c] \in Addr

\* The inductive invariant.  ExclusiveOwner alone is not inductive: that a call
\* in "new" owns a connection, and that the idle ones are under a key, is what
\* keeps Finish and RemoveKey from losing track of a Sender.
IInv ==
  TypeOK /\ ExclusiveOwner /\ RightUpstream /\ OneIdlePerUpstream /\ Bookkeeping

LEMMA InitIInv == Init => IInv
  BY NoneAssumption
  DEF Init, IInv, TypeOK, ExclusiveOwner, RightUpstream, OneIdlePerUpstream,
      Bookkeeping, Users, Homes, Gone, ReqState, TaskState

\* The steps in which a call drops the connection it owns.
Drops(r) == CachedStale(r) \/ CachedError(r) \/ CachedCancelled(r) \/ NewFails(r)

LEMMA StepTypeOK == IInv /\ [Next]_vars => TypeOK'
<1> SUFFICES ASSUME IInv, [Next]_vars PROVE TypeOK'
  OBVIOUS
<1> USE NoneAssumption DEF IInv, TypeOK, ReqState, TaskState
<1>1. ASSUME NEW r \in Req, NEW a \in Addr, Hit(r, a) PROVE TypeOK'
  BY <1>1 DEF Hit, Bookkeeping
<1>2. ASSUME NEW r \in Req, NEW a \in Addr, Miss(r, a) PROVE TypeOK'
  BY <1>2 DEF Miss, poolVars, Bookkeeping
<1>3. ASSUME NEW r \in Req, Connect(r) PROVE TypeOK'
  BY <1>3 DEF Connect, poolVars, Bookkeeping
<1>4. ASSUME NEW r \in Req, ConnectFails(r) PROVE TypeOK'
  BY <1>4 DEF ConnectFails, Finish, poolVars, Bookkeeping
<1>5. ASSUME NEW r \in Req, Respond(r) PROVE TypeOK'
  BY <1>5 DEF Respond, poolVars, Bookkeeping
<1>6. ASSUME NEW r \in Req, Drops(r) PROVE TypeOK'
  BY <1>6 DEF Drops, CachedStale, CachedError, CachedCancelled, NewFails, Finish, poolVars, Bookkeeping
<1>7. ASSUME NEW r \in Req, BodyDrop(r) PROVE TypeOK'
  BY <1>7 DEF BodyDrop, Return, Finish, FinishUnread, SameKey, Bookkeeping
<1>8. ASSUME NEW c \in Conn, ConnEnds(c) \/ TaskCancelled(c) PROVE TypeOK'
  BY <1>8 DEF ConnEnds, TaskCancelled, poolVars, reqVars, Bookkeeping
<1>9. ASSUME NEW c \in Conn, Evict(c) PROVE TypeOK'
  BY <1>9 DEF Evict, SameKey, reqVars, Bookkeeping
<1>10. ASSUME NEW c \in Conn, RemoveKey(c) PROVE TypeOK'
  BY <1>10 DEF RemoveKey, reqVars, Bookkeeping
<1>11. ASSUME NEW r \in Req, IncomingDrop(r) PROVE TypeOK'
  BY <1>11 DEF IncomingDrop, poolVars, Bookkeeping
<1>12. CASE UNCHANGED vars
  BY <1>12 DEF vars
<1> QED
  BY <1>1, <1>2, <1>3, <1>4, <1>5, <1>6, <1>7, <1>8, <1>9, <1>10, <1>11, <1>12
  DEF Next, Http, Monitor, Drops

\* A Sender changes its place in one step: it is taken where it was.
LEMMA StepExclusiveOwner == IInv /\ [Next]_vars => ExclusiveOwner'
<1> SUFFICES ASSUME IInv, [Next]_vars PROVE ExclusiveOwner'
  OBVIOUS
<1> USE NoneAssumption DEF IInv, ExclusiveOwner, Users, Homes, Gone
<1>1. ASSUME NEW r \in Req, NEW a \in Addr, Hit(r, a) PROVE ExclusiveOwner'
  BY <1>1 DEF Hit, TypeOK, Bookkeeping
<1>2. ASSUME NEW r \in Req, NEW a \in Addr, Miss(r, a) PROVE ExclusiveOwner'
  BY <1>2 DEF Miss, poolVars, TypeOK, Bookkeeping
<1>3. ASSUME NEW r \in Req, Connect(r) PROVE ExclusiveOwner'
  BY <1>3 DEF Connect, poolVars, TypeOK, Bookkeeping
<1>4. ASSUME NEW r \in Req, ConnectFails(r) PROVE ExclusiveOwner'
  BY <1>4 DEF ConnectFails, Finish, poolVars, TypeOK, Bookkeeping
<1>5. ASSUME NEW r \in Req, Respond(r) PROVE ExclusiveOwner'
  BY <1>5 DEF Respond, poolVars, TypeOK, Bookkeeping
<1>6. ASSUME NEW r \in Req, Drops(r) PROVE ExclusiveOwner'
  BY <1>6 DEF Drops, CachedStale, CachedError, CachedCancelled, NewFails, Finish, poolVars, TypeOK, Bookkeeping
<1>7. ASSUME NEW r \in Req, BodyDrop(r) PROVE ExclusiveOwner'
  BY <1>7 DEF BodyDrop, Return, Finish, FinishUnread, SameKey, TypeOK, Bookkeeping
<1>8. ASSUME NEW c \in Conn, ConnEnds(c) \/ TaskCancelled(c) PROVE ExclusiveOwner'
  BY <1>8 DEF ConnEnds, TaskCancelled, poolVars, reqVars, TypeOK, Bookkeeping
<1>9. ASSUME NEW c \in Conn, Evict(c) PROVE ExclusiveOwner'
  BY <1>9 DEF Evict, SameKey, reqVars, TypeOK, Bookkeeping
<1>10. ASSUME NEW c \in Conn, RemoveKey(c) PROVE ExclusiveOwner'
  BY <1>10 DEF RemoveKey, reqVars, TypeOK, Bookkeeping
<1>11. ASSUME NEW r \in Req, IncomingDrop(r) PROVE ExclusiveOwner'
  BY <1>11 DEF IncomingDrop, poolVars, TypeOK, Bookkeeping
<1>12. CASE UNCHANGED vars
  BY <1>12 DEF vars
<1> QED
  BY <1>1, <1>2, <1>3, <1>4, <1>5, <1>6, <1>7, <1>8, <1>9, <1>10, <1>11, <1>12
  DEF Next, Http, Monitor, Drops

LEMMA StepBookkeeping == IInv /\ [Next]_vars => Bookkeeping'
<1> SUFFICES ASSUME IInv, [Next]_vars PROVE Bookkeeping'
  OBVIOUS
<1> USE NoneAssumption DEF IInv, Bookkeeping
<1>1. ASSUME NEW r \in Req, NEW a \in Addr, Hit(r, a) PROVE Bookkeeping'
  BY <1>1 DEF Hit, TypeOK
<1>2. ASSUME NEW r \in Req, NEW a \in Addr, Miss(r, a) PROVE Bookkeeping'
  BY <1>2 DEF Miss, poolVars, TypeOK
<1>3. ASSUME NEW r \in Req, Connect(r) PROVE Bookkeeping'
  BY <1>3 DEF Connect, poolVars, TypeOK
<1>4. ASSUME NEW r \in Req, ConnectFails(r) PROVE Bookkeeping'
  BY <1>4 DEF ConnectFails, Finish, poolVars, TypeOK
<1>5. ASSUME NEW r \in Req, Respond(r) PROVE Bookkeeping'
  BY <1>5 DEF Respond, poolVars, TypeOK
<1>6. ASSUME NEW r \in Req, Drops(r) PROVE Bookkeeping'
  BY <1>6 DEF Drops, CachedStale, CachedError, CachedCancelled, NewFails, Finish, poolVars, TypeOK
<1>7. ASSUME NEW r \in Req, BodyDrop(r) PROVE Bookkeeping'
  BY <1>7 DEF BodyDrop, Return, Finish, FinishUnread, SameKey, TypeOK
<1>8. ASSUME NEW c \in Conn, ConnEnds(c) \/ TaskCancelled(c) PROVE Bookkeeping'
  BY <1>8 DEF ConnEnds, TaskCancelled, poolVars, reqVars, TypeOK
<1>9. ASSUME NEW c \in Conn, Evict(c) PROVE Bookkeeping'
  BY <1>9 DEF Evict, SameKey, reqVars, TypeOK
<1>10. ASSUME NEW c \in Conn, RemoveKey(c) PROVE Bookkeeping'
  BY <1>10 DEF RemoveKey, reqVars, TypeOK
<1>11. ASSUME NEW r \in Req, IncomingDrop(r) PROVE Bookkeeping'
  BY <1>11 DEF IncomingDrop, poolVars, TypeOK
<1>12. CASE UNCHANGED vars
  BY <1>12 DEF vars
<1> QED
  BY <1>1, <1>2, <1>3, <1>4, <1>5, <1>6, <1>7, <1>8, <1>9, <1>10, <1>11, <1>12
  DEF Next, Http, Monitor, Drops

\* Only the return of a connection adds to the pool.
LEMMA OnlyReturnAdds ==
  IInv /\ [Next]_vars =>
    (\E r \in Req : BodyDrop(r)) \/ (\A a \in Addr : idle'[a] \subseteq idle[a])
<1> SUFFICES ASSUME IInv, [Next]_vars, ~ \E r \in Req : BodyDrop(r)
             PROVE  \A a \in Addr : idle'[a] \subseteq idle[a]
  OBVIOUS
<1>1. CASE idle' = idle
  BY <1>1
<1>2. CASE \E a \in Addr, s \in SUBSET Conn : idle' = [idle EXCEPT ![a] = @ \ s]
  BY <1>2 DEF IInv, TypeOK
<1>3. ASSUME NEW r \in Req, NEW a \in Addr, Hit(r, a)
      PROVE  \E s \in SUBSET Conn : idle' = [idle EXCEPT ![a] = @ \ s]
  BY <1>3 DEF Hit, IInv, TypeOK
<1>4. ASSUME NEW c \in Conn, Evict(c)
      PROVE  idle' = idle \/ \E a \in Addr, s \in SUBSET Conn : idle' = [idle EXCEPT ![a] = @ \ s]
  <2>1. addr[c] \in Addr /\ SameKey(addr[c], c) \in SUBSET Conn
    BY <1>4 DEF Evict, SameKey, IInv, TypeOK, Bookkeeping
  <2> QED
    BY <1>4, <2>1 DEF Evict
<1>5. ASSUME NEW c \in Conn, RemoveKey(c)
      PROVE  \E a \in Addr, s \in SUBSET Conn : idle' = [idle EXCEPT ![a] = @ \ s]
  <2>1. addr[c] \in Addr /\ idle[addr[c]] \in SUBSET Conn
    BY <1>5 DEF RemoveKey, IInv, TypeOK, Bookkeeping
  <2>2. idle' = [idle EXCEPT ![addr[c]] = @ \ idle[addr[c]]]
    BY <1>5, <2>1 DEF RemoveKey, IInv, TypeOK
  <2> QED
    BY <2>1, <2>2
<1> QED
  BY <1>1, <1>2, <1>3, <1>4, <1>5
  DEF Next, Http, Monitor, IncomingDrop, Miss, Connect, ConnectFails, Respond, CachedStale, CachedError,
      CachedCancelled, NewFails, ConnEnds, TaskCancelled, poolVars, vars

\* A connection leads to one upstream as long as it exists.
LEMMA AddrStays ==
  IInv /\ [Next]_vars => \A c \in Conn : task[c] # "none" => addr'[c] = addr[c]
<1> SUFFICES ASSUME IInv, [Next]_vars PROVE \A c \in Conn : task[c] # "none" => addr'[c] = addr[c]
  OBVIOUS
<1>1. ASSUME NEW r \in Req, Connect(r)
      PROVE  \A c \in Conn : task[c] # "none" => addr'[c] = addr[c]
  BY <1>1 DEF Connect, IInv, TypeOK
<1>2. CASE addr' = addr
  BY <1>2
<1> QED
  BY <1>1, <1>2
  DEF Next, Http, Monitor, Hit, Miss, ConnectFails, Respond, CachedStale, CachedError,
      CachedCancelled, NewFails, BodyDrop, IncomingDrop, ConnEnds, TaskCancelled, Evict, RemoveKey, vars

\* A step that returns c puts it under its own upstream, and finds there only
\* connections with the same key.
LEMMA ReturnReplaces ==
  ASSUME IInv, NEW r \in Req, BodyDrop(r)
  PROVE  /\ conn[r] \in Conn /\ target[r] \in Addr /\ addr[conn[r]] = target[r]
         /\ idle' = [idle EXCEPT ![target[r]] = {conn[r]}]
<1>1. conn[r] \in Conn /\ target[r] \in Addr /\ addr[conn[r]] = target[r]
  BY DEF BodyDrop, IInv, TypeOK, Bookkeeping, RightUpstream
<1>2. SameKey(target[r], conn[r]) = idle[target[r]]
  BY <1>1 DEF SameKey, PeerAddr, IInv, TypeOK, RightUpstream
<1> QED
  BY <1>1, <1>2 DEF BodyDrop, Return

LEMMA StepOneIdle == IInv /\ [Next]_vars => OneIdlePerUpstream'
<1> SUFFICES ASSUME IInv, [Next]_vars PROVE OneIdlePerUpstream'
  OBVIOUS
<1>1. CASE \A a \in Addr : idle'[a] \subseteq idle[a]
  BY <1>1 DEF IInv, OneIdlePerUpstream
<1>2. ASSUME NEW r \in Req, BodyDrop(r) PROVE OneIdlePerUpstream'
  BY <1>2, ReturnReplaces DEF IInv, TypeOK, OneIdlePerUpstream
<1> QED
  BY <1>1, <1>2, OnlyReturnAdds

LEMMA StepRightUpstream == IInv /\ [Next]_vars => RightUpstream'
<1> SUFFICES ASSUME IInv, [Next]_vars PROVE RightUpstream'
  OBVIOUS
<1>1. \A a \in Addr, c \in Conn : c \in idle'[a] => addr'[c] = a
  <2>1. \A a \in Addr, c \in Conn : c \in idle[a] => addr[c] = a /\ task[c] # "none"
    BY DEF IInv, RightUpstream, ExclusiveOwner, Homes
  <2>2. CASE \A a \in Addr : idle'[a] \subseteq idle[a]
    BY <2>1, <2>2, AddrStays
  <2>3. ASSUME NEW r \in Req, BodyDrop(r) PROVE \A a \in Addr, c \in Conn : c \in idle'[a] => addr'[c] = a
    <3>1. addr' = addr
      BY <2>3 DEF BodyDrop
    <3> QED
      BY <2>1, <2>3, <3>1, ReturnReplaces DEF IInv, TypeOK
  <2> QED
    BY <2>2, <2>3, OnlyReturnAdds
<1>2. \A r \in Req : conn'[r] # None => addr'[conn'[r]] = target'[r]
  <2> SUFFICES ASSUME NEW q \in Req, conn'[q] # None PROVE addr'[conn'[q]] = target'[q]
    OBVIOUS
  <2>1. CASE conn'[q] = conn[q] /\ target'[q] = target[q]
    <3>1. conn[q] \in Conn /\ task[conn[q]] # "none" /\ addr[conn[q]] = target[q]
      BY <2>1 DEF IInv, TypeOK, RightUpstream, ExclusiveOwner, Users
    <3> QED
      BY <2>1, <3>1, AddrStays
  <2>2. ASSUME NEW a \in Addr, Hit(q, a) PROVE addr'[conn'[q]] = target'[q]
    BY <2>2 DEF Hit, IInv, TypeOK, RightUpstream
  <2>3. CASE Connect(q)
    BY <2>3 DEF Connect, IInv, TypeOK
  <2>4. CASE UNCHANGED <<conn, target>>
    BY <2>1, <2>4
  <2>5. ASSUME NEW r \in Req, r # q, Http(r) PROVE conn'[q] = conn[q] /\ target'[q] = target[q]
    BY <2>5 DEF Http, Hit, Miss, Connect, ConnectFails, Respond, CachedStale, CachedError,
                CachedCancelled, NewFails, BodyDrop, IncomingDrop, Finish, FinishUnread, IInv, TypeOK
  <2>6. ASSUME NEW a \in Addr, Miss(q, a) PROVE FALSE
    BY <2>6 DEF Miss, IInv, Bookkeeping
  <2>7. CASE Respond(q) \/ IncomingDrop(q)
    BY <2>1, <2>7 DEF Respond, IncomingDrop
  <2>8. CASE ConnectFails(q) \/ Drops(q) \/ BodyDrop(q)
    BY <2>8, NoneAssumption DEF ConnectFails, Drops, CachedStale, CachedError, CachedCancelled, NewFails,
                BodyDrop, Finish, FinishUnread, IInv, TypeOK
  <2>9. ASSUME NEW c \in Conn, Monitor(c) PROVE UNCHANGED <<conn, target>>
    BY <2>9 DEF Monitor, ConnEnds, TaskCancelled, Evict, RemoveKey, reqVars
  <2> QED
    BY <2>1, <2>2, <2>3, <2>4, <2>5, <2>6, <2>7, <2>8, <2>9 DEF Next, Http, Drops, vars
<1> QED
  BY <1>1, <1>2 DEF RightUpstream

LEMMA StepIInv == IInv /\ [Next]_vars => IInv'
  BY StepTypeOK, StepExclusiveOwner, StepRightUpstream, StepOneIdle, StepBookkeeping DEF IInv

\* In every reachable state the model's variables have their types.
THEOREM TypeSafe == Spec => []TypeOK
<1>1. Init => IInv
  BY InitIInv
<1>2. IInv /\ [Next]_vars => IInv'
  BY StepIInv
<1>3. IInv => TypeOK
  BY DEF IInv
<1> QED
  BY <1>1, <1>2, <1>3, PTL DEF Spec

LEMMA Invariance == Spec => []IInv
  BY InitIInv, StepIInv, PTL DEF Spec

\* However many requests, connections and upstreams there are, no Sender is ever
\* with two owners or dropped by one of them while another has it.
THEOREM SingleOwner == Spec => []ExclusiveOwner
<1>1. IInv => ExclusiveOwner
  BY DEF IInv
<1> QED
  BY <1>1, Invariance, PTL

\* No request is ever written to a connection of another upstream.
THEOREM NoCrossTalk == Spec => []RightUpstream
<1>1. IInv => RightUpstream
  BY DEF IInv
<1> QED
  BY <1>1, Invariance, PTL

\* However many connections were returned, at most one per upstream is kept.
THEOREM PoolOfOne == Spec => []OneIdlePerUpstream
<1>1. IInv => OneIdlePerUpstream
  BY DEF IInv
<1> QED
  BY <1>1, Invariance, PTL
-----------------------------------------------------------------------------
(***************************************************************************)
(* PooledFetch implements ConnLease: each action of the pool is a step of  *)
(* the lease or leaves it alone.                                           *)
(***************************************************************************)
LEMMA InitLease == Init => Lease!Init
  BY NoneAssumption DEF Init, Lease!Init, Holders, Pooled, Users, Gone

\* The holder of a connection is alone with it.
LEMMA Holder ==
  ASSUME IInv, NEW r \in Req, pc[r] \in {"cached", "new", "body"}
  PROVE  \E c \in Conn : c = conn[r] /\ Users(c) = {r}
  BY DEF IInv, TypeOK, Bookkeeping, ExclusiveOwner, Users

\* A free-handed call r takes the unused connection c.
LEMMA HoldersGain ==
  ASSUME TypeOK, NEW r \in Req, NEW c \in Conn, conn[r] = None, Users(c) = {},
         conn' = [conn EXCEPT ![r] = c]
  PROVE  Holders' = [Holders EXCEPT ![c] = {r}]
<1>1. ASSUME NEW d \in Conn
      PROVE  {s \in Req : conn'[s] = d} =
               IF d = c THEN {r} ELSE {s \in Req : conn[s] = d}
  BY NoneAssumption DEF TypeOK, Users
<1> QED
  BY <1>1 DEF Holders, Users

\* The only user r of c lets it go.
LEMMA HoldersLose ==
  ASSUME TypeOK, NEW r \in Req, NEW c \in Conn, conn[r] = c, Users(c) = {r},
         conn' = [conn EXCEPT ![r] = None]
  PROVE  Holders' = [Holders EXCEPT ![c] = {}]
<1>1. ASSUME NEW d \in Conn
      PROVE  {s \in Req : conn'[s] = d} =
               IF d = c THEN {} ELSE {s \in Req : conn[s] = d}
  BY NoneAssumption DEF TypeOK, Users
<1> QED
  BY <1>1 DEF Holders, Users

LEMMA StepLease == IInv /\ [Next]_vars => [Lease!Next]_Lease!vars
<1> SUFFICES ASSUME IInv, [Next]_vars PROVE [Lease!Next]_Lease!vars
  OBVIOUS
<1> USE NoneAssumption DEF IInv
<1>1. ASSUME NEW r \in Req, NEW a \in Addr, Hit(r, a) PROVE Lease!Next
  <2>1. PICK c \in idle[a] : /\ idle' = [idle EXCEPT ![a] = @ \ {c}]
                             /\ conn' = [conn EXCEPT ![r] = c]
    BY <1>1 DEF Hit
  <2>2. c \in Conn /\ conn[r] = None
    BY <1>1 DEF Hit, TypeOK, Bookkeeping
  <2>3. Users(c) = {} /\ \A b \in Addr : c \in idle[b] => b = a
    BY <2>2 DEF ExclusiveOwner, Homes
  <2>4. Pooled' = Pooled \ {c}
    BY <2>1, <2>3 DEF TypeOK, Pooled
  <2>5. Holders' = [Holders EXCEPT ![c] = {r}]
    BY <2>1, <2>2, <2>3, HoldersGain
  <2>6. Lease!Take(r, c)
    <3>1. c \in Pooled /\ Holders[c] = {}
      BY <2>2, <2>3 DEF Pooled, Holders
    <3>2. UNCHANGED Gone
      BY <1>1 DEF Hit, Gone
    <3> QED
      BY <2>4, <2>5, <3>1, <3>2 DEF Lease!Take
  <2> QED
    BY <2>2, <2>6 DEF Lease!Next
<1>2. ASSUME NEW r \in Req, NEW a \in Addr, Miss(r, a) PROVE UNCHANGED Lease!vars
  BY <1>2 DEF Miss, poolVars, Users, Holders, Pooled, Gone, Lease!vars
<1>3. ASSUME NEW r \in Req, Connect(r) PROVE Lease!Next
  <2>1. PICK c \in Conn : task[c] = "none" /\ conn' = [conn EXCEPT ![r] = c]
    BY <1>3 DEF Connect
  <2>2. Users(c) = {} /\ c \notin Pooled \cup Gone
    BY <2>1 DEF ExclusiveOwner, Homes, Pooled
  <2>3. conn[r] = None
    BY <1>3 DEF Connect, TypeOK, Bookkeeping
  <2>4. Holders' = [Holders EXCEPT ![c] = {r}]
    BY <2>1, <2>2, <2>3, HoldersGain
  <2>5. Lease!Open(r, c)
    <3>1. Holders[c] = {} /\ c \notin Pooled \cup Gone
      BY <2>2 DEF Pooled, Holders
    <3>2. UNCHANGED <<Pooled, Gone>>
      BY <1>3 DEF Connect, poolVars, Pooled, Gone
    <3> QED
      BY <2>4, <3>1, <3>2 DEF Lease!Open
  <2> QED
    BY <2>5 DEF Lease!Next
<1>4. ASSUME NEW r \in Req, ConnectFails(r) PROVE UNCHANGED Lease!vars
  <2>1. conn' = conn
    BY <1>4 DEF ConnectFails, Finish, TypeOK, Bookkeeping
  <2> QED
    BY <1>4, <2>1 DEF ConnectFails, poolVars, Users, Holders, Pooled, Gone, Lease!vars
<1>5. ASSUME NEW r \in Req, Respond(r) \/ IncomingDrop(r) PROVE UNCHANGED Lease!vars
  BY <1>5 DEF Respond, IncomingDrop, poolVars, Users, Holders, Pooled, Gone, Lease!vars
<1>6. ASSUME NEW r \in Req,
             CachedStale(r) \/ CachedError(r) \/ CachedCancelled(r) \/ NewFails(r)
      PROVE  Lease!Next
  <2>1. PICK c \in Conn : c = conn[r] /\ Users(c) = {r}
    BY <1>6, Holder DEF CachedStale, CachedError, CachedCancelled, NewFails
  <2>2. /\ conn' = [conn EXCEPT ![r] = None] /\ idle' = idle
        /\ dropped' = dropped \cup {c} /\ leaked' = leaked
    BY <1>6, <2>1
    DEF CachedStale, CachedError, CachedCancelled, NewFails, Finish, poolVars
  <2>3. Holders' = [Holders EXCEPT ![c] = {}]
    BY <2>1, <2>2, HoldersLose
  <2>4. Lease!Destroy(r, c)
    <3>1. Holders[c] = {r}
      BY <2>1 DEF Holders
    <3>2. Gone' = Gone \cup {c} /\ UNCHANGED Pooled
      BY <2>2 DEF Gone, Pooled
    <3> QED
      BY <2>3, <3>1, <3>2 DEF Lease!Destroy
  <2> QED
    BY <2>4 DEF Lease!Next
<1>7. ASSUME NEW r \in Req, BodyDrop(r) PROVE Lease!Next
  <2>1. PICK c \in Conn : c = conn[r] /\ Users(c) = {r}
    BY <1>7, Holder DEF BodyDrop
  <2>2. PICK a \in Addr : a = target[r]
    BY <1>7 DEF BodyDrop, TypeOK, Bookkeeping
  <2>3. PICK old \in SUBSET Conn : old = SameKey(a, c)
    BY <2>2 DEF SameKey, TypeOK
  <2>4. /\ conn' = [conn EXCEPT ![r] = None]
        /\ idle' = [idle EXCEPT ![a] = (@ \ old) \cup {c}]
        /\ dropped' = dropped /\ leaked' = leaked \cup old
    BY <1>7, <2>1, <2>2, <2>3 DEF BodyDrop, Return, Finish, FinishUnread
  <2>5. old \subseteq idle[a] /\ \A d \in old, b \in Addr : d \in idle[b] => b = a
    BY <2>3 DEF SameKey, ExclusiveOwner, Homes
  <2>6. Pooled' = (Pooled \ old) \cup {c}
    BY <2>4, <2>5 DEF TypeOK, Pooled
  <2>7. Holders' = [Holders EXCEPT ![c] = {}]
    BY <2>1, <2>4, HoldersLose
  <2>8. Lease!Return(r, c, old)
    <3>1. Holders[c] = {r} /\ old \subseteq Pooled
      BY <2>1, <2>5 DEF Holders, Pooled
    <3>2. Gone' = Gone \cup old
      BY <2>4 DEF Gone
    <3> QED
      BY <2>6, <2>7, <3>1, <3>2 DEF Lease!Return
  <2> QED
    BY <2>8 DEF Lease!Next
<1>8. ASSUME NEW c \in Conn, ConnEnds(c) \/ TaskCancelled(c) PROVE UNCHANGED Lease!vars
  BY <1>8 DEF ConnEnds, TaskCancelled, poolVars, reqVars, Users, Holders, Pooled, Gone, Lease!vars
<1>9. ASSUME NEW c \in Conn, Evict(c) PROVE [Lease!Next]_Lease!vars
  <2>1. PICK a \in Addr : a = addr[c]
    BY <1>9 DEF Evict, Bookkeeping
  <2>2. CASE a \in keys
    <3>1. PICK old \in SUBSET Conn : old = SameKey(a, c)
      BY <2>1 DEF SameKey, TypeOK
    <3>2. /\ idle' = [idle EXCEPT ![a] = @ \ old] /\ conn' = conn
          /\ dropped' = dropped /\ leaked' = leaked \cup old
      BY <1>9, <2>1, <2>2, <3>1 DEF Evict, reqVars
    <3>3. old \subseteq idle[a] /\ \A d \in old, b \in Addr : d \in idle[b] => b = a
      BY <3>1 DEF SameKey, ExclusiveOwner, Homes
    <3>4. Pooled' = Pooled \ old
      BY <3>2, <3>3 DEF TypeOK, Pooled
    <3>5. Lease!Lose(old)
      <4>1. old \subseteq Pooled
        BY <3>3 DEF Pooled
      <4>2. Gone' = Gone \cup old /\ UNCHANGED Holders
        BY <3>2 DEF Gone, Users, Holders
      <4> QED
        BY <3>4, <4>1, <4>2 DEF Lease!Lose
    <3> QED
      BY <3>5 DEF Lease!Next
  <2>3. CASE a \notin keys
    BY <1>9, <2>1, <2>3 DEF Evict, reqVars, Users, Holders, Pooled, Gone, Lease!vars
  <2> QED
    BY <2>2, <2>3
<1>10. ASSUME NEW c \in Conn, RemoveKey(c) PROVE Lease!Next
  <2>1. PICK a \in Addr : a = addr[c]
    BY <1>10 DEF RemoveKey, Bookkeeping
  <2>2. PICK old \in SUBSET Conn : old = idle[a]
    BY <2>1 DEF TypeOK
  <2>3. /\ idle' = [idle EXCEPT ![a] = {}] /\ conn' = conn
        /\ dropped' = dropped /\ leaked' = leaked \cup old
    BY <1>10, <2>1, <2>2 DEF RemoveKey, reqVars
  <2>4. \A d \in old, b \in Addr : d \in idle[b] => b = a
    BY <2>2 DEF ExclusiveOwner, Homes
  <2>5. Pooled' = Pooled \ old
    BY <2>2, <2>3, <2>4 DEF TypeOK, Pooled
  <2>6. Lease!Lose(old)
    <3>1. old \subseteq Pooled
      BY <2>2 DEF Pooled
    <3>2. Gone' = Gone \cup old /\ UNCHANGED Holders
      BY <2>3 DEF Gone, Users, Holders
    <3> QED
      BY <2>5, <3>1, <3>2 DEF Lease!Lose
  <2> QED
    BY <2>6 DEF Lease!Next
<1>11. CASE UNCHANGED vars
  BY <1>11 DEF vars, Users, Holders, Pooled, Gone, Lease!vars
<1> QED
  BY <1>1, <1>2, <1>3, <1>4, <1>5, <1>6, <1>7, <1>8, <1>9, <1>10, <1>11
  DEF Next, Http, Monitor

\* The pool is a lease of connections, for every number of requests,
\* connections and upstreams.
THEOREM Implements == Spec => LeaseSpec
  BY Invariance, InitLease, StepLease, PTL DEF Spec, LeaseSpec, Lease!Spec

\* A Sender that was dropped, or thrown out of the pool, is never used again and
\* never pooled again, by whatever request or monitor task.
THEOREM NeverUsedAgain == Spec => Lease!GoneForGood
<1>1. IInv /\ [Next]_vars =>
        [\A c \in Gone : c \in Gone' /\ c \notin Pooled' /\ Holders'[c] = {}]_Lease!vars
  <2> SUFFICES ASSUME IInv, Lease!Next, NEW c \in Gone
               PROVE  c \in Gone' /\ c \notin Pooled' /\ Holders'[c] = {}
    BY StepLease
  <2>1. c \in Conn /\ Holders \in [Conn -> SUBSET Req] /\ Pooled \subseteq Conn
    BY DEF IInv, TypeOK, Gone, Holders, Users, Pooled
  <2>2. Holders[c] = {} /\ c \notin Pooled
    BY <2>1 DEF IInv, ExclusiveOwner, Homes, Holders, Pooled
  <2>3. ASSUME NEW r \in Req, NEW d \in Conn, Lease!Open(r, d) \/ Lease!Take(r, d) \/ Lease!Destroy(r, d)
        PROVE  c \in Gone' /\ c \notin Pooled' /\ Holders'[c] = {}
    BY <2>1, <2>2, <2>3 DEF Lease!Open, Lease!Take, Lease!Destroy
  <2>4. ASSUME NEW r \in Req, NEW d \in Conn, NEW lost \in SUBSET Conn, Lease!Return(r, d, lost)
        PROVE  c \in Gone' /\ c \notin Pooled' /\ Holders'[c] = {}
    BY <2>1, <2>2, <2>4 DEF Lease!Return
  <2>5. ASSUME NEW lost \in SUBSET Conn, Lease!Lose(lost)
        PROVE  c \in Gone' /\ c \notin Pooled' /\ Holders'[c] = {}
    BY <2>1, <2>2, <2>5 DEF Lease!Lose
  <2> QED
    BY <2>3, <2>4, <2>5 DEF Lease!Next
<1> QED
  BY <1>1, Invariance, PTL DEF Spec, Lease!GoneForGood
-----------------------------------------------------------------------------
\* The pool holds no more idle connections than there are upstream addresses,
\* however many requests ran at once: the address of each is its own.
THEOREM PoolBounded ==
  ASSUME IsFiniteSet(Addr)
  PROVE  Spec => [](IsFiniteSet(Pooled) /\ Cardinality(Pooled) <= Cardinality(Addr))
<1>1. IInv => IsFiniteSet(Pooled) /\ Cardinality(Pooled) <= Cardinality(Addr)
  <2> SUFFICES ASSUME IInv PROVE IsFiniteSet(Pooled) /\ Cardinality(Pooled) <= Cardinality(Addr)
    OBVIOUS
  <2> DEFINE at == [c \in Pooled |-> addr[c]]
  <2>1. \A c \in Pooled : c \in Conn /\ addr[c] \in Addr /\ c \in idle[addr[c]]
    BY DEF IInv, TypeOK, RightUpstream, Pooled
  <2>2. \A c, d \in Pooled : addr[c] = addr[d] => c = d
    BY <2>1 DEF IInv, OneIdlePerUpstream
  <2>3. at \in Injection(Pooled, Addr)
    BY <2>1, <2>2 DEF Injection, IsInjective
  <2> QED
    BY <2>3, FS_Injection
<1> QED
  BY <1>1, Invariance, PTL
=============================================================================
