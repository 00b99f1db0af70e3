----------------------------- MODULE PooledFetch -----------------------------
(***************************************************************************)
(* The connection pool of pooled_fetch: the global                         *)
(*   POOL : DashMap<SocketAddr, SkipMap<SocketAddr, ManuallyDrop<Sender>>> *)
(* the requests that run http() concurrently, and one background task per  *)
(* connection that drives it and cleans up after it.                       *)
(*                                                                         *)
(* Each action is one critical section: a DashMap call holds its shard     *)
(* lock for the whole step, and between two awaits a task touches nothing  *)
(* shared but POOL.                                                        *)
(***************************************************************************)
EXTENDS FiniteSets

CONSTANTS Addr,  \* upstream addresses
          Req,   \* tasks that call http(), each any number of times
          Conn,  \* connections; each is opened at most once (this bounds TLC)
          None   \* "no connection" and "no address"

ASSUME NoneAssumption == None \notin Conn /\ None \notin Addr

VARIABLES
  keys,    \* the outer keys present in POOL
  idle,    \* idle[a]: the connections in the SkipMap under a ({} if none)
  pc,      \* pc[r]: where the task is in http() and in the life of its Body
  target,  \* target[r]: the addr argument of its current call (None: no call)
  conn,    \* conn[r]: the Conn that http() or the Body owns
  unread,  \* unread[r]: the connection whose response is unread in the Incoming
           \* that r is about to drop
  task,    \* task[c]: the background task spawned by conn_new
  addr,    \* addr[c]: the addr captured by that task
  abort,   \* connections whose JoinHandle was aborted
  dropped, \* connections whose Sender was dropped
  leaked   \* connections whose ManuallyDrop<Sender> was thrown away undropped

poolVars == <<keys, idle>>
reqVars == <<pc, target, conn, unread>>
vars == <<keys, idle, pc, target, conn, unread, task, addr, abort, dropped, leaked>>

\* "cached", "new": awaiting send_request on a pooled or a fresh connection;
\* "connect": in conn_new; "body": the caller holds the Response<Body>;
\* "dropping": Body::drop is over, the rest of the response is not.
ReqState == {"idle", "cached", "connect", "new", "body", "dropping"}

\* "driving": in conn.await; "ended": conn.await returned; "sweeping": found
\* the SkipMap empty and is about to remove it; "cancelled": aborted.
TaskState == {"none", "driving", "ended", "sweeping", "done", "cancelled"}

\* stream.peer_addr() of a connected socket: the address it was connected to.
PeerAddr(c) == addr[c]

\* The entries of the SkipMap of a that share the key of c.
SameKey(a, c) == {d \in idle[a] : PeerAddr(d) = PeerAddr(c)}

Init ==
  /\ keys = {}
  /\ idle = [a \in Addr |-> {}]
  /\ pc = [r \in Req |-> "idle"]
  /\ target = [r \in Req |-> None]
  /\ conn = [r \in Req |-> None]
  /\ unread = [r \in Req |-> None]
  /\ task = [c \in Conn |-> "none"]
  /\ addr = [c \in Conn |-> None]
  /\ abort = {} /\ dropped = {} /\ leaked = {}
-----------------------------------------------------------------------------

(***************************************************************************)
(* http(): one call, from cached_conn to the drop of the response body.    *)
(***************************************************************************)
\* The call is over for r; its addr and its Conn go out of scope.
Finish(r) ==
  /\ pc' = [pc EXCEPT ![r] = "idle"]
  /\ target' = [target EXCEPT ![r] = None]
  /\ conn' = [conn EXCEPT ![r] = None]
  /\ unread' = [unread EXCEPT ![r] = None]

\* Mutation: back() for pop_back(): the entry stays in the SkipMap.
HitPeeks(r, a) ==
  /\ pc[r] = "idle" /\ a \in keys
  /\ \E c \in idle[a] : conn' = [conn EXCEPT ![r] = c]
  /\ pc' = [pc EXCEPT ![r] = "cached"]
  /\ target' = [target EXCEPT ![r] = a]
  /\ UNCHANGED <<poolVars, unread, task, addr, abort, dropped, leaked>>

\* Mutation: the pool is searched under every address.
HitAnywhere(r, a) ==
  /\ pc[r] = "idle"
  /\ \E b \in keys : \E c \in idle[b] :
        /\ idle' = [idle EXCEPT ![b] = @ \ {c}]
        /\ conn' = [conn EXCEPT ![r] = c]
  /\ pc' = [pc EXCEPT ![r] = "cached"]
  /\ target' = [target EXCEPT ![r] = a]
  /\ UNCHANGED <<keys, unread, task, addr, abort, dropped, leaked>>

\* cached_conn: pop_back removes one entry and ptr::read moves its Sender out.
Hit(r, a) ==
  /\ pc[r] = "idle" /\ a \in keys
  /\ \E c \in idle[a] :
        /\ idle' = [idle EXCEPT ![a] = @ \ {c}]
        /\ conn' = [conn EXCEPT ![r] = c]
  /\ pc' = [pc EXCEPT ![r] = "cached"]
  /\ target' = [target EXCEPT ![r] = a]
  /\ UNCHANGED <<keys, unread, task, addr, abort, dropped, leaked>>

Miss(r, a) ==
  /\ pc[r] = "idle" /\ (a \notin keys \/ idle[a] = {})
  /\ pc' = [pc EXCEPT ![r] = "connect"]
  /\ target' = [target EXCEPT ![r] = a]
  /\ UNCHANGED <<poolVars, conn, unread, task, addr, abort, dropped, leaked>>

\* conn_new: connected and shaken hands; the background task is spawned.
Connect(r) ==
  /\ pc[r] = "connect"
  /\ \E c \in Conn :
        /\ task[c] = "none"
        /\ task' = [task EXCEPT ![c] = "driving"]
        /\ addr' = [addr EXCEPT ![c] = target[r]]
        /\ conn' = [conn EXCEPT ![r] = c]
  /\ pc' = [pc EXCEPT ![r] = "new"]
  /\ UNCHANGED <<poolVars, target, unread, abort, dropped, leaked>>

\* connect, peer_addr or the handshake failed, or the caller dropped http().
ConnectFails(r) ==
  /\ pc[r] = "connect"
  /\ Finish(r)
  /\ UNCHANGED <<poolVars, task, addr, abort, dropped, leaked>>

\* hyper goes on to the next request of a connection when the response to the
\* last one was read or given up.
Vacant(c) == \A r \in Req : unread[r] # c

\* The driver delivers the response head (the connection may end before http()
\* is polled again) and res_body wraps the Incoming together with the Conn.
Respond(r) ==
  /\ pc[r] \in {"cached", "new"} /\ task[conn[r]] = "driving" /\ Vacant(conn[r])
  /\ pc' = [pc EXCEPT ![r] = "body"]
  /\ UNCHANGED <<poolVars, target, conn, unread, task, addr, abort, dropped, leaked>>

\* is_canceled or is_closed: the request was never written.  Abort the task,
\* drop the Conn, go on to conn_new.
CachedStale(r) ==
  /\ pc[r] = "cached"
  /\ abort' = abort \cup {conn[r]}
  /\ dropped' = dropped \cup {conn[r]}
  /\ conn' = [conn EXCEPT ![r] = None]
  /\ pc' = [pc EXCEPT ![r] = "connect"]
  /\ UNCHANGED <<poolVars, target, unread, task, addr, leaked>>

\* Any other error: the request may have been written.  Abort, return Err.
CachedError(r) ==
  /\ pc[r] = "cached"
  /\ abort' = abort \cup {conn[r]}
  /\ dropped' = dropped \cup {conn[r]}
  /\ Finish(r)
  /\ UNCHANGED <<poolVars, task, addr, leaked>>

\* The caller drops the http() future while it awaits the pooled connection.
CachedCancelled(r) ==
  /\ pc[r] = "cached"
  /\ dropped' = dropped \cup {conn[r]}
  /\ Finish(r)
  /\ UNCHANGED <<poolVars, task, addr, abort, leaked>>

\* The fresh connection fails too (returned with ?), or the caller drops
\* http(): the Conn is dropped, its task is not aborted.
NewFails(r) ==
  /\ pc[r] = "new"
  /\ dropped' = dropped \cup {conn[r]}
  /\ Finish(r)
  /\ UNCHANGED <<poolVars, task, addr, abort, leaked>>

\* POOL.entry().or_default().insert().  The insert throws out an entry with the
\* same key, whose ManuallyDrop is never dropped.
Return(r) ==
  LET a == target[r]
      old == SameKey(a, conn[r])
  IN  /\ keys' = keys \cup {a}
      /\ idle' = [idle EXCEPT ![a] = (@ \ old) \cup {conn[r]}]
      /\ leaked' = leaked \cup old

\* ... with a response that was not read to its end, which is left in incoming.
FinishUnread(r) ==
  /\ pc' = [pc EXCEPT ![r] = "dropping"]
  /\ target' = [target EXCEPT ![r] = None]
  /\ conn' = [conn EXCEPT ![r] = None]
  /\ unread' = [unread EXCEPT ![r] = conn[r]]

\* Mutation: the destructor also runs for the Sender it gave away.
BodyDropTwice(r) ==
  /\ pc[r] = "body"
  /\ Return(r)
  /\ dropped' = dropped \cup {conn[r]}
  /\ Finish(r) \/ FinishUnread(r)
  /\ UNCHANGED <<task, addr, abort>>

\* Body::drop moves the Sender out and returns it; the field incoming goes after
\* that, which matters if there is something left in it.
BodyDrop(r) ==
  /\ pc[r] = "body"
  /\ Return(r)
  /\ Finish(r) \/ FinishUnread(r)
  /\ UNCHANGED <<task, addr, abort, dropped>>

\* The field is dropped; hyper skips what is unread, or closes the connection
\* (ConnEnds).
IncomingDrop(r) ==
  /\ pc[r] = "dropping"
  /\ pc' = [pc EXCEPT ![r] = "idle"]
  /\ unread' = [unread EXCEPT ![r] = None]
  /\ UNCHANGED <<poolVars, target, conn, task, addr, abort, dropped, leaked>>
-----------------------------------------------------------------------------
(***************************************************************************)
(* The background task of a connection.                                    *)
(***************************************************************************)
\* Mutation: the task owns a clone of the SendRequest and outlives its users.
ConnEndsByPeer(c) ==
  /\ task[c] = "driving" /\ c \notin dropped
  /\ task' = [task EXCEPT ![c] = "ended"]
  /\ UNCHANGED <<poolVars, reqVars, addr, abort, dropped, leaked>>

\* conn.await returns: the upstream closed, an I/O error, a body left unread,
\* or the Sender was dropped.
ConnEnds(c) ==
  /\ task[c] = "driving"
  /\ task' = [task EXCEPT ![c] = "ended"]
  /\ UNCHANGED <<poolVars, reqVars, addr, abort, dropped, leaked>>

\* The abort reaches the task while it is in conn.await: no clean-up.
TaskCancelled(c) ==
  /\ task[c] = "driving" /\ c \in abort
  /\ task' = [task EXCEPT ![c] = "cancelled"]
  /\ UNCHANGED <<poolVars, reqVars, addr, abort, dropped, leaked>>

\* Mutation: the task looks at the SkipMap and removes nothing from it.
EvictNothing(c) ==
  /\ task[c] = "ended"
  /\ task' = [task EXCEPT ![c] =
                IF addr[c] \in keys /\ idle[addr[c]] = {} THEN "sweeping" ELSE "done"]
  /\ UNCHANGED <<poolVars, reqVars, addr, abort, dropped, leaked>>

\* get_mut, remove(&peer_addr), is_empty: the entry of that key goes, whoever
\* put it there.
Evict(c) ==
  /\ task[c] = "ended"
  /\ LET a == addr[c] IN
     IF a \in keys
     THEN /\ idle' = [idle EXCEPT ![a] = @ \ SameKey(a, c)]
          /\ leaked' = leaked \cup SameKey(a, c)
          /\ task' = [task EXCEPT ![c] =
                        IF idle[a] \subseteq SameKey(a, c) THEN "sweeping" ELSE "done"]
     ELSE /\ task' = [task EXCEPT ![c] = "done"]
          /\ UNCHANGED <<idle, leaked>>
  /\ UNCHANGED <<keys, reqVars, addr, abort, dropped>>

\* POOL.remove(&addr), after the lock of Evict was released: the SkipMap goes
\* with whatever it holds by now.
RemoveKey(c) ==
  /\ task[c] = "sweeping"
  /\ keys' = keys \ {addr[c]}
  /\ idle' = [idle EXCEPT ![addr[c]] = {}]
  /\ leaked' = leaked \cup idle[addr[c]]
  /\ task' = [task EXCEPT ![c] = "done"]
  /\ UNCHANGED <<reqVars, addr, abort, dropped>>
-----------------------------------------------------------------------------
Http(r) ==
  \/ \E a \in Addr : Hit(r, a) \/ Miss(r, a)
  \/ Connect(r) \/ ConnectFails(r)
  \/ Respond(r)
  \/ CachedStale(r) \/ CachedError(r) \/ CachedCancelled(r)
  \/ NewFails(r)
  \/ BodyDrop(r) \/ IncomingDrop(r)

Monitor(c) == ConnEnds(c) \/ TaskCancelled(c) \/ Evict(c) \/ RemoveKey(c)

Next == (\E r \in Req : Http(r)) \/ (\E c \in Conn : Monitor(c))

Spec == Init /\ [][Next]_vars

(***************************************************************************)
(* hyper ends a connection whose Sender is gone, tokio delivers an abort,  *)
(* and a task that woke up runs to its end.  Nothing makes an upstream     *)
(* answer: http() has no timeout, so requests get no fairness.             *)
(***************************************************************************)
Fairness == \A c \in Conn :
  /\ WF_vars(c \in dropped /\ ConnEnds(c))
  /\ WF_vars(Evict(c))
  /\ WF_vars(RemoveKey(c))

FairSpec == Spec /\ Fairness
-----------------------------------------------------------------------------
(***************************************************************************)
(* Properties.                                                             *)
(***************************************************************************)
\* The fields of the pool, of the calls and of the tasks keep their types.
TypeOK ==
  /\ keys \subseteq Addr
  /\ idle \in [Addr -> SUBSET Conn]
  /\ pc \in [Req -> ReqState]
  /\ target \in [Req -> Addr \cup {None}]
  /\ conn \in [Req -> Conn \cup {None}]
  /\ unread \in [Req -> Conn \cup {None}]
  /\ task \in [Conn -> TaskState]
  /\ addr \in [Conn -> Addr \cup {None}]
  /\ abort \subseteq Conn /\ dropped \subseteq Conn /\ leaked \subseteq Conn

\* Who has the Sender of c: the requests that own it, the pool.
Users(c) == {r \in Req : conn[r] = c}
Homes(c) == {a \in Addr : c \in idle[a]}
Gone == dropped \cup leaked

\* ptr::read in cached_conn and ManuallyDrop::take in Body::drop never make a
\* second owner: a Sender is with one request, or under one address of the
\* pool, or dropped, or leaked, and once opened it is in one of these places.
ExclusiveOwner ==
  \A c \in Conn :
    /\ \A r, s \in Users(c) : r = s
    /\ \A a, b \in Homes(c) : a = b
    /\ Users(c) = {} \/ Homes(c) = {}
    /\ c \in Gone => Users(c) = {} /\ Homes(c) = {}
    /\ ~(c \in dropped /\ c \in leaked)
    /\ task[c] # "none" <=> Users(c) # {} \/ Homes(c) # {} \/ c \in Gone

\* A request for one upstream is never written to a connection of another,
\* and the pool files a connection under the upstream it leads to.
RightUpstream ==
  /\ \A r \in Req : conn[r] # None => addr[conn[r]] = target[r]
  /\ \A a \in Addr, c \in Conn : c \in idle[a] => addr[c] = a

\* The pool implements the lease of ConnLease.
Holders == [c \in Conn |-> Users(c)]
Pooled == UNION {idle[a] : a \in Addr}
Lease == INSTANCE ConnLease WITH users <- Holders, free <- Pooled, gone <- Gone
LeaseSpec == Lease!Spec

\* A connection whose Sender was dropped does not stay open: its task ends.
DroppedTornDown ==
  \A c \in Conn : c \in dropped ~> task[c] \in {"done", "cancelled"}

\* A connection that ends while it lies in the pool leaves the pool, even if no
\* request ever asks for it.
EndedLeavesPool ==
  \A c \in Conn :
    (task[c] = "ended" /\ Homes(c) # {}) ~> Homes(c) = {}

(***************************************************************************)
(* What the README of pooled_fetch says and the code does not do.          *)
(***************************************************************************)
\* README.md:34: a connection that fails is cleaned up from the pool: its task
\* does not make the pool lose another one, by its key (Evict) or with the
\* SkipMap (RemoveKey).
CleansUpItself ==
  [][\A c \in Conn : Monitor(c) => leaked' \ leaked \subseteq {c}]_vars

\* README.md:32: an upstream has a collection of connections, a LIFO queue: one
\* that is returned lies on top of those that were returned before.
ReturnAddsToPool ==
  [][\A r \in Req : BodyDrop(r) => \A a \in Addr : idle[a] \subseteq idle'[a]]_vars
=============================================================================
