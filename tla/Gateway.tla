------------------------------- MODULE Gateway -------------------------------
(***************************************************************************)
(* Proxy and PooledFetch composed: the attempts of proxy() are the calls   *)
(* of http(), which share the pool.  A task r of Proxy is the task r of    *)
(* PooledFetch.  Between the two is hyper's dispatcher: send_request hands *)
(* the request to the task that drives the connection, and the error of a  *)
(* request says whether that task had taken it.                            *)
(***************************************************************************)
EXTENDS Naturals

CONSTANTS Req,      \* tasks that call proxy(), each any number of times
          Site,     \* hosts in host_conf
          Len,      \* Len[s]: number of addresses of the upstream of s
          AddrList, \* AddrList[s]: its addr_li, a function on 0 .. Len[s] - 1
          MaxRetry, \* MaxRetry[s]: its max_retry
          Wrap,     \* usize is 0 .. Wrap - 1
          Addr,     \* upstream addresses
          Conn,     \* connections; each is opened at most once
          None      \* "no connection" and "no address"

ASSUME GatewayAssumption ==
  /\ Len \in [Site -> Nat] /\ MaxRetry \in [Site -> Nat]
  /\ \A s \in Site : AddrList[s] \in [0 .. Len[s] - 1 -> Addr]
  /\ Wrap \in Nat \ {0}
  /\ None \notin Conn /\ None \notin Addr
  /\ {"parent", "unknown"} \cap Site = {}

VARIABLES
  N, pc, site, loaded, start, pos, retry, tried, status,                    \* Proxy
  keys, idle, fetch, target, conn, unread,                                  \* PooledFetch
  task, addr, abort, dropped, leaked,
  written, \* written[r]: the driver took the request that r awaits
  copies   \* copies[r]: how often a driver took this request of r (history)

proxyVars == <<N, pc, site, loaded, start, pos, retry, tried, status>>
poolVars == <<keys, idle, fetch, target, conn, unread, task, addr, abort, dropped, leaked>>
wireVars == <<written, copies>>
vars == <<proxyVars, poolVars, wireVars>>

Front == INSTANCE Proxy
Pool == INSTANCE PooledFetch WITH pc <- fetch

\* upstream_addr_li[pos]
UpstreamAddr(r) == AddrList[site[r]][pos[r]]

Init ==
  /\ Front!Init /\ Pool!Init
  /\ written = [r \in Req |-> FALSE]
  /\ copies = [r \in Req |-> 0]
-----------------------------------------------------------------------------
\* proxy() before its first attempt; a task begins a call when it is done with the
\* one before.
Prepare(r) ==
  /\ fetch[r] = "idle"
  /\ \/ \E s \in Site \cup Front!NoSite : Front!Receive(r, s)
     \/ Front!Collect(r) \/ Front!CollectFails(r) \/ Front!Compute(r)
  /\ UNCHANGED <<poolVars, wireVars>>

\* Mutation: a retry goes to the address of the first attempt again.
LookupAtStart(r) ==
  /\ pc[r] = "send"
  /\ LET a == AddrList[site[r]][start[r]] IN Pool!Hit(r, a) \/ Pool!Miss(r, a)
  /\ UNCHANGED <<proxyVars, wireVars>>

\* An attempt calls http(), which looks for an idle connection.
Lookup(r) ==
  /\ pc[r] = "send"
  /\ LET a == UpstreamAddr(r) IN Pool!Hit(r, a) \/ Pool!Miss(r, a)
  /\ UNCHANGED <<proxyVars, wireVars>>

Dial(r) ==
  /\ Pool!Connect(r)
  /\ UNCHANGED <<proxyVars, wireVars>>

\* The driver takes the request from its channel; from here on the upstream may
\* get it.
Write(r) ==
  /\ fetch[r] \in {"cached", "new"} /\ task[conn[r]] = "driving" /\ ~written[r]
  /\ Pool!Vacant(conn[r])
  /\ written' = [written EXCEPT ![r] = TRUE]
  /\ copies' = [copies EXCEPT ![r] = @ + 1]
  /\ UNCHANGED <<proxyVars, poolVars>>

\* Mutation: what the connection got as an answer to the request before.
ReplyUnasked(r) ==
  /\ Pool!Respond(r) /\ Front!Answer(r)
  /\ written' = [written EXCEPT ![r] = FALSE]
  /\ UNCHANGED copies

\* http() returns Ok: the response of the upstream is that of the client.
Reply(r) ==
  /\ written[r]
  /\ Pool!Respond(r) /\ Front!Answer(r)
  /\ written' = [written EXCEPT ![r] = FALSE]
  /\ UNCHANGED copies

\* Mutation: any error of a pooled connection leads to a new one.
StaleAny(r) ==
  /\ Pool!CachedStale(r)
  /\ written' = [written EXCEPT ![r] = FALSE]
  /\ UNCHANGED <<proxyVars, copies>>

\* Mutation: a stale connection sends the call back to the pool for another one.
StaleLooksAgain(r) ==
  /\ ~written[r]
  /\ Pool!CachedCancelled(r)
  /\ UNCHANGED <<proxyVars, wireVars>>

\* is_canceled or is_closed: the driver did not take the request, which goes to
\* a new connection within the same attempt.
Stale(r) ==
  /\ ~written[r]
  /\ Pool!CachedStale(r)
  /\ UNCHANGED <<proxyVars, wireVars>>

\* http() returns Err: an attempt failed.
AttemptFails(r) ==
  /\ pc[r] = "send"
  /\ Pool!ConnectFails(r) \/ Pool!CachedError(r) \/ Pool!NewFails(r)
  /\ Front!Retry(r) \/ Front!GiveUp(r)
  /\ written' = [written EXCEPT ![r] = FALSE]
  /\ UNCHANGED copies

\* Mutation: a client that leaves does not end the call of http().
LeaveDetached(r) ==
  /\ Front!Finish(r)
  /\ IF fetch[r] = "body" THEN Pool!BodyDrop(r) ELSE UNCHANGED poolVars
  /\ written' = [written EXCEPT ![r] = FALSE]
  /\ copies' = [copies EXCEPT ![r] = 0]

\* The response was handed on, with the Body in it if there is one, or the
\* client is gone and the future is dropped at an await.
Leave(r) ==
  /\ Front!Finish(r)
  /\ \/ pc[r] # "send" /\ fetch[r] = "idle" /\ UNCHANGED poolVars
     \/ Pool!ConnectFails(r) \/ Pool!CachedCancelled(r) \/ Pool!NewFails(r)
     \/ Pool!BodyDrop(r)
  /\ written' = [written EXCEPT ![r] = FALSE]
  /\ copies' = [copies EXCEPT ![r] = 0]

\* The rest of a response whose connection is in the pool again.
DropRest(r) == Pool!IncomingDrop(r) /\ UNCHANGED <<proxyVars, wireVars>>

\* The task of a connection.
Monitor(c) == Pool!Monitor(c) /\ UNCHANGED <<proxyVars, wireVars>>

Serve(r) ==
  \/ Prepare(r) \/ Lookup(r) \/ Dial(r) \/ Write(r) \/ Reply(r) \/ Stale(r)
  \/ AttemptFails(r) \/ Leave(r) \/ DropRest(r)

Next == (\E r \in Req : Serve(r)) \/ (\E c \in Conn : Monitor(c))

Spec == Init /\ [][Next]_vars
-----------------------------------------------------------------------------
(***************************************************************************)
(* Properties.                                                             *)
(***************************************************************************)
\* The parts keep their types.
TypeOK ==
  /\ Front!TypeOK /\ Pool!TypeOK
  /\ written \in [Req -> BOOLEAN] /\ copies \in [Req -> Nat]

\* An attempt puts its request on the wire once at most, with the new connection
\* that follows a stale one: each copy is that of a failed attempt, but for the
\* one that is under way or answered, and a POST is executed max_retry + 1 times
\* at worst.
OneCopyPerAttempt ==
  \A r \in Req :
    copies[r] <= retry[r] + (IF written[r] \/ status[r] = "upstream" THEN 1 ELSE 0)

\* The connection that a request uses leads to the address whose turn it is, as
\* the racy N and the failed attempts made it, from its lookup to the end of the
\* response.
SentWhereTried ==
  \A r \in Req : conn[r] # None =>
    /\ addr[conn[r]] = UpstreamAddr(r)
    /\ pos[r] \in tried[r]

\* A request owns a connection only while it awaits an answer on it or hands on
\* the body of one; a client that was refused or has left holds none, and the
\* response of an upstream keeps its own until it is over.
HeldForClient ==
  \A r \in Req :
    /\ conn[r] # None => pc[r] = "send" \/ (pc[r] = "done" /\ status[r] = "upstream")
    /\ pc[r] = "done" /\ status[r] = "upstream" => fetch[r] = "body"

\* How far a request is from its end: the failures that its site still allows,
\* and the steps of one attempt at worst (a pooled connection that is stale, then
\* a new one).
StepsOfAttempt(r) ==
  CASE fetch[r] = "idle"    -> 7
    [] fetch[r] = "cached"  -> IF written[r] THEN 5 ELSE 6
    [] fetch[r] = "connect" -> 4
    [] fetch[r] = "new"     -> IF written[r] THEN 2 ELSE 3
    [] OTHER                -> 1
Left(r) ==
  CASE pc[r] = "idle" -> 0
    [] pc[r] = "done" -> 1
    [] pc[r] = "send" -> 8 * (MaxRetry[site[r]] - retry[r]) + StepsOfAttempt(r)
    [] pc[r] = "pick" -> 8 * MaxRetry[site[r]] + 8
    [] pc[r] = "store" -> 8 * MaxRetry[site[r]] + 9
    [] pc[r] = "load" -> 8 * MaxRetry[site[r]] + 10
    [] OTHER          -> 8 * MaxRetry[site[r]] + 11

\* Each step of a request brings it nearer to its end, and no step of the other
\* requests, or of the pool that it shares with them, takes it back: it meets
\* stale connections and dead addresses only so many times.
RequestsRunOut ==
  [][\A r \in Req : pc[r] # "idle" =>
       Left(r)' < Left(r) \/ UNCHANGED <<pc[r], site[r], retry[r], fetch[r], written[r]>>]_vars

\* For its clients the gateway is a Delivery: bounded copies, and answers only
\* to requests that went out.
Phase == [r \in Req |->
  CASE pc[r] = "idle" -> "idle"
    [] pc[r] = "done" -> IF status[r] = "upstream" THEN "answered" ELSE "refused"
    [] OTHER -> "open"]
Allowed == [r \in Req |-> IF site[r] \in Site THEN MaxRetry[site[r]] + 1 ELSE 0]
Promise == INSTANCE Delivery WITH
  Limits <- {0} \cup {MaxRetry[s] + 1 : s \in Site}, state <- Phase, allowed <- Allowed
DeliverySpec == Promise!Spec
=============================================================================
