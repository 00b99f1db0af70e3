---------------------------- MODULE Gateway_proofs ----------------------------
(***************************************************************************)
(* The composition inherits the invariants of its parts, which are proved  *)
(* of each on its own, and adds what relates them.                         *)
(***************************************************************************)
EXTENDS Gateway, TLAPS

FP == INSTANCE Proxy_proofs
PP == INSTANCE PooledFetch_proofs WITH pc <- fetch

-----------------------------------------------------------------------------
\* What the parts assume of their constants.
LEMMA PartsAssumed == FP!ProxyAssumption /\ FP!SiteAssumption /\ PP!NoneAssumption
  BY GatewayAssumption DEF FP!ProxyAssumption, FP!SiteAssumption, FP!NoSite, PP!NoneAssumption

\* The instances that Gateway and the theorems speak of are the same.
LEMMA FrontSame ==
  ASSUME NEW r \in Req
  PROVE  /\ Front!NoSite = FP!NoSite
         /\ \A s \in Site \cup FP!NoSite : Front!Receive(r, s) => FP!Receive(r, s)
         /\ Front!Collect(r) => FP!Collect(r)
         /\ Front!CollectFails(r) => FP!CollectFails(r)
         /\ Front!Compute(r) => FP!Compute(r)
         /\ Front!Answer(r) => FP!Answer(r)
         /\ Front!Retry(r) => FP!Retry(r)
         /\ Front!GiveUp(r) => FP!GiveUp(r)
         /\ Front!Finish(r) => FP!Finish(r)
<1>1. Front!NoSite = FP!NoSite
  BY DEF Front!NoSite, FP!NoSite
<1>2. \A s \in Site \cup FP!NoSite : Front!Receive(r, s) => FP!Receive(r, s)
  BY DEF Front!Receive, FP!Receive, Front!Outcome, FP!Outcome
<1>3. Front!Collect(r) => FP!Collect(r)
  BY DEF Front!Collect, FP!Collect, Front!request, FP!request
<1>4. Front!CollectFails(r) => FP!CollectFails(r)
  BY DEF Front!CollectFails, FP!CollectFails
<1>5. Front!Compute(r) => FP!Compute(r)
  BY DEF Front!Compute, FP!Compute, Front!Load, FP!Load, Front!Store, FP!Store, Front!Pick, FP!Pick,
         Front!Sum, FP!Sum, Front!request, FP!request
<1>6. Front!Answer(r) => FP!Answer(r)
  BY DEF Front!Answer, FP!Answer
<1>7. Front!Retry(r) => FP!Retry(r)
  BY DEF Front!Retry, FP!Retry
<1>8. Front!GiveUp(r) => FP!GiveUp(r)
  BY DEF Front!GiveUp, FP!GiveUp
<1>9. Front!Finish(r) => FP!Finish(r)
  BY DEF Front!Finish, FP!Finish
<1> QED
  BY <1>1, <1>2, <1>3, <1>4, <1>5, <1>6, <1>7, <1>8, <1>9

LEMMA PoolSame ==
  ASSUME NEW r \in Req
  PROVE  /\ \A a \in Addr : (Pool!Hit(r, a) => PP!Hit(r, a)) /\ (Pool!Miss(r, a) => PP!Miss(r, a))
         /\ Pool!Connect(r) => PP!Connect(r)
         /\ Pool!ConnectFails(r) => PP!ConnectFails(r)
         /\ Pool!Respond(r) => PP!Respond(r)
         /\ Pool!CachedStale(r) => PP!CachedStale(r)
         /\ Pool!CachedError(r) => PP!CachedError(r)
         /\ Pool!CachedCancelled(r) => PP!CachedCancelled(r)
         /\ Pool!NewFails(r) => PP!NewFails(r)
         /\ Pool!BodyDrop(r) => PP!BodyDrop(r)
         /\ Pool!IncomingDrop(r) => PP!IncomingDrop(r)
<1>1. \A a \in Addr : (Pool!Hit(r, a) => PP!Hit(r, a)) /\ (Pool!Miss(r, a) => PP!Miss(r, a))
  BY DEF Pool!Hit, PP!Hit, Pool!Miss, PP!Miss, Pool!poolVars, PP!poolVars
<1>2. Pool!Connect(r) => PP!Connect(r)
  BY DEF Pool!Connect, PP!Connect, Pool!poolVars, PP!poolVars
<1>3. /\ Pool!ConnectFails(r) => PP!ConnectFails(r)
      /\ Pool!CachedError(r) => PP!CachedError(r)
      /\ Pool!CachedCancelled(r) => PP!CachedCancelled(r)
      /\ Pool!NewFails(r) => PP!NewFails(r)
  BY DEF Pool!ConnectFails, PP!ConnectFails, Pool!CachedError, PP!CachedError,
         Pool!CachedCancelled, PP!CachedCancelled, Pool!NewFails, PP!NewFails,
         Pool!Finish, PP!Finish, Pool!poolVars, PP!poolVars
<1>4. (Pool!Respond(r) => PP!Respond(r)) /\ (Pool!CachedStale(r) => PP!CachedStale(r))
  BY DEF Pool!Respond, PP!Respond, Pool!CachedStale, PP!CachedStale,
         Pool!Vacant, PP!Vacant, Pool!poolVars, PP!poolVars
<1>5. Pool!BodyDrop(r) => PP!BodyDrop(r)
  BY DEF Pool!BodyDrop, PP!BodyDrop, Pool!Return, PP!Return, Pool!Finish, PP!Finish,
         Pool!FinishUnread, PP!FinishUnread, Pool!SameKey, PP!SameKey, Pool!PeerAddr, PP!PeerAddr
<1>6. Pool!IncomingDrop(r) => PP!IncomingDrop(r)
  BY DEF Pool!IncomingDrop, PP!IncomingDrop, Pool!poolVars, PP!poolVars
<1> QED
  BY <1>1, <1>2, <1>3, <1>4, <1>5, <1>6

LEMMA MonitorSame == \A c \in Conn : Pool!Monitor(c) => PP!Monitor(c)
  BY DEF Pool!Monitor, PP!Monitor, Pool!ConnEnds, PP!ConnEnds, Pool!TaskCancelled, PP!TaskCancelled,
         Pool!Evict, PP!Evict, Pool!RemoveKey, PP!RemoveKey, Pool!SameKey, PP!SameKey,
         Pool!PeerAddr, PP!PeerAddr, Pool!poolVars, PP!poolVars, Pool!reqVars, PP!reqVars

\* A step of the composition is a step of proxy() or leaves it alone.
LEMMA FrontSteps == [Next]_vars => [FP!Next]_(FP!vars)
<1> SUFFICES ASSUME [Next]_vars PROVE FP!Next \/ UNCHANGED FP!vars
  OBVIOUS
<1>1. UNCHANGED proxyVars => UNCHANGED FP!vars
  BY DEF proxyVars, FP!vars
<1>2. ASSUME NEW r \in Req, Serve(r) PROVE FP!Proxied(r) \/ UNCHANGED FP!vars
  <2>1. ASSUME Prepare(r) PROVE FP!Proxied(r)
    BY <2>1, FrontSame DEF Prepare, FP!Proxied
  <2>2. ASSUME Lookup(r) \/ Dial(r) \/ Write(r) \/ Stale(r) \/ DropRest(r) PROVE UNCHANGED proxyVars
    BY <2>2 DEF Lookup, Dial, Write, Stale, DropRest
  <2>3. ASSUME Reply(r) \/ AttemptFails(r) \/ Leave(r) PROVE FP!Proxied(r)
    BY <2>3, FrontSame DEF Reply, AttemptFails, Leave, FP!Proxied, FP!Fetched
  <2> QED
    BY <1>1, <1>2, <2>1, <2>2, <2>3 DEF Serve
<1>3. ASSUME NEW c \in Conn, Monitor(c) PROVE UNCHANGED proxyVars
  BY <1>3 DEF Monitor
<1> QED
  BY <1>1, <1>2, <1>3 DEF Next, vars, FP!Next

\* A step of the composition is a step of the pool or leaves it alone.
LEMMA PoolSteps == FP!IInv /\ [Next]_vars => [PP!Next]_(PP!vars)
<1> SUFFICES ASSUME FP!IInv, [Next]_vars PROVE PP!Next \/ UNCHANGED PP!vars
  OBVIOUS
<1>1. UNCHANGED poolVars => UNCHANGED PP!vars
  BY DEF poolVars, PP!vars
<1>2. ASSUME NEW r \in Req, Serve(r) PROVE PP!Next \/ UNCHANGED PP!vars
  <2>1. ASSUME Prepare(r) \/ Write(r) PROVE UNCHANGED poolVars
    BY <2>1 DEF Prepare, Write
  <2>2. ASSUME Lookup(r) PROVE \E a \in Addr : PP!Hit(r, a) \/ PP!Miss(r, a)
    <3>1. UpstreamAddr(r) \in Addr
      BY <2>2, GatewayAssumption DEF Lookup, UpstreamAddr, FP!IInv, FP!TypeOK
    <3> QED
      BY <2>2, <3>1, PoolSame DEF Lookup
  <2>3. ASSUME Dial(r) \/ Reply(r) \/ Stale(r) \/ AttemptFails(r) \/ Leave(r) \/ DropRest(r)
        PROVE  UNCHANGED poolVars \/ PP!Http(r)
    BY <2>3, PoolSame DEF Dial, Reply, Stale, AttemptFails, Leave, DropRest, PP!Http
  <2> QED
    BY <1>1, <1>2, <2>1, <2>2, <2>3 DEF Serve, PP!Next, PP!Http
<1>3. ASSUME NEW c \in Conn, Monitor(c) PROVE PP!Next
  BY <1>3, MonitorSame DEF Monitor, PP!Next
<1> QED
  BY <1>1, <1>2, <1>3 DEF Next, vars

LEMMA InitParts == Init => FP!Init /\ PP!Init
  BY DEF Init, Front!Init, FP!Init, Pool!Init, PP!Init

\* The composition refines each of its parts: seen from proxy() the pool and the
\* connections are one of the ways in which http() may behave, and seen from the
\* pool proxy() is one of its callers.
THEOREM RefinesParts == Spec => FP!Spec /\ PP!Spec
<1>1. FP!Spec => []FP!IInv
  BY PartsAssumed, FP!Invariance
<1>2. Spec => FP!Spec
  BY InitParts, FrontSteps, PTL DEF Spec, FP!Spec
<1>3. Spec /\ []FP!IInv => PP!Spec
  BY InitParts, PoolSteps, PTL DEF Spec, PP!Spec
<1> QED
  BY <1>1, <1>2, <1>3, PTL

\* Hence the invariants proved of proxy() and of the pool hold here.
LEMMA Parts == Spec => [](FP!IInv /\ PP!IInv)
<1>1. FP!Spec => []FP!IInv
  BY PartsAssumed, FP!Invariance
<1>2. PP!Spec => []PP!IInv
  BY PartsAssumed, PP!Invariance
<1> QED
  BY <1>1, <1>2, RefinesParts, PTL

\* What is proved of the retries and of the pool on their own holds when the one
\* runs over the other: a request fails only after each address of its site was
\* tried, if its retries allow that, and a connection is leased to one at a time.
THEOREM PartsKeepTheirPromise == Spec => []FP!FailedEverywhere /\ PP!LeaseSpec
<1>1. FP!Spec => []FP!FailedEverywhere
  BY PartsAssumed, FP!FailsLast
<1>2. PP!Spec => PP!LeaseSpec
  BY PartsAssumed, PP!Implements
<1> QED
  BY <1>1, <1>2, RefinesParts, PTL

-----------------------------------------------------------------------------
\* A call of http() is under way while an attempt is, and its Body is there while
\* the response of an upstream is handed on.
Coupled ==
  \A r \in Req :
    /\ fetch[r] \in {"cached", "connect", "new"} => pc[r] = "send"
    /\ fetch[r] = "body" <=> pc[r] = "done" /\ status[r] = "upstream"
    /\ fetch[r] = "dropping" => pc[r] = "idle"
    /\ written[r] => fetch[r] \in {"cached", "new"}

\* A call goes to the address whose turn it is.
Aimed ==
  \A r \in Req :
    /\ target[r] # None => target[r] = UpstreamAddr(r)
    /\ pc[r] = "send" \/ status[r] = "upstream" => pos[r] \in tried[r]

\* Copies go out with attempts only, and one is out before an answer comes.
Counted ==
  \A r \in Req :
    /\ pc[r] \notin {"send", "done"} => copies[r] = 0
    /\ written[r] \/ status[r] = "upstream" => copies[r] > 0

Wires == written \in [Req -> BOOLEAN] /\ copies \in [Req -> Nat]

Own == Wires /\ Coupled /\ Aimed /\ Counted /\ OneCopyPerAttempt

\* OneCopyPerAttempt is inductive together with where a call is and whom it is
\* for; what the parts guarantee is assumed before and after each step.
LEMMA InitOwn == Init => Own
  BY DEF Init, Front!Init, Pool!Init, Own, Wires, Coupled, Aimed, Counted, OneCopyPerAttempt

LEMMA StepOwn == FP!IInv /\ PP!IInv /\ Own /\ [Next]_vars => Own'
<1> SUFFICES ASSUME FP!IInv, PP!IInv, Own, [Next]_vars PROVE Own'
  OBVIOUS
<1>0. /\ pc \in [Req -> FP!ReqState] /\ pos \in [Req -> Nat] /\ retry \in [Req -> Nat]
      /\ tried \in [Req -> SUBSET Nat] /\ status \in [Req -> FP!Status]
      /\ start \in [Req -> Nat] /\ DOMAIN site = Req
      /\ fetch \in [Req -> PP!ReqState] /\ target \in [Req -> Addr \cup {None}]
      /\ \A r \in Req : fetch[r] \in {"idle", "dropping"} <=> target[r] = None
      /\ \A r \in Req : pc[r] # "done" => status[r] = "none"
      /\ \A r \in Req : pc[r] \in {"idle", "collect", "load", "store", "pick"} => retry[r] = 0
  BY DEF FP!IInv, FP!TypeOK, FP!Unanswered, FP!Unsent, PP!IInv, PP!TypeOK, PP!Bookkeeping
<1> USE DEF Own, Wires, Coupled, Aimed, Counted, OneCopyPerAttempt, UpstreamAddr, FP!ReqState, FP!Status, PP!ReqState
<1>1. ASSUME NEW r \in Req, Prepare(r) PROVE Own'
  <2>1. ASSUME NEW s \in Site \cup Front!NoSite, Front!Receive(r, s) PROVE Own'
    <3>1. /\ pc[r] = "idle" /\ copies[r] = 0 /\ target[r] = None /\ fetch[r] = "idle"
          /\ ~written[r]
      BY <1>0, <1>1, <2>1 DEF Prepare, Front!Receive
    <3>2. status'[r] \in {"301", "404", "500", "none"}
      BY <1>0, <2>1 DEF Front!Receive, Front!Outcome, Front!NoSite
    <3>3. pc'[r] \in {"collect", "done"}
      BY <1>0, <2>1 DEF Front!Receive
    <3>4. \A q \in Req \ {r} : pc'[q] = pc[q] /\ status'[q] = status[q] /\ site'[q] = site[q]
      BY <1>0, <2>1 DEF Front!Receive
    <3>5. UNCHANGED <<fetch, target, written, copies, pos, retry, tried>>
      BY <1>1, <2>1 DEF Prepare, Front!Receive, poolVars, wireVars
    <3> QED
      BY <1>0, <3>1, <3>2, <3>3, <3>4, <3>5
  <2>2. CASE Front!Collect(r)
    BY <1>0, <1>1, <2>2 DEF Prepare, Front!Collect, Front!request, poolVars, wireVars
  <2>3. CASE Front!CollectFails(r)
    BY <1>0, <1>1, <2>3 DEF Prepare, Front!CollectFails, poolVars, wireVars
  <2>4. CASE Front!Load(r)
    BY <1>0, <1>1, <2>4 DEF Prepare, Front!Load, poolVars, wireVars
  <2>5. CASE Front!Store(r)
    BY <1>0, <1>1, <2>5 DEF Prepare, Front!Store, Front!request, poolVars, wireVars
  <2>6. CASE Front!Pick(r)
    BY <1>0, <1>1, <2>6 DEF Prepare, Front!Pick, poolVars, wireVars
  <2> QED
    BY <1>1, <2>1, <2>2, <2>3, <2>4, <2>5, <2>6 DEF Prepare, Front!Compute
<1>2. ASSUME NEW r \in Req, Lookup(r) PROVE Own'
  BY <1>0, <1>2 DEF Lookup, Pool!Hit, Pool!Miss, proxyVars, wireVars
<1>3. ASSUME NEW r \in Req, Dial(r) PROVE Own'
  BY <1>0, <1>3 DEF Dial, Pool!Connect, proxyVars, wireVars
<1>4. ASSUME NEW r \in Req, Write(r) PROVE Own'
  BY <1>0, <1>4 DEF Write, proxyVars, poolVars
<1>5. ASSUME NEW r \in Req, Reply(r) PROVE Own'
  BY <1>0, <1>5 DEF Reply, Pool!Respond, Front!Answer
<1>6. ASSUME NEW r \in Req, Stale(r) PROVE Own'
  BY <1>0, <1>6 DEF Stale, Pool!CachedStale, proxyVars, wireVars
<1>7. ASSUME NEW r \in Req, AttemptFails(r) PROVE Own'
  <2>1. Pool!Finish(r) /\ fetch[r] \in {"cached", "connect", "new"}
    BY <1>7 DEF AttemptFails, Pool!ConnectFails, Pool!CachedError, Pool!NewFails
  <2>2. CASE Front!Retry(r)
    BY <1>0, <1>7, <2>1, <2>2 DEF AttemptFails, Pool!Finish, Front!Retry
  <2>3. CASE Front!GiveUp(r)
    BY <1>0, <1>7, <2>1, <2>3 DEF AttemptFails, Pool!Finish, Front!GiveUp
  <2> QED
    BY <1>7, <2>2, <2>3 DEF AttemptFails
<1>8. ASSUME NEW r \in Req, Leave(r) PROVE Own'
  <2>1. CASE pc[r] # "send" /\ fetch[r] = "idle" /\ UNCHANGED poolVars
    BY <1>0, <1>8, <2>1 DEF Leave, Front!Finish, poolVars
  <2>2. CASE Pool!Finish(r)
    BY <1>0, <1>8, <2>2 DEF Leave, Front!Finish, Pool!Finish
  <2>3. CASE Pool!FinishUnread(r)
    BY <1>0, <1>8, <2>3 DEF Leave, Front!Finish, Pool!FinishUnread
  <2> QED
    BY <1>8, <2>1, <2>2, <2>3
    DEF Leave, Pool!ConnectFails, Pool!CachedCancelled, Pool!NewFails, Pool!BodyDrop
<1>11. ASSUME NEW r \in Req, DropRest(r) PROVE Own'
  BY <1>0, <1>11 DEF DropRest, Pool!IncomingDrop, proxyVars, wireVars
<1>9. ASSUME NEW c \in Conn, Monitor(c) PROVE Own'
  BY <1>0, <1>9
  DEF Monitor, Pool!Monitor, Pool!ConnEnds, Pool!TaskCancelled, Pool!Evict, Pool!RemoveKey, Pool!reqVars,
      proxyVars, wireVars
<1>10. CASE UNCHANGED vars
  BY <1>0, <1>10 DEF vars, proxyVars, poolVars, wireVars
<1> QED
  BY <1>1, <1>2, <1>3, <1>4, <1>5, <1>6, <1>7, <1>8, <1>9, <1>10, <1>11 DEF Next, Serve

-----------------------------------------------------------------------------
LEMMA Invariance == Spec => [](FP!IInv /\ PP!IInv /\ Own)
  BY InitOwn, StepOwn, Parts, PTL DEF Spec

\* The parts keep their types.
THEOREM TypeSafe == Spec => []TypeOK
<1>1. FP!IInv => Front!TypeOK
  BY DEF FP!IInv, FP!TypeOK, Front!TypeOK, FP!ReqState, Front!ReqState, FP!Status, Front!Status,
         FP!NoSite, Front!NoSite
<1>2. PP!IInv => Pool!TypeOK
  BY DEF PP!IInv, PP!TypeOK, Pool!TypeOK, PP!ReqState, Pool!ReqState, PP!TaskState, Pool!TaskState
<1>3. FP!IInv /\ PP!IInv /\ Own => TypeOK
  BY <1>1, <1>2 DEF TypeOK, Own, Wires
<1> QED
  BY <1>3, Invariance, PTL

\* For any number of clients, addresses, retries and connections: an attempt puts
\* its request on the wire once at most.
THEOREM CopiesBounded == Spec => []OneCopyPerAttempt
<1>1. Own => OneCopyPerAttempt
  BY DEF Own
<1> QED
  BY <1>1, Invariance, PTL

\* A request uses a connection to the address whose turn it is.
THEOREM SentRight == Spec => []SentWhereTried
<1>1. FP!IInv /\ PP!IInv /\ Own => SentWhereTried
  <2> SUFFICES ASSUME FP!IInv, PP!IInv, Own, NEW r \in Req, conn[r] # None
               PROVE  addr[conn[r]] = UpstreamAddr(r) /\ pos[r] \in tried[r]
    BY DEF SentWhereTried
  <2>1. addr[conn[r]] = target[r] /\ fetch[r] \in {"cached", "new", "body"} /\ target[r] # None
    BY DEF PP!IInv, PP!RightUpstream, PP!Bookkeeping
  <2> QED
    BY <2>1 DEF Own, Aimed, Coupled
<1> QED
  BY <1>1, Invariance, PTL

\* Clients that were refused or have left hold no connection.
THEOREM NoneHeld == Spec => []HeldForClient
<1>1. PP!IInv /\ Own => HeldForClient
  BY DEF PP!IInv, PP!Bookkeeping, Own, Coupled, HeldForClient
<1> QED
  BY <1>1, Invariance, PTL

-----------------------------------------------------------------------------
\* Each step is a step of Delivery: what it does to the phase of r, and that it
\* leaves the other requests alone.
LEMMA InitPromise == Init => Promise!Init
  BY GatewayAssumption DEF Init, Front!Init, Promise!Init, Phase, Allowed

LEMMA StepPromise == FP!IInv /\ PP!IInv /\ Own /\ [Next]_vars => [Promise!Next]_(Promise!vars)
<1> SUFFICES ASSUME FP!IInv, PP!IInv, Own, [Next]_vars
             PROVE  Promise!Next \/ UNCHANGED <<Phase, Allowed, copies>>
  BY DEF Promise!vars
<1>0. /\ pc \in [Req -> FP!ReqState] /\ status \in [Req -> FP!Status]
      /\ site \in [Req -> Site \cup FP!NoSite] /\ copies \in [Req -> Nat]
      /\ \A r \in Req : pc[r] # "done" => status[r] = "none"
  BY DEF FP!IInv, FP!TypeOK, FP!Unanswered, Own, Wires
<1> USE DEF Phase, Allowed
<1>1. ASSUME NEW r \in Req, Prepare(r) PROVE Promise!Begin(r) \/ Promise!Refuse(r) \/ UNCHANGED <<Phase, Allowed, copies>>
  <2>1. ASSUME NEW s \in Site \cup Front!NoSite, Front!Receive(r, s) PROVE Promise!Begin(r)
    <3>1. pc[r] = "idle" /\ pc' = [pc EXCEPT ![r] = pc'[r]] /\ pc'[r] \in {"collect", "done"}
      BY <1>0, <2>1 DEF Front!Receive
    <3>2. /\ status'[r] # "upstream" /\ \A q \in Req \ {r} : status'[q] = status[q]
          /\ site' = [site EXCEPT ![r] = s] /\ UNCHANGED copies
      <4>1. status'[r] \in {"301", "404", "500", "none"}
        BY <1>0, <2>1 DEF Front!Receive, Front!Outcome, Front!NoSite
      <4>2. \A q \in Req \ {r} : status'[q] = status[q]
        BY <1>0, <2>1 DEF Front!Receive
      <4>3. site' = [site EXCEPT ![r] = s] /\ UNCHANGED copies
        BY <1>1, <2>1 DEF Prepare, Front!Receive, wireVars
      <4> QED
        BY <4>1, <4>2, <4>3
    <3>3. Phase[r] = "idle" /\ \E p \in {"open", "refused"} : Phase' = [Phase EXCEPT ![r] = p]
      <4>1. Phase[r] = "idle" /\ Phase'[r] \in {"open", "refused"}
        BY <1>0, <3>1, <3>2
      <4>2. \A q \in Req \ {r} : pc'[q] = pc[q] /\ status'[q] = status[q]
        BY <1>0, <3>1, <3>2
      <4>3. \A q \in Req \ {r} : Phase'[q] = Phase[q]
        BY <4>2
      <4>4. Phase' = [Phase EXCEPT ![r] = Phase'[r]]
        BY <4>3
      <4> QED
        BY <4>1, <4>4
    <3>4. \E n \in {0} \cup {MaxRetry[t] + 1 : t \in Site} : Allowed' = [Allowed EXCEPT ![r] = n]
      <4> DEFINE n == IF s \in Site THEN MaxRetry[s] + 1 ELSE 0
      <4>1. Allowed' = [Allowed EXCEPT ![r] = n]
        BY <1>0, <3>2
      <4> QED
        BY <4>1
    <3> QED
      BY <3>2, <3>3, <3>4 DEF Promise!Begin
  <2>2. CASE Front!Collect(r) \/ Front!Compute(r)
    BY <1>0, <1>1, <2>2
    DEF Prepare, Front!Collect, Front!Compute, Front!Load, Front!Store, Front!Pick, Front!request, wireVars
  <2>3. CASE Front!CollectFails(r)
    BY <1>0, <1>1, <2>3 DEF Prepare, Front!CollectFails, wireVars, Promise!Refuse
  <2> QED
    BY <1>1, <2>1, <2>2, <2>3 DEF Prepare
<1>2. ASSUME NEW r \in Req, Lookup(r) \/ Dial(r) \/ Stale(r) \/ DropRest(r)
      PROVE UNCHANGED <<Phase, Allowed, copies>>
  BY <1>2 DEF Lookup, Dial, Stale, DropRest, proxyVars, wireVars
<1>3. ASSUME NEW r \in Req, Write(r) PROVE Promise!Copy(r)
  <2>1. pc[r] = "send" /\ status[r] = "none" /\ site[r] \in Site
    BY <1>0, <1>3 DEF Write, Own, Coupled, FP!IInv, FP!TypeOK
  <2>2. copies[r] <= retry[r] /\ retry[r] <= MaxRetry[site[r]]
    BY <1>3, <2>1 DEF Write, Own, OneCopyPerAttempt, FP!IInv, FP!AttemptsBounded, FP!TypeOK
  <2>3. copies[r] < MaxRetry[site[r]] + 1
    BY <1>0, <2>1, <2>2, GatewayAssumption DEF FP!IInv, FP!TypeOK
  <2> QED
    BY <1>3, <2>1, <2>3 DEF Write, proxyVars, Promise!Copy
<1>4. ASSUME NEW r \in Req, Reply(r) PROVE Promise!Answer(r)
  BY <1>0, <1>4 DEF Reply, Front!Answer, Promise!Answer, Own, Counted
<1>5. ASSUME NEW r \in Req, AttemptFails(r) PROVE Promise!Refuse(r) \/ UNCHANGED <<Phase, Allowed, copies>>
  BY <1>0, <1>5 DEF AttemptFails, Front!Retry, Front!GiveUp, Promise!Refuse
<1>6. ASSUME NEW r \in Req, Leave(r) PROVE Promise!End(r)
  BY <1>0, <1>6, GatewayAssumption DEF Leave, Front!Finish, Promise!End
<1>7. ASSUME NEW c \in Conn, Monitor(c) PROVE UNCHANGED <<Phase, Allowed, copies>>
  BY <1>7 DEF Monitor, proxyVars, wireVars
<1>8. CASE UNCHANGED vars
  BY <1>8 DEF vars, proxyVars, wireVars
<1> QED
  BY <1>1, <1>2, <1>3, <1>4, <1>5, <1>6, <1>7, <1>8 DEF Next, Serve, Promise!Next

\* The gateway implements Delivery.
THEOREM Implements == Spec => DeliverySpec
  BY InitPromise, StepPromise, Invariance, PTL DEF Spec, DeliverySpec, Promise!Spec
-----------------------------------------------------------------------------
(***************************************************************************)
(* A request comes to its end.  That each of its steps is taken is up to   *)
(* tokio and to the upstreams, and is fairness; that it has finitely many  *)
(* of them is safety, and rests on the parts: retries are bounded, and a   *)
(* call of http() that met a stale connection goes on to a new one.        *)
(***************************************************************************)
LEMMA StepLeft ==
  FP!IInv /\ PP!IInv /\ Own /\ [Next]_vars =>
    \A r \in Req : pc[r] # "idle" =>
      Left(r)' < Left(r) \/ UNCHANGED <<pc[r], site[r], retry[r], fetch[r], written[r]>>
<1> SUFFICES ASSUME FP!IInv, PP!IInv, Own, [Next]_vars, NEW r \in Req, pc[r] # "idle"
             PROVE  Left(r)' < Left(r) \/ UNCHANGED <<pc[r], site[r], retry[r], fetch[r], written[r]>>
  OBVIOUS
<1>0. /\ pc \in [Req -> FP!ReqState] /\ retry \in [Req -> Nat] /\ fetch \in [Req -> PP!ReqState]
      /\ DOMAIN site = Req /\ written \in [Req -> BOOLEAN]
      /\ pc[r] \in {"collect", "load", "store", "pick", "send"} =>
           MaxRetry[site[r]] \in Nat /\ retry[r] <= MaxRetry[site[r]]
      /\ pc[r] \in {"collect", "load", "store", "pick"} => retry[r] = 0
      /\ fetch[r] \in {"cached", "connect", "new"} => pc[r] = "send"
      /\ fetch[r] = "body" => pc[r] = "done"
      /\ fetch[r] = "dropping" => pc[r] = "idle"
      /\ written[r] => fetch[r] \in {"cached", "new"}
  BY GatewayAssumption
  DEF FP!IInv, FP!TypeOK, FP!AttemptsBounded, FP!Unsent, PP!IInv, PP!TypeOK, Own, Wires, Coupled
<1>1. ASSUME NEW q \in Req, q # r, Serve(q)
      PROVE  UNCHANGED <<pc[r], site[r], retry[r], fetch[r], written[r]>>
  <2>1. UNCHANGED <<pc[r], site[r], retry[r]>>
    BY <1>0, <1>1
    DEF Serve, Prepare, Lookup, Dial, Write, Reply, Stale, AttemptFails, Leave, DropRest, proxyVars,
        Front!Receive, Front!Collect, Front!CollectFails, Front!Compute, Front!Load, Front!Store,
        Front!Pick, Front!Answer, Front!Retry, Front!GiveUp, Front!Finish, Front!request
  <2>2. UNCHANGED fetch[r]
    BY <1>0, <1>1
    DEF Serve, Prepare, Lookup, Dial, Write, Reply, Stale, AttemptFails, Leave, DropRest, poolVars,
        Pool!Hit, Pool!Miss, Pool!Connect, Pool!ConnectFails, Pool!Respond, Pool!CachedStale,
        Pool!CachedError, Pool!CachedCancelled, Pool!NewFails, Pool!BodyDrop, Pool!Finish,
        Pool!FinishUnread, Pool!IncomingDrop
  <2>3. UNCHANGED written[r]
    BY <1>0, <1>1
    DEF Serve, Prepare, Lookup, Dial, Write, Reply, Stale, AttemptFails, Leave, DropRest, wireVars
  <2> QED
    BY <2>1, <2>2, <2>3
<1>2. CASE Prepare(r)
  <2>1. UNCHANGED <<fetch, written, retry, site>>
    BY <1>2, <1>0
    DEF Prepare, poolVars, wireVars, Front!Receive, Front!Collect, Front!CollectFails,
        Front!Compute, Front!Load, Front!Store, Front!Pick, Front!request
  <2>2. \/ pc[r] = "collect" /\ pc'[r] \in {"load", "done"}
        \/ pc[r] = "load" /\ pc'[r] = "store"
        \/ pc[r] = "store" /\ pc'[r] = "pick"
        \/ pc[r] = "pick" /\ pc'[r] = "send"
    BY <1>2, <1>0
    DEF Prepare, Front!Receive, Front!Collect, Front!CollectFails, Front!Compute, Front!Load,
        Front!Store, Front!Pick
  <2>3. pc[r] = "pick" => fetch[r] = "idle"
    BY <1>2 DEF Prepare
  <2> QED
    BY <1>0, <2>1, <2>2, <2>3 DEF Left, StepsOfAttempt
<1>3. CASE Lookup(r) \/ Dial(r) \/ Stale(r)
  <2>1. UNCHANGED <<pc, retry, site, written>>
    BY <1>3 DEF Lookup, Dial, Stale, proxyVars, wireVars
  <2>2. \/ fetch[r] = "idle" /\ pc[r] = "send" /\ fetch'[r] \in {"cached", "connect"}
        \/ fetch[r] = "connect" /\ fetch'[r] = "new"
        \/ fetch[r] = "cached" /\ ~written[r] /\ fetch'[r] = "connect"
    BY <1>0, <1>3 DEF Lookup, Dial, Stale, Pool!Hit, Pool!Miss, Pool!Connect, Pool!CachedStale
  <2>3. pc[r] = "send"
    BY <1>0, <2>2
  <2> QED
    BY <1>0, <2>1, <2>2, <2>3 DEF Left, StepsOfAttempt
<1>4. CASE Write(r)
  <2>1. UNCHANGED <<pc, retry, site, fetch>> /\ written'[r] /\ ~written[r] /\ fetch[r] \in {"cached", "new"}
    BY <1>0, <1>4 DEF Write, proxyVars, poolVars
  <2>2. \/ StepsOfAttempt(r) = 6 /\ StepsOfAttempt(r)' = 5
        \/ StepsOfAttempt(r) = 3 /\ StepsOfAttempt(r)' = 2
    BY <2>1 DEF StepsOfAttempt
  <2>3. pc[r] = "send" /\ MaxRetry[site[r]] \in Nat /\ retry[r] \in Nat
    BY <1>0, <2>1
  <2>4. Left(r) = 8 * (MaxRetry[site[r]] - retry[r]) + StepsOfAttempt(r)
    BY <2>3 DEF Left
  <2>5. Left(r)' = 8 * (MaxRetry[site[r]] - retry[r]) + StepsOfAttempt(r)'
    BY <2>1, <2>3 DEF Left
  <2> QED
    BY <2>2, <2>3, <2>4, <2>5
<1>5. CASE Reply(r)
  <2>1. pc[r] = "send" /\ pc'[r] = "done" /\ fetch[r] \in {"cached", "new"}
    BY <1>0, <1>5 DEF Reply, Front!Answer, Pool!Respond
  <2> QED
    BY <1>0, <2>1 DEF Left, StepsOfAttempt
<1>6. CASE AttemptFails(r)
  <2>1. fetch[r] \in {"cached", "connect", "new"} /\ pc[r] = "send" /\ fetch'[r] = "idle"
    BY <1>0, <1>6 DEF AttemptFails, Pool!ConnectFails, Pool!CachedError, Pool!NewFails, Pool!Finish
  <2>2. CASE Front!GiveUp(r)
    BY <1>0, <2>1, <2>2 DEF Front!GiveUp, Left, StepsOfAttempt
  <2>3. CASE Front!Retry(r)
    <3>1. retry'[r] = retry[r] + 1 /\ UNCHANGED <<pc, site>> /\ retry[r] + 1 <= MaxRetry[site[r]]
      BY <1>0, <2>3 DEF Front!Retry
    <3> QED
      BY <1>0, <2>1, <3>1 DEF Left, StepsOfAttempt
  <2> QED
    BY <1>6, <2>2, <2>3 DEF AttemptFails
<1>7. CASE Leave(r)
  <2>1. pc'[r] = "idle"
    BY <1>0, <1>7 DEF Leave, Front!Finish
  <2>2. Left(r)' = 0
    BY <2>1 DEF Left
  <2>3. StepsOfAttempt(r) \in 1 .. 7
    BY <1>0 DEF StepsOfAttempt
  <2>4. pc[r] \in {"collect", "load", "store", "pick", "send", "done"}
    BY <1>0 DEF FP!ReqState
  <2>5. Left(r) > 0
    BY <1>0, <2>3, <2>4 DEF Left
  <2> QED
    BY <2>2, <2>5
<1>10. CASE DropRest(r)
  BY <1>0, <1>10 DEF DropRest, Pool!IncomingDrop
<1>8. ASSUME NEW c \in Conn, Monitor(c) PROVE UNCHANGED <<pc[r], site[r], retry[r], fetch[r], written[r]>>
  BY <1>8
  DEF Monitor, proxyVars, wireVars, Pool!Monitor, Pool!ConnEnds, Pool!TaskCancelled, Pool!Evict,
      Pool!RemoveKey, Pool!reqVars
<1>9. CASE UNCHANGED vars
  BY <1>9 DEF vars, proxyVars, poolVars, wireVars
<1> QED
  BY <1>1, <1>2, <1>3, <1>4, <1>5, <1>6, <1>7, <1>8, <1>9, <1>10 DEF Next, Serve

\* For any sites, retries and connections, and whatever happens to the shared pool
\* meanwhile, a request takes finitely many steps.
THEOREM RunsOut == Spec => RequestsRunOut
  BY StepLeft, Invariance, PTL DEF Spec, RequestsRunOut
-----------------------------------------------------------------------------
\* Through Delivery, which it implements: a request reaches upstreams max_retry + 1
\* times at most, whichever connections it meets, and the client gets an answer
\* only to a request that went out.
THEOREM DeliversBounded == Spec => []Promise!Bounded
<1> DEFINE Typed == /\ Allowed \in [Req -> Nat] /\ copies \in [Req -> Nat]
                    /\ \A r \in Req : Phase[r] = "idle" => copies[r] = 0
<1>1. FP!IInv /\ Own => Typed
  <2> SUFFICES ASSUME FP!IInv, Own PROVE Typed
    OBVIOUS
  <2>1. Allowed \in [Req -> Nat] /\ copies \in [Req -> Nat]
    BY GatewayAssumption DEF FP!IInv, FP!TypeOK, Allowed, Own, Wires
  <2>2. \A r \in Req : Phase[r] = "idle" => pc[r] = "idle"
    BY DEF Phase
  <2> QED
    BY <2>1, <2>2 DEF Own, Counted
<1>2. Init => Promise!Bounded
  <2> SUFFICES ASSUME Promise!Init PROVE Promise!Bounded
    BY InitPromise
  <2>1. \A r \in Req : copies[r] = 0 /\ Allowed[r] = 0 /\ Phase[r] = "idle"
    BY DEF Promise!Init
  <2>2. ASSUME NEW r \in Req PROVE copies[r] <= Allowed[r] /\ Phase[r] # "answered"
    <3>1. copies[r] = 0 /\ Allowed[r] = 0
      BY <2>1
    <3>2. Phase[r] = "idle"
      BY <2>1
    <3> QED
      BY <3>1, <3>2
  <2> QED
    BY <2>2 DEF Promise!Bounded
<1>3. Typed /\ Promise!Bounded /\ [Promise!Next]_(Promise!vars) => Promise!Bounded'
  <2> SUFFICES ASSUME Typed, Promise!Bounded, [Promise!Next]_(Promise!vars) PROVE Promise!Bounded'
    OBVIOUS
  <2>1. DOMAIN Phase = Req
    BY DEF Phase
  <2> USE DEF Promise!Bounded
  <2>2. ASSUME NEW r \in Req, Promise!Begin(r) PROVE Promise!Bounded'
    <3>1. copies[r] = 0 /\ Phase'[r] # "answered" /\ UNCHANGED copies
      BY <2>1, <2>2 DEF Promise!Begin
    <3>2. Allowed'[r] \in Nat
      BY <2>2, GatewayAssumption DEF Promise!Begin
    <3>3. \A q \in Req \ {r} : Allowed'[q] = Allowed[q] /\ Phase'[q] = Phase[q]
      BY <2>1, <2>2 DEF Promise!Begin
    <3> QED
      BY <3>1, <3>2, <3>3
  <2>6. ASSUME NEW r \in Req, Promise!End(r) PROVE Promise!Bounded'
    <3>1. copies'[r] = 0 /\ Allowed'[r] = 0 /\ Phase'[r] = "idle"
      BY <2>1, <2>6 DEF Promise!End
    <3>2. \A q \in Req \ {r} :
            Allowed'[q] = Allowed[q] /\ Phase'[q] = Phase[q] /\ copies'[q] = copies[q]
      BY <2>1, <2>6 DEF Promise!End
    <3> QED
      BY <3>1, <3>2
  <2>3. ASSUME NEW r \in Req, Promise!Copy(r) PROVE Promise!Bounded'
    BY <2>1, <2>3 DEF Promise!Copy
  <2>4. ASSUME NEW r \in Req, Promise!Answer(r) \/ Promise!Refuse(r) PROVE Promise!Bounded'
    BY <2>1, <2>4 DEF Promise!Answer, Promise!Refuse
  <2>5. CASE UNCHANGED Promise!vars
    BY <2>5 DEF Promise!vars
  <2> QED
    BY <2>2, <2>3, <2>4, <2>5, <2>6 DEF Promise!Next
<1> QED
  BY <1>1, <1>2, <1>3, StepPromise, Invariance, PTL DEF Spec
=============================================================================
