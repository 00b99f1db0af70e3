----------------------------- MODULE Proxy_proofs -----------------------------
(***************************************************************************)
(* Any number of requests, sites, addresses and retries, and any width of  *)
(* the racy counter: the failover of proxy() covers the address list.      *)
(***************************************************************************)
EXTENDS Proxy, TLAPS

\* Sweep is inductive once a request that is sent has a first position and its
\* current one within the list; FailedEverywhere follows when it gives up.
Started ==
  \A r \in Req : pc[r] = "send" =>
    /\ Len[site[r]] > 0
    /\ start[r] < Len[site[r]]
    /\ tried[r] \subseteq 0 .. Len[site[r]] - 1

\* A request that is not sent yet has an address to go to and has not failed.
Unsent ==
  \A r \in Req :
    /\ pc[r] \in {"idle", "collect", "load", "store", "pick"} => retry[r] = 0
    /\ pc[r] \in {"collect", "load", "store", "pick"} => Len[site[r]] > 0

Unanswered ==
  \A r \in Req : pc[r] # "done" => status[r] = "none"

IInv ==
  TypeOK /\ Sweep /\ AttemptsBounded /\ FailedEverywhere /\ Started /\ Unsent /\ Unanswered

\* The first position is within the list.
LEMMA FirstInRange ==
  ASSUME NEW len \in Nat \ {0}, NEW n \in Nat
  PROVE  n % len \in 0 .. len - 1
  OBVIOUS

\* The next position is the next one of the list, or its first.
LEMMA NextInRange ==
  ASSUME NEW len \in Nat \ {0}, NEW p \in 0 .. len - 1
  PROVE  (p + 1) % len = IF p + 1 = len THEN 0 ELSE p + 1
  OBVIOUS

\* Within the list, the address after the one at distance k from the first is the
\* only one at distance k + 1.
LEMMA NextDist ==
  ASSUME NEW len \in Nat \ {0}, NEW s \in 0 .. len - 1, NEW p \in 0 .. len - 1,
         NEW k \in Nat, k + 1 < len,
         k = IF p >= s THEN p - s ELSE p - s + len,
         NEW a \in 0 .. len - 1
  PROVE  (IF a >= s THEN a - s ELSE a - s + len) = k + 1
           <=> a = (IF p + 1 = len THEN 0 ELSE p + 1)
  OBVIOUS

LEMMA InitIInv == Init => IInv
  BY ProxyAssumption, SiteAssumption
  DEF Init, IInv, TypeOK, Sweep, AttemptsBounded, FailedEverywhere, Started, Unsent, Unanswered,
      NoSite, ReqState, Status

LEMMA StepTypeOK == IInv /\ [Next]_vars => TypeOK'
<1> SUFFICES ASSUME IInv, [Next]_vars PROVE TypeOK'
  OBVIOUS
<1> USE ProxyAssumption, SiteAssumption DEF IInv, TypeOK, ReqState, Status, Unsent
<1>1. ASSUME NEW r \in Req, NEW s \in Site \cup NoSite, Receive(r, s) PROVE TypeOK'
  BY <1>1 DEF Receive, Outcome, NoSite
<1>2. ASSUME NEW r \in Req, Collect(r) PROVE TypeOK'
  BY <1>2 DEF Collect, request
<1>3. ASSUME NEW r \in Req, CollectFails(r) PROVE TypeOK'
  BY <1>3 DEF CollectFails
<1>4. ASSUME NEW r \in Req, Load(r) PROVE TypeOK'
  BY <1>4 DEF Load
<1>5. ASSUME NEW r \in Req, Store(r) PROVE TypeOK'
  BY <1>5 DEF Store, Sum, request
<1>6. ASSUME NEW r \in Req, Pick(r) PROVE TypeOK'
  BY <1>6 DEF Pick, Sum
<1>7. ASSUME NEW r \in Req, Answer(r) PROVE TypeOK'
  BY <1>7 DEF Answer
<1>8. ASSUME NEW r \in Req, Retry(r) PROVE TypeOK'
  BY <1>8 DEF Retry
<1>9. ASSUME NEW r \in Req, GiveUp(r) PROVE TypeOK'
  BY <1>9 DEF GiveUp
<1>10. ASSUME NEW r \in Req, Finish(r) PROVE TypeOK'
  <2>1. 0 \in 0 .. Wrap - 1 /\ "unknown" \in NoSite
    BY DEF NoSite
  <2>2. /\ pc' = [pc EXCEPT ![r] = "idle"] /\ status' = [status EXCEPT ![r] = "none"]
        /\ site' = [site EXCEPT ![r] = "unknown"] /\ N' = N
    BY <1>10 DEF Finish
  <2>3. /\ loaded' \in [Req -> 0 .. Wrap - 1] /\ start' \in [Req -> Nat] /\ pos' \in [Req -> Nat]
        /\ retry' \in [Req -> Nat] /\ tried' \in [Req -> SUBSET Nat]
    BY <1>10, <2>1 DEF Finish
  <2>4. \A q \in Req : pc'[q] # "idle" => pc'[q] = pc[q] /\ site'[q] = site[q] /\ pos'[q] = pos[q]
    BY <1>10 DEF Finish
  <2> QED
    BY <2>1, <2>2, <2>3, <2>4
<1>11. CASE UNCHANGED vars
  BY <1>11 DEF vars
<1> QED
  BY <1>1, <1>2, <1>3, <1>4, <1>5, <1>6, <1>7, <1>8, <1>9, <1>10, <1>11
  DEF Next, Proxied, Compute, Fetched

LEMMA StepPhases == IInv /\ [Next]_vars => (Started /\ Unsent /\ Unanswered)'
<1> SUFFICES ASSUME IInv, [Next]_vars PROVE (Started /\ Unsent /\ Unanswered)'
  OBVIOUS
<1> USE ProxyAssumption, SiteAssumption DEF IInv, Started, Unsent, Unanswered
<1>1. ASSUME NEW r \in Req, NEW s \in Site \cup NoSite, Receive(r, s) PROVE (Started /\ Unsent /\ Unanswered)'
  BY <1>1 DEF Receive, Outcome, NoSite, TypeOK
<1>2. ASSUME NEW r \in Req, Collect(r) PROVE (Started /\ Unsent /\ Unanswered)'
  BY <1>2 DEF Collect, request, TypeOK
<1>3. ASSUME NEW r \in Req, CollectFails(r) PROVE (Started /\ Unsent /\ Unanswered)'
  BY <1>3 DEF CollectFails, TypeOK
<1>4. ASSUME NEW r \in Req, Load(r) PROVE (Started /\ Unsent /\ Unanswered)'
  BY <1>4 DEF Load, TypeOK
<1>5. ASSUME NEW r \in Req, Store(r) PROVE (Started /\ Unsent /\ Unanswered)'
  BY <1>5 DEF Store, Sum, request, TypeOK
<1>6. ASSUME NEW r \in Req, Pick(r) PROVE (Started /\ Unsent /\ Unanswered)'
  BY <1>6 DEF Pick, Sum, TypeOK
<1>7. ASSUME NEW r \in Req, Answer(r) PROVE (Started /\ Unsent /\ Unanswered)'
  BY <1>7 DEF Answer, TypeOK
<1>8. ASSUME NEW r \in Req, Retry(r) PROVE (Started /\ Unsent /\ Unanswered)'
  BY <1>8 DEF Retry, TypeOK
<1>9. ASSUME NEW r \in Req, GiveUp(r) PROVE (Started /\ Unsent /\ Unanswered)'
  BY <1>9 DEF GiveUp, TypeOK
<1>10. ASSUME NEW r \in Req, Finish(r) PROVE (Started /\ Unsent /\ Unanswered)'
  BY <1>10 DEF Finish, TypeOK
<1>11. CASE UNCHANGED vars
  BY <1>11 DEF vars
<1> QED
  BY <1>1, <1>2, <1>3, <1>4, <1>5, <1>6, <1>7, <1>8, <1>9, <1>10, <1>11
  DEF Next, Proxied, Compute, Fetched

\* What of q an attempt under way leaves alone.
Same(q) ==
  /\ site'[q] = site[q] /\ start'[q] = start[q] /\ pos'[q] = pos[q]
  /\ retry'[q] = retry[q] /\ tried'[q] = tried[q]

\* The steps of other requests, even the ones on N, do not touch a request.
LEMMA Undisturbed ==
  ASSUME IInv, NEW q \in Req, NEW r \in Req, r # q, Proxied(r)
  PROVE  Same(q) /\ pc'[q] = pc[q] /\ status'[q] = status[q]
  BY DEF Proxied, Compute, Fetched, Receive, Collect, CollectFails, Load, Store, Pick, Answer, Retry,
         GiveUp, Finish, request,
         IInv, TypeOK, Same

\* Whoever is at an attempt after a step began it, or went on to it, or was at it.
LEMMA Sending ==
  ASSUME IInv, [Next]_vars, NEW q \in Req, pc'[q] = "send"
  PROVE  Pick(q) \/ Retry(q) \/ (pc[q] = "send" /\ Same(q))
<1>1. CASE UNCHANGED vars
  BY <1>1 DEF vars, Same
<1>2. ASSUME NEW r \in Req, r # q, Proxied(r) PROVE pc[q] = "send" /\ Same(q)
  BY <1>2, Undisturbed
<1>3. ASSUME Proxied(q) PROVE Pick(q) \/ Retry(q)
  BY <1>3
  DEF Proxied, Compute, Fetched, Receive, Collect, CollectFails, Load, Store, Answer, GiveUp, Finish,
      IInv, TypeOK
<1> QED
  BY <1>1, <1>2, <1>3 DEF Next

\* Whoever has failed after a step failed in it, or had failed before.
LEMMA Failing ==
  ASSUME IInv, [Next]_vars, NEW q \in Req, status'[q] = "500", retry'[q] > 0
  PROVE  GiveUp(q) \/ (status[q] = "500" /\ Same(q))
<1>1. CASE UNCHANGED vars
  BY <1>1 DEF vars, Same
<1>2. ASSUME NEW r \in Req, r # q, Proxied(r) PROVE status[q] = "500" /\ Same(q)
  BY <1>2, Undisturbed
<1>3. ASSUME Proxied(q) PROVE GiveUp(q) \/ (status[q] = "500" /\ Same(q))
  BY <1>3
  DEF Proxied, Compute, Fetched, Receive, Collect, CollectFails, Load, Store, Pick, Answer, Retry, Finish,
      request, IInv, TypeOK, Unsent, Unanswered, Same
<1> QED
  BY <1>1, <1>2, <1>3 DEF Next

\* A retry moves one address on, to the only one at that distance.
LEMMA RetrySweeps ==
  ASSUME IInv, NEW r \in Req, Retry(r), NEW len \in Nat \ {0}, len = Len[site[r]]
  PROVE  /\ \A a \in 0 .. len - 1 : a \in tried'[r] <=> Dist(r, a)' <= retry'[r]
         /\ retry'[r] < len => Dist(r, pos[r])' = retry'[r]
<1>1. pos[r] \in 0 .. len - 1 /\ start[r] \in 0 .. len - 1 /\ retry[r] \in Nat
  BY DEF Retry, IInv, TypeOK, Started
<1>2. pos'[r] = IF pos[r] + 1 = len THEN 0 ELSE pos[r] + 1
  BY <1>1, NextInRange DEF Retry, IInv, TypeOK
<1>3. /\ tried'[r] = tried[r] \cup {pos'[r]} /\ retry'[r] = retry[r] + 1
      /\ site' = site /\ start' = start
  BY DEF Retry, IInv, TypeOK
<1>4. \A a \in 0 .. len - 1 : Dist(r, a) \in 0 .. len - 1 /\ Dist(r, a)' = Dist(r, a)
  BY <1>1, <1>3 DEF Dist
<1>5. \A a \in 0 .. len - 1 : a \in tried[r] <=> Dist(r, a) <= retry[r]
  BY DEF Retry, IInv, Sweep
<1>6. ASSUME retry[r] + 1 < len, NEW a \in 0 .. len - 1
      PROVE  Dist(r, a) = retry[r] + 1 <=> a = pos'[r]
  <2>1. retry[r] = Dist(r, pos[r])
    BY <1>1, <1>6 DEF Retry, IInv, Sweep
  <2> QED
    BY <1>1, <1>2, <1>6, <2>1, NextDist DEF Dist
<1>7. pos'[r] \in 0 .. len - 1
  BY <1>1, <1>2
<1>8. ASSUME NEW a \in 0 .. len - 1
      PROVE  a \in tried'[r] <=> Dist(r, a)' <= retry'[r]
  <2>1. CASE retry[r] + 1 < len
    BY <1>1, <1>3, <1>4, <1>5, <1>6, <2>1
  <2>2. CASE retry[r] + 1 >= len
    BY <1>1, <1>3, <1>4, <1>5, <2>2
  <2> QED
    BY <1>1, <2>1, <2>2
<1>9. retry'[r] < len => Dist(r, pos[r])' = retry'[r]
  <2>1. Dist(r, pos[r])' = Dist(r, pos'[r])
    BY <1>3 DEF Dist
  <2> QED
    BY <1>1, <1>3, <1>6, <1>7, <2>1
<1> QED
  BY <1>8, <1>9

LEMMA StepSweep == IInv /\ [Next]_vars => Sweep'
<1> SUFFICES ASSUME IInv, [Next]_vars, NEW q \in Req, pc'[q] = "send"
             PROVE  /\ \A a \in 0 .. Len[site'[q]] - 1 :
                          a \in tried'[q] <=> Dist(q, a)' <= retry'[q]
                    /\ retry'[q] < Len[site'[q]] => Dist(q, pos[q])' = retry'[q]
  BY DEF Sweep
<1>1. CASE pc[q] = "send" /\ Same(q)
  BY <1>1 DEF IInv, Sweep, Same, Dist
<1>2. CASE Pick(q)
  <2>1. Len[site[q]] \in Nat \ {0}
    BY <1>2, ProxyAssumption DEF Pick, IInv, TypeOK, Unsent
  <2>2. N \in Nat /\ Sum(q) \in Nat
    <3>1. N \in Nat /\ Wrap \in Nat \ {0} /\ loaded[q] + 1 \in Nat
      BY ProxyAssumption DEF IInv, TypeOK
    <3> QED
      BY <3>1, FirstInRange DEF Sum
  <2>3. PICK n \in {N, Sum(q)} : /\ pos'[q] = n % Len[site[q]] /\ start'[q] = n % Len[site[q]]
                                 /\ tried'[q] = {n % Len[site[q]]}
    BY <1>2 DEF Pick, IInv, TypeOK
  <2>4. PICK p \in 0 .. Len[site[q]] - 1 : pos'[q] = p /\ start'[q] = p /\ tried'[q] = {p}
    BY <2>1, <2>2, <2>3, FirstInRange
  <2>5. site' = site /\ retry'[q] = 0
    BY <1>2 DEF Pick, IInv, TypeOK, Unsent
  <2> QED
    BY <2>1, <2>4, <2>5 DEF Dist
<1>3. CASE Retry(q)
  <2>1. Len[site[q]] \in Nat \ {0} /\ site' = site
    BY <1>3, ProxyAssumption DEF Retry, IInv, TypeOK
  <2> QED
    BY <1>3, <2>1, RetrySweeps
<1> QED
  BY <1>1, <1>2, <1>3, Sending

LEMMA StepBounded == IInv /\ [Next]_vars => AttemptsBounded'
<1> SUFFICES ASSUME IInv, [Next]_vars, NEW q \in Req, pc'[q] = "send"
             PROVE  retry'[q] <= MaxRetry[site'[q]]
  BY DEF AttemptsBounded
<1>1. CASE pc[q] = "send" /\ Same(q)
  BY <1>1 DEF IInv, AttemptsBounded, Same
<1>2. CASE Pick(q)
  BY <1>2, ProxyAssumption DEF Pick, IInv, TypeOK, Unsent
<1>3. CASE Retry(q)
  BY <1>3 DEF Retry, IInv, TypeOK
<1> QED
  BY <1>1, <1>2, <1>3, Sending

\* After max_retry retries the sweep has covered the list.
LEMMA StepFailed == IInv /\ [Next]_vars => FailedEverywhere'
<1> SUFFICES ASSUME IInv, [Next]_vars, NEW q \in Req, status'[q] = "500", retry'[q] > 0,
                    MaxRetry[site'[q]] + 1 >= Len[site'[q]]
             PROVE  tried'[q] = 0 .. Len[site'[q]] - 1
  BY DEF FailedEverywhere
<1>1. CASE status[q] = "500" /\ Same(q)
  BY <1>1 DEF IInv, FailedEverywhere, Same
<1>2. CASE GiveUp(q)
  <2> DEFINE len == Len[site[q]]
  <2>1. /\ len \in Nat \ {0} /\ start[q] \in 0 .. len - 1 /\ site' = site /\ tried' = tried
        /\ retry[q] \in Nat /\ retry[q] = MaxRetry[site[q]] /\ retry[q] + 1 >= len
    BY <1>2, ProxyAssumption DEF GiveUp, IInv, TypeOK, Started, AttemptsBounded
  <2>2. \A a \in 0 .. len - 1 : Dist(q, a) <= retry[q]
    BY <2>1 DEF Dist
  <2>3. tried[q] \subseteq 0 .. len - 1 /\ \A a \in 0 .. len - 1 : a \in tried[q]
    BY <1>2, <2>2 DEF GiveUp, IInv, Sweep, Started
  <2> QED
    BY <2>1, <2>3
<1> QED
  BY <1>1, <1>2, Failing

LEMMA StepIInv == IInv /\ [Next]_vars => IInv'
  BY StepTypeOK, StepPhases, StepSweep, StepBounded, StepFailed DEF IInv

LEMMA Invariance == Spec => []IInv
  BY InitIInv, StepIInv, PTL DEF Spec

\* No attempt is made at a position outside the address list.
THEOREM TypeSafe == Spec => []TypeOK
<1>1. IInv => TypeOK
  BY DEF IInv
<1> QED
  BY <1>1, Invariance, PTL

\* Retries go round the address list, whatever happens to N meanwhile.
THEOREM InOrder == Spec => []Sweep
<1>1. IInv => Sweep
  BY DEF IInv
<1> QED
  BY <1>1, Invariance, PTL

\* No request is attempted more than max_retry + 1 times.
THEOREM Bounded == Spec => []AttemptsBounded
<1>1. IInv => AttemptsBounded
  BY DEF IInv
<1> QED
  BY <1>1, Invariance, PTL

\* With max_retry + 1 at least the number of addresses, a request fails only after
\* each of them was tried.
THEOREM FailsLast == Spec => []FailedEverywhere
<1>1. IInv => FailedEverywhere
  BY DEF IInv
<1> QED
  BY <1>1, Invariance, PTL
=============================================================================
