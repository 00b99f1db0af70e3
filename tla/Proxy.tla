-------------------------------- MODULE Proxy --------------------------------
(***************************************************************************)
(* proxy(): many requests at once, each sent to the upstream addresses of  *)
(* its site in turn until one answers or the retries are used up.          *)
(*                                                                         *)
(* The requests share N, a `static mut` that every task increments without *)
(* a lock.  The race is undefined behaviour; a build loads N, stores the   *)
(* sum, and picks with the sum or with N loaded again, and other tasks run *)
(* between any two of these.                                               *)
(***************************************************************************)
EXTENDS Integers

CONSTANTS Req,      \* tasks that call proxy(), each any number of times
          Site,     \* hosts in host_conf
          Len,      \* Len[s]: number of addresses of the upstream of s
          MaxRetry, \* MaxRetry[s]: its max_retry
          Wrap      \* usize is 0 .. Wrap - 1

ASSUME ProxyAssumption ==
  /\ Len \in [Site -> Nat] /\ MaxRetry \in [Site -> Nat]
  /\ Wrap \in Nat \ {0}

\* Where the host of a request leads to besides a site: to no entry, but
\* sub_host() of it has one; to nothing.
NoSite == {"parent", "unknown"}
ASSUME SiteAssumption == NoSite \cap Site = {}

VARIABLES
  N,      \* the shared round-robin counter
  pc,     \* pc[r]: where the call is
  site,   \* site[r]: what its host leads to
  loaded, \* loaded[r]: the value of N it read first
  start,  \* start[r]: the position of its first attempt (history)
  pos,    \* pos[r]: the position of the attempt under way
  retry,  \* retry[r]: attempts that failed
  tried,  \* tried[r]: positions attempted (history)
  status  \* status[r]: what the client gets

request == <<site, loaded, start, pos, retry, tried, status>>
vars == <<N, pc, site, loaded, start, pos, retry, tried, status>>

\* "load", "store", "pick": at the increment of N; "send": in http().
ReqState == {"idle", "collect", "load", "store", "pick", "send", "done"}

\* "upstream": the response of an upstream address.
Status == {"none", "upstream", "301", "404", "500"}

Sum(r) == (loaded[r] + 1) % Wrap

Init ==
  /\ N = 0
  /\ pc = [r \in Req |-> "idle"]
  /\ site = [r \in Req |-> "unknown"]
  /\ loaded = [r \in Req |-> 0] /\ start = [r \in Req |-> 0]
  /\ pos = [r \in Req |-> 0] /\ retry = [r \in Req |-> 0]
  /\ tried = [r \in Req |-> {}]
  /\ status = [r \in Req |-> "none"]
-----------------------------------------------------------------------------
\* What the lookup of a host leads to.  The redirect to the parent puts the path
\* of the request into a header; a value that the builder refuses is an error.
Outcome(s) == CASE s = "parent"  -> {"301", "500"}
                [] s = "unknown" -> {"404"}
                [] s \in Site    -> IF Len[s] = 0 THEN {"500"} ELSE {"none"}

\* The host is looked up: no site, a site without addresses, or a site.
Receive(r, s) ==
  /\ pc[r] = "idle"
  /\ site' = [site EXCEPT ![r] = s]
  /\ pc' = [pc EXCEPT ![r] = IF s \in Site /\ Len[s] # 0 THEN "collect" ELSE "done"]
  /\ \E out \in Outcome(s) : status' = [status EXCEPT ![r] = out]
  /\ UNCHANGED <<N, loaded, start, pos, retry, tried>>

\* The body of the request is collected before the first attempt.
Collect(r) ==
  /\ pc[r] = "collect"
  /\ pc' = [pc EXCEPT ![r] = "load"]
  /\ UNCHANGED <<N, request>>

CollectFails(r) ==
  /\ pc[r] = "collect"
  /\ pc' = [pc EXCEPT ![r] = "done"] /\ status' = [status EXCEPT ![r] = "500"]
  /\ UNCHANGED <<N, site, loaded, start, pos, retry, tried>>

Load(r) ==
  /\ pc[r] = "load"
  /\ loaded' = [loaded EXCEPT ![r] = N]
  /\ pc' = [pc EXCEPT ![r] = "store"]
  /\ UNCHANGED <<N, site, start, pos, retry, tried, status>>

Store(r) ==
  /\ pc[r] = "store"
  /\ N' = Sum(r)
  /\ pc' = [pc EXCEPT ![r] = "pick"]
  /\ UNCHANGED request

\* Mutation: the first position is 1 .. len.
PickFromOne(r) ==
  /\ pc[r] = "pick"
  /\ \E n \in {N, Sum(r)} :
        LET p == (n % Len[site[r]]) + 1
        IN  /\ pos' = [pos EXCEPT ![r] = p] /\ start' = [start EXCEPT ![r] = p]
            /\ tried' = [tried EXCEPT ![r] = {p}]
  /\ pc' = [pc EXCEPT ![r] = "send"]
  /\ UNCHANGED <<N, site, loaded, retry, status>>

\* pos = N % len, with N from a register or from memory; the first attempt.
Pick(r) ==
  /\ pc[r] = "pick"
  /\ \E n \in {N, Sum(r)} :
        LET p == n % Len[site[r]]
        IN  /\ pos' = [pos EXCEPT ![r] = p] /\ start' = [start EXCEPT ![r] = p]
            /\ tried' = [tried EXCEPT ![r] = {p}]
  /\ pc' = [pc EXCEPT ![r] = "send"]
  /\ UNCHANGED <<N, site, loaded, retry, status>>

\* http() returns Ok.
Answer(r) ==
  /\ pc[r] = "send"
  /\ pc' = [pc EXCEPT ![r] = "done"] /\ status' = [status EXCEPT ![r] = "upstream"]
  /\ UNCHANGED <<N, site, loaded, start, pos, retry, tried>>

\* Mutation: a retry goes where N points to by then.
RetryByCounter(r) ==
  /\ pc[r] = "send" /\ retry[r] + 1 <= MaxRetry[site[r]]
  /\ retry' = [retry EXCEPT ![r] = @ + 1]
  /\ pos' = [pos EXCEPT ![r] = N % Len[site[r]]]
  /\ tried' = [tried EXCEPT ![r] = @ \cup {pos'[r]}]
  /\ UNCHANGED <<N, pc, site, loaded, start, status>>

\* Mutation: retry is not counted.
RetryUncounted(r) ==
  /\ pc[r] = "send" /\ retry[r] + 1 <= MaxRetry[site[r]]
  /\ pos' = [pos EXCEPT ![r] = (@ + 1) % Len[site[r]]]
  /\ tried' = [tried EXCEPT ![r] = @ \cup {pos'[r]}]
  /\ UNCHANGED <<N, pc, site, loaded, start, retry, status>>

\* Mutation: the check comes before the increment.
RetryOneMore(r) ==
  /\ pc[r] = "send" /\ retry[r] <= MaxRetry[site[r]]
  /\ retry' = [retry EXCEPT ![r] = @ + 1]
  /\ pos' = [pos EXCEPT ![r] = (@ + 1) % Len[site[r]]]
  /\ tried' = [tried EXCEPT ![r] = @ \cup {pos'[r]}]
  /\ UNCHANGED <<N, pc, site, loaded, start, status>>

\* http() returns Err and retries are left: on to the next address.
Retry(r) ==
  /\ pc[r] = "send" /\ retry[r] + 1 <= MaxRetry[site[r]]
  /\ retry' = [retry EXCEPT ![r] = @ + 1]
  /\ pos' = [pos EXCEPT ![r] = (@ + 1) % Len[site[r]]]
  /\ tried' = [tried EXCEPT ![r] = @ \cup {pos'[r]}]
  /\ UNCHANGED <<N, pc, site, loaded, start, status>>

\* Mutation: max_retry counts the first attempt as well.
GiveUpEarly(r) ==
  /\ pc[r] = "send" /\ retry[r] + 1 >= MaxRetry[site[r]]
  /\ retry' = [retry EXCEPT ![r] = @ + 1]
  /\ pc' = [pc EXCEPT ![r] = "done"] /\ status' = [status EXCEPT ![r] = "500"]
  /\ UNCHANGED <<N, site, loaded, start, pos, tried>>

\* http() returns Err and none is left: the error is the response.
GiveUp(r) ==
  /\ pc[r] = "send" /\ retry[r] + 1 > MaxRetry[site[r]]
  /\ retry' = [retry EXCEPT ![r] = @ + 1]
  /\ pc' = [pc EXCEPT ![r] = "done"] /\ status' = [status EXCEPT ![r] = "500"]
  /\ UNCHANGED <<N, site, loaded, start, pos, tried>>

\* The response is handed on, or the client left and the call is dropped at one
\* of its awaits; the next call has locals of its own.
Finish(r) ==
  /\ pc[r] \in {"collect", "send", "done"}
  /\ pc' = [pc EXCEPT ![r] = "idle"] /\ site' = [site EXCEPT ![r] = "unknown"]
  /\ loaded' = [loaded EXCEPT ![r] = 0] /\ start' = [start EXCEPT ![r] = 0]
  /\ pos' = [pos EXCEPT ![r] = 0] /\ retry' = [retry EXCEPT ![r] = 0]
  /\ tried' = [tried EXCEPT ![r] = {}] /\ status' = [status EXCEPT ![r] = "none"]
  /\ UNCHANGED N

Compute(r) == Load(r) \/ Store(r) \/ Pick(r)

\* What pooled_fetch::http() returns, when it returns.
Fetched(r) == Answer(r) \/ Retry(r) \/ GiveUp(r)

Proxied(r) ==
  \/ \E s \in Site \cup NoSite : Receive(r, s)
  \/ Collect(r) \/ CollectFails(r) \/ Compute(r) \/ Fetched(r) \/ Finish(r)

Next == \E r \in Req : Proxied(r)

Spec == Init /\ [][Next]_vars

(***************************************************************************)
(* The gateway's own steps are taken; that an upstream answers, or its     *)
(* connection fails, is an assumption on the upstreams: the code sets no   *)
(* timeout.                                                                *)
(***************************************************************************)
GatewayFairness == \A r \in Req : WF_vars(Compute(r))
UpstreamFairness == \A r \in Req : WF_vars(Fetched(r))

FairSpec == Spec /\ GatewayFairness /\ UpstreamFairness
-----------------------------------------------------------------------------
(***************************************************************************)
(* Properties.                                                             *)
(***************************************************************************)
\* The position of an attempt is a position of the site's address list (an
\* index out of range is a panic), and the counters are usize.
TypeOK ==
  /\ N \in 0 .. Wrap - 1
  /\ pc \in [Req -> ReqState]
  /\ site \in [Req -> Site \cup NoSite]
  /\ loaded \in [Req -> 0 .. Wrap - 1]
  /\ start \in [Req -> Nat] /\ pos \in [Req -> Nat] /\ retry \in [Req -> Nat]
  /\ tried \in [Req -> SUBSET Nat]
  /\ status \in [Req -> Status]
  /\ \A r \in Req : pc[r] \in {"collect", "load", "store", "pick", "send"} => site[r] \in Site
  /\ \A r \in Req : pc[r] = "send" => pos[r] < Len[site[r]]

\* How many steps from the first position of r to position a.
Dist(r, a) == IF a >= start[r] THEN a - start[r] ELSE a - start[r] + Len[site[r]]

\* The k-th retry is at distance k from the first attempt, so that no address is
\* tried twice before all were tried once.
Sweep ==
  \A r \in Req : pc[r] = "send" =>
    /\ \A a \in 0 .. Len[site[r]] - 1 : a \in tried[r] <=> Dist(r, a) <= retry[r]
    /\ retry[r] < Len[site[r]] => Dist(r, pos[r]) = retry[r]

\* The attempts at one request are bounded by max_retry.
AttemptsBounded ==
  \A r \in Req : pc[r] = "send" => retry[r] <= MaxRetry[site[r]]

\* A site with enough retries fails a request only after each of its addresses
\* was tried, whatever the other requests did to N in the meantime.
FailedEverywhere ==
  \A r \in Req :
    (status[r] = "500" /\ retry[r] > 0 /\ MaxRetry[site[r]] + 1 >= Len[site[r]])
      => tried[r] = 0 .. Len[site[r]] - 1

\* With upstreams that answer or fail, the retries of a request come to an end.
RequestComesToEnd ==
  \A r \in Req : pc[r] = "load" ~> pc[r] \in {"done", "idle"}
=============================================================================
