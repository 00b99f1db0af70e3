# gway in TLA+

Specifications of the gateway `gway` and of its connection pool `pooled_fetch`,
model-checked with TLC on small instances and proved with TLAPS for all
values of their constants. Paths below are relative to the repository.

## 1. Inventory

| Component | State | Operations | Hard because |
|---|---|---|---|
| Connection pool `pooled_fetch/src` | `POOL`: upstream address → (peer address → idle Sender); one background task per connection | `http` (`cached_conn`, `conn_new`, send, retry), `Body::drop`, the monitor task | a Sender is moved by `ptr::read` and `ManuallyDrop::take`; monitors and requests race; a failed send may be retried |
| Server `src/srv/mod.rs`, `h1.rs`, `h2.rs`, `h3.rs`, `src/shutdown.rs` | two locks (`shutdown_lock`, `conn_lock`), a stop task, a `JoinSet` of three accept loops, a task per connection | bind, spawn, accept, stop on a signal, join, wait for connections, exit | the order in which tasks are first polled; a blocking lock inside tasks; one server failing |
| Proxy `src/proxy.rs` | `static mut N`; per request: body, position, retry count | look up the site, collect, pick an address, send, retry, give up, redirect or 404 | `N` is a data race; retries; upstreams that never answer |
| Certificate cache `src/cert_loader`, `src/cert.rs` | `host_cert`, `expire` (day → hosts), files on disk | `get`, `cert_by_host`, `load`, `rm_expired` once a day | two structures updated one after the other; read and write under separate locks; renewals; units of time |
| h3 adapter `src/srv/s2n_quic.rs` | per stream: `chunk`, `buf` | `poll_ready`, `send_data`, `poll_finish`, accept, convert errors | partial progress between polls |
| h3 requests `src/srv/h3.rs` | request tasks of a connection | `handle_conn`, `handle_req`, `H3Body` | requests run without the guard of their connection |
| Route table `src/route.rs`, redirect `src/srv/h1.rs:28-59` | `host_conf`, `upstream_site` | `set`, `add_upstream`, `redirect` | the two tables must agree after any sequence of calls |
| Socket adoption `src/srv/mod.rs:138-183` | sockets by address | `socket_from_listenfd`, `get_or_create_*` | sequential; runs once |

How they meet: an accept loop of `h2` or `h3` spawns a task per connection,
which asks the certificate cache for the host of the TLS hello and then serves
requests with `proxy`; `proxy` looks its host up in the route table and calls
`pooled_fetch::http` once per attempt; the Body of the response carries the
pooled connection until it is dropped. `h1` only redirects. `srv` starts the
loops and stops them through `shutdown_lock`, and waits for the connection tasks
through `conn_lock`.

What makes each correct:

- pool: no Sender with two owners, none used for the wrong upstream, none lost
  or kept for ever;
- server: it stops when told and only then, all loops together, and not under a
  connection it waits for; the wait ends;
- proxy: positions in range, each address tried before one is tried twice,
  at most `max_retry` retries, an answer to every request;
- certificate cache: the certificate fits the host, expired ones leave the cache,
  valid ones stay;
- h3 stream: what the stream sends is what the response is, `finish` only behind it;
- proxy and pool together: a bounded number of copies of a request on the wire, each
  on a connection to the address whose turn it is, no connection held by nobody;
- route table: the tables agree, and one redirect leads to a site;
- socket adoption: each server has one socket of its own, and no second one of the same
  address is left open.

## 2. Modules

| Module | What it is |
|---|---|
| `ConnLease` | abstract specification: a connection is free, held by one request, or gone |
| `PooledFetch` | the pool, its requests and monitor tasks; implements `ConnLease` |
| `GracefulStop` | abstract specification: clients are admitted only by open servers, the wait is over when all are shut and no client is being served, and those who come into service behind it are late |
| `Srv` | start, stop and exit of the process; implements `GracefulStop` |
| `Proxy` | requests and their attempts |
| `Delivery` | abstract specification: a request goes out a bounded number of times and is answered only after it went out |
| `Gateway` | composes `Proxy` and `PooledFetch`; implements `Delivery` |
| `ResponseStream` | abstract specification: a stream carries a response from its front and ends only behind it |
| `H3Stream` | one HTTP/3 connection: its accept loop, its request tasks, the streams of the adapter; implements `ResponseStream` |
| `CertLoader` | handshakes, sweeper, files and days |
| `Route` | `add_upstream`, `set`, and the two lookups |
| `ListenFd` | inherited and own sockets |
| `Boot` | composes `Route` and `ListenFd` with the program that configures and a client that follows redirects |
| `MC*` | instances for TLC: constants and symmetry (`PooledFetch` and `Srv` need none) |
| `*_proofs` | theorems and proofs about the module of that name |

Definitions whose comment begins with "Mutation:" are deliberate errors in the
definition that follows them, which show that a property notices; no
specification uses them.

### PooledFetch

One request is a process `r`: `pc[r]` is where it is in `http()` or in the life of
its Body, `target[r]` the `addr` argument, `conn[r]` the Conn it owns. One
connection `c` has a `task[c]`, the one `conn_new` spawns. `idle[a]` is the SkipMap
under `a`, `keys` the keys of the DashMap (a key may be present with an empty
map: that is what the clean-up is about).

An action is what happens between two awaits, or under one lock of the DashMap.
The clean-up of the monitor is therefore two actions: `Evict` under `get_mut`,
and `RemoveKey`, after that lock was released. `SameKey` is the SkipMap's notion of
"the same key": two connections to one upstream have one peer address, so `insert`
and `remove` address whichever of them is there. `dropped` and `leaked` tell the
two ways a Sender can end: its destructor ran (hyper then ends the connection), or
a `ManuallyDrop` was thrown away.

`BodyDrop` is `Body::drop`, in one step with the end of the field `incoming` unless something
is left in it: then `unread[r]` is the connection whose old response is not through, already
in the pool, until `IncomingDrop`. That hyper takes no request in between (`Vacant`) is its
dispatcher's, which is busy with that response.

Any call may be dropped by its caller where it awaits: `CachedCancelled`, and the
second reading of `ConnectFails` and `NewFails`. Which error hyper reports for a
failed send is a free choice (`CachedStale`, `CachedError`). `ConnEnds` may happen at
any time, for any reason.

### Srv

`main` is where `srv()` is, on the thread that called `block_on`; `stop` is the stop
task; `server[s]` an accept loop; `task[k]` the task of connection `k`, "queued" from
its spawn to its first poll. A tokio lock suspends a task; a parking_lot lock
blocks a thread: a task polled while the writer waits is "parked" and keeps its
worker (`FreeWorker`). parking_lot lets no new reader in while a writer waits, and
gives the lock to the writer when the last reader leaves. The end of `srv()` is three steps:
it has the lock (`Acquire`), drops the guard at the end of its block (`Release`, `mod.rs:133`), and
returns, which ends the process (`Exit`). Between the last two, readers that were parked are woken
(`Wake`) and those that were queued may be polled (`Poll`): they come into service, and `missed` are
the connections for which this was so.

`H3Ends` is both ways in which the h3 loop ends by itself. Panics are not modelled.
The JoinSet's order and the log lines are left out. The abort of the stop task is
a flag and the step in which it takes effect.

For `GracefulStop`, a loop that runs is open and one that ended is shut; a connection is
admitted from its spawn, served while it holds its guard, late if it got that behind the wait,
and gone when it is closed. The process is up, then closing from `Acquire` on, then returned. A
parked connection is still only admitted: that is the hole which the promise leaves. `Blocked`
and `srv_cut_off` are what can come of it.

### Proxy

A request is a process. `N = N.overflowing_add(1).0; N` is compiled to a load, an
add, a store, and possibly a second load: `Load`, `Store` and the choice of `n` in
`Pick` are those, and other requests run between them. A data race is undefined
behaviour in Rust; the model takes what the machine does with an aligned word.
`start` and `tried` are history variables. `Wrap` is 2^64 in the program. Attempts are
calls of `pooled_fetch::http`, which answer or fail; the pool itself is in
`PooledFetch`. What a host leads to (a site, a parent site, nothing) is an input, and so is whether
the path of the request can be put into the header of a redirect (`Outcome`). A task goes on with
the next request when one is done (`Finish`).

### Gateway

The attempts of `Proxy` are the calls of `http()` of `PooledFetch`: task `r` is the same
task in both, `fetch` is the `pc` of the pool. A step of one that the other takes part
in is one action: `Lookup` looks for a connection to `addr_li[pos]`, `Reply` is `Ok` of
`http()` and `return` of `_proxy`, `AttemptFails` is `Err` of `http()` and the retry.
`Leave` is the end of a request: its Body is dropped, or its future is, wherever it
awaits; `DropRest` is the rest of an unread response, before the task begins its next request. Every action of the two modules is in one of `Gateway` (their guards are the
conjunction, nothing is added but `written`).

Between the two is a piece that belongs to neither: hyper's dispatcher.
`send_request` queues the request for the connection's task; `Write` is the step in which
that task takes it, and from there on the upstream may execute it. `is_canceled` and
`is_closed` say that this did not happen, which is the guard of `Stale`; any
other error leaves both possible. `copies[r]` counts the `Write`s of a request.

### H3Stream

One connection: `loop` is `handle_conn`, `pc[r]` is `handle_req` of request `r`. `full[r]`, `buf[r]`
and `chunk[r]` are the fields of its `SendStream`. A response is a row of
frames; frame `f` has two pieces, `2f` for the h3 frame header and `2f + 1` for the
payload (none if the frame is empty), since a `WriteBuf` has these two chunks and
`poll_ready` flushes them one by one. `Take`, `Send`, `Ready` and `Finish` are the rounds of its loop:
`Pending` is that a request takes no step while others do. h3 calls `poll_ready` until it is
through after each `send_data`, and `poll_finish` once; `Flushing` says when.

The client may send its body, reset it, stop reading, or leave at any time; the upstream
may fail between two frames. `forwarded[r]` is the size of the body that `proxy()` got, if it
got one. A `handle_req` that fails returns with `?` and drops its half of the stream: it calls neither
`finish` nor `reset`, and the adapter has no `Drop`. What the client sees of that is s2n-quic's, whose
source is not in the repository, and is a parameter: `DropEnds` holds "fin" if a stream that is
dropped may end like one that was finished, "reset" if it may be reset. The run has both, the
theorems hold for any. That the connection is closed when `handle_conn` returns is h3's: it drops its
server `Connection`, which closes the QUIC connection (`LoopEnds`).

### Route, ListenFd, Boot

`made` tells upstreams apart by identity, as `Arc` does. `ListenFd` walks through the inherited
sockets by index (`Scan`), `kept` is its two HashMaps, `adopted` and `bound` say where
each server has its socket from; `open` are the inherited sockets that nobody closed.
`InUse` is the kernel's rule for addresses that overlap (`[::]:80` and `0.0.0.0:80`).
`Boot` orders them: the table can be written only until `srv()` has it (`Start`), and the
client is there only when the servers are. It asks h1, or h2 or h3 at once, and follows
what redirects it gets. Both servers put the path into a header, which may refuse it
(`h1.rs:57`, and the builder in `proxy.rs:112`): which paths it refuses is up to the `http` crate, so
`Redirect` and `Lookup` give every answer that is possible, 500 among them.

### CertLoader

A handshake is a process `g`; `cert_by_host` is its steps `Hit`, `Miss`, `Load`,
`LoadNone`, `LoadFails`, `Insert`, `Push`, with the host it looks up in `key` (first the host,
then its `sub_host`). `Insert` and `Push` are separate because `host_cert` and `expire` are.
`SweepRead` and `SweepWrite` are the two locks of `rm_expired`. `expire` is a set of pairs,
since a host pushed twice under a key behaves like one pushed once. `Due` keeps the
units of the code: days on the left, seconds on the right. `late` is a history variable:
the hosts that were pushed while a sweep was between its locks, until they are inserted
again. `LoadNone` may come whatever is on disk: `try_exists(..).unwrap_or(false)` takes an
I/O error for a missing file. `SubHost[h] # h` is an assumption on the crate that computes it: it strips a label.

`SweepRead` removes the hosts in one step although the loop removes one at a time:
the read lock keeps pushes away meanwhile, and an insert that comes between two
removals has the effect of one before or after all of them for its own host.
Files change and days pass in any order (`Renew`, `NextDay`); a file is in the
directory of a host only if the certificate names that host.

## 3. Runs

| Run | Instance | Shows |
|---|---|---|
| `pool` | 2 upstreams, 3 requests, 2 connections | `ExclusiveOwner`, `RightUpstream`, `LeaseSpec`: refinement of `ConnLease`, `DroppedTornDown`, `EndedLeavesPool` |
| `srv` | 3 connections, 2 workers | `DrainAfterAccept`, `FirstStopHasCause`, `StopSpec`: refinement of `GracefulStop`, `OneDownAllDown`, `SignalEndsProcess`, `ServedUntilClosed`, `AmpleDrainCompletes` |
| `proxy` | 2 tasks; sites of 3, 2, 3, 0 addresses with 2, 3, 1, 1 retries; `Wrap` 6 | `TypeOK`, `Sweep`, `AttemptsBounded`, `FailedEverywhere`, `RequestComesToEnd` |
| `cert` | 2 handshakes, 2 hosts, 4 certificates, 2 days, symmetry | `AnswerCovers`, `EscapesOnlyInWindow`, `SweepTakesExpired`, `GetsRunOut` |
| `h3` | 2 requests: a body of one chunk with a response of data, trailers and an empty frame; no body with a response of one frame | `NoInternalError`, `WholeBodyForwarded`, `StreamSpec`: refinement of `ResponseStream`, `NoneServedUnguarded`, `RequestTaskEnds` |
| `gateway` | 2 tasks, 2 connections, 2 addresses, 1 retry, symmetry | `OneCopyPerAttempt`, `SentWhereTried`, `HeldForClient`, `RequestsRunOut`, `DeliverySpec`: refinement of `Delivery` |
| `boot` | 3 hosts (a host, its parent, its grandparent), 2 names, 3 upstreams; 3 addresses, 4 hand-overs, 2 ways to call `srv()` | `Indexed`, `OwnSocket`, `AdoptsInherited`, `NoTwinLeft`, `RedirectServed` |

Symmetry is used only in runs without liveness. The type invariants
are proved and not run, except that of `Proxy`, which holds the bounds of the position.
`TasksRunOut` of `H3Stream` and `CachedByShortest` of `CertLoader` are proved
and in no run either: TLC finds no violation of them on the instances of `h3` and `cert`.

Why the bounds are enough to be interesting. Pool: displacement needs two connections
to one upstream; a third request is there to take what two others return and their monitors
evict, and a second upstream for `RightUpstream`. A third connection is what the proofs are for. `Conn` bounds how many connections are ever opened: a request may then
wait in "connect" for ever, which is also what a connect that hangs does.
Srv: every subset of connections can be queued, served, parked or closed at the exit. With two
workers and three connections, one that is parked leaves a worker and two do not: the wait can
be ample, tight and blocked in the one run, and the properties name the case they leave out.
Proxy: one site whose retries just cover its list, one whose retries
go round twice, one with fewer retries than addresses, one without addresses; `N` wraps after 6 requests.
Cert: one certificate about to expire, its renewal, one for one host only, and one
without a DNS name; days near 20000 as in reality, since `Due` depends on their size, of which the first is the last
of the old certificate, so that it expires.
H3: the two responses have each kind of frame, and two requests let one fail under the
other. Gateway: two tasks that use the same connections one after the other, an address
that fails over to another, and stale connections; a retry more, or a third connection,
is what the proofs are for. Boot: hand-overs with nothing, what fits, twins between sockets of
another kind, and an address that overlaps; servers that share an address and that do not.
The bounds are the sizes of the sets, `Wrap` and `LastDay`; nothing else is capped.

### Where the program differs from what is said of it

Each is a run that TLC ends with a counterexample.

| Run | Property | What happens |
|---|---|---|
| `pool_monitor` | `CleansUpItself` | the monitor of a dead connection evicts a live one |
| `pool_lifo` | `ReturnAddsToPool` | a connection that is returned throws out the one that lies there, undropped: the pool of an upstream is no collection |
| `srv_blocked_drain` | `DrainCompletes` | late connections block the workers that the others need |
| `srv_cut_off` | `NobodyCutOff` | a connection that comes into service behind the wait is cut off by the exit |
| `cert_units` | `PurgesOnlyExpiring` | days compared with seconds: every sweep empties the cache |

Met while modelling, and not the subject of a run:

- a connection returned between `is_empty()` and `POOL.remove()` is lost
  (`pooled_fetch/src/http.rs:24-31`), the other way to violate `CleansUpItself`;
- an accept loop polled before the stop task reads `shutdown_lock` and ends, and the
  gateway with it, without a signal (`src/srv/mod.rs:67`): the second case of `FirstStopHasCause`;
- a host pushed under a key between the two locks of `rm_expired` is no longer in `expire`
  while its certificate is cached (`src/cert_loader/mod.rs:72-77`): the one escape that
  `EscapesOnlyInWindow` allows;
- a key of `expire` may belong to a certificate that was renewed since, under the same name: the
  sweep then removes the new one (`src/cert_loader/mod.rs:64`). With the units of `Due` put right,
  `PurgesOnlyExpiring` is still violated, this way;
- a connection that is returned after its monitor finished stays in the pool until a request
  finds it dead (`pooled_fetch/src/body.rs:36`); `EndedLeavesPool` is about those that were in the
  pool when they ended;
- whether a client can tell a response that was cut short in the middle depends on what s2n-quic
  does with a stream that is dropped (`src/srv/h3.rs:178`): an explicit `reset` would settle it;
- an inherited socket at an address that overlaps a server's but is not the same
  (`ListenStream=80` of `gway.socket` is `[::]:80`) is not adopted, and makes the bind fail
  (`BindFails`);
- trailers of a response do not reach HTTP/3 clients (`Skip`, `src/srv/h3.rs:178`);
- `connect_timeout_sec` and `request_timeout_sec` are never read.

## 4. Fairness

- Pool: an ended monitor runs on to its end (tokio polls a woken task), and hyper
  ends a connection whose Sender was dropped (or the task is aborted). No fairness for requests: nothing makes
  an upstream answer.
- Srv: tasks that are ready are polled and the main thread runs. `Close` is fair: clients
  leave in the end. That is an assumption on clients; the code closes no connection.
  Signals, accepts and failures of h3 are never forced.
- Proxy: its own steps (`GatewayFairness`), and that an upstream answers or fails
  (`UpstreamFairness`): an assumption on the upstreams, since the code sets no timeout.
- H3: the tasks of requests proceed, the client sends its body to the end or resets it, and
  reads or is given up by QUIC's idle timer. The last two, and that an upstream
  answers, are assumptions: `handle_req` has no timeout.
- Cert, Gateway, Boot: safety only, no fairness.

All are weak fairness. In the two places where a choice of the environment could
disable a fair action (`c \in dropped /\ ConnEnds(c)` against `TaskCancelled`), either
outcome satisfies the property.

## 5. Proofs

Every safety property of the passing runs is a theorem of its specification, for all
values of the constants under the assumptions the modules name. Most proofs have
one inductive invariant `IInv`, the three facts `Init => IInv`,
`IInv /\ [Next]_vars => IInv'` and `IInv => property`.  Consecution is one lemma for each
conjunct of `IInv` (`StepTypeOK`, `StepExclusiveOwner`, ...), with one step for each action
that can disturb it; `StepIInv` puts them together.

| Theorem | States | `IInv` is |
|---|---|---|
| `PooledFetch_proofs`: `TypeSafe`, `SingleOwner`, `NoCrossTalk`, `PoolOfOne` | types, the invariants of `pool`, and `OneIdlePerUpstream`, what `pool_lifo` comes to in general | their conjunction with `Bookkeeping`: ownership needs it to know who owns at each `pc`, `PoolOfOne` needs `RightUpstream` to know that equal upstreams mean equal keys; lemmas `OnlyReturnAdds`, `AddrStays`, `ReturnReplaces`: which steps change the pool, and how |
| `PooledFetch_proofs`: `Implements` | `Spec => LeaseSpec` | the same; lemmas `Holder`, `HoldersGain`, `HoldersLose` say how the mapped `users` changes |
| `Srv_proofs`: `TypeSafe`, `DrainStartsLast`, `FirstStop` | types and the safety properties of `srv` | `TypeOK` with `Joined`: servers run only after their spawn, a reaped one has ended, and the wait begins with all reaped; `Begun`: no connection before the servers; `OnlyMissed`: once the lock was had, who is in service came behind the wait; for `FirstStop` also `Cause`: an abort or a signal is behind each end of the stop task |
| `Srv_proofs`: `Implements` | `Spec => StopSpec` | the same: `Joined` for `WaitOver`, `OnlyMissed` for the clients behind it, `Begun` for `Fail` |
| `Proxy_proofs`: `TypeSafe`, `InOrder`, `Bounded`, `FailsLast` | the invariants of `proxy` | with: `start` is in range, and what a failed request has tried; the lemmas `FirstInRange`, `NextInRange`, `NextDist` are the modular arithmetic, `Sending` and `Failing` say which steps lead to an attempt or to a failure, `RetrySweeps` that a retry tries the next address |
| `CertLoader_proofs`: `TypeSafe`, `CachedUnderOwnName`, `AnswerFits`, `EscapesAreLate`, `ExpiredAreTaken` | types, `CachedByShortest` and the properties of `cert` | with `LookedUp`: a call looks up its host or its `sub_host`, and holds a certificate that names it; `Known`: a cached certificate whose key is in `to_rm_expire` has a push to come or had it late. `EscapesOnlyInWindow` alone is not inductive: the write of a sweep removes whole keys, and nothing else says that what is tracked under one of them was pushed late |
| `H3Stream_proofs`: `TypeSafe`, `NoFault`, `ForwardsWhole`, `Implements` | types, `NoInternalError`, `WholeBodyForwarded`, `Spec => StreamSpec` | with `Conserved`: what the stream took and what is left in `chunk` and `buf` are the frames given to `send_data`, and what is left is the end of them; `Phases`: nothing is left between two frames; `Uploaded` |
| `H3Stream_proofs`: `NothingUnguarded` | `NoneServedUnguarded` | `Closed`: a loop that ended has closed the connection |
| `Gateway_proofs`: `TypeSafe`, `CopiesBounded`, `SentRight`, `NoneHeld`, `Implements` | types, the invariants of `gateway`, `Spec => DeliverySpec` | the invariants of both parts, and how they meet (`Own`): what `fetch` is at each `pc`, and `copies` against `retry` |
| `Boot_proofs`: `TypeSafe`, `TableIndexed`, `SocketOfItsOwn`, `InheritedFirst`, `NoTwin`, `RedirectsServed` | types and the invariants of `boot` | three that do not need each other. `TableInv`: an upstream in use was made, and is under one name. `SocketInv`: servers come in order (`InOrder`), what the maps hold is open and nobody's (`KeptOpen`), what was scanned and is open is in a map or adopted (`OpenKept`), who adopted took the last one (`AdoptedLast`). `ClientInv`: the table stays as it was when the client asked |

### The parts and the composition

`Gateway_proofs` instantiates `Proxy_proofs` and `PooledFetch_proofs`. `RefinesParts` is
`Spec => FP!Spec /\ PP!Spec`: seen from `proxy()`, the pool and the connections are one of
the ways in which `http()` may behave; seen from the pool, `proxy()` is one of its callers.
`Front!...` and `Pool!...` are the actions as `Gateway` uses them, and the lemmas `FrontSteps`
and `PoolSteps` show that each step is one of the part or leaves it alone; the second needs
that a position is inside the address list, which is `FP!TypeOK`. So what is proved of a part
alone holds in the composition with no further proof: `PartsKeepTheirPromise` draws
`FailedEverywhere` and `LeaseSpec` from it, and `Gateway`'s own invariant starts from both
`IInv`s.

### What the abstract specifications are good for

A refinement theorem is worth what the abstract specification promises. Each one states
that once, as a property of its own few actions, and the theorem carries it down:

| Abstract property | Carried to the code by |
|---|---|
| `ConnLease.GoneForGood`: a lease that is gone is never held or pooled again | `PooledFetch_proofs`: `NeverUsedAgain` |
| `Delivery.Bounded`: as many copies as allowed at most, and an answer only after one | `Gateway_proofs`: `DeliversBounded` |
| `ResponseStream.FrontInOrder`: a client has the front of its response, and all of it at an end of stream, unless a stream that is abandoned ends so too | `H3Stream_proofs`: `ClientHasFront`, and `EndIsComplete` where it does not |
| `GracefulStop.ServedStay`: who is in service stays so until he leaves, and nobody is when the wait is over | `Srv_proofs`: `ServedAreNotCutOff` |

`PoolBounded` (`PooledFetch_proofs`) adds what follows from `PoolOfOne`: with finitely many upstream
addresses, no more idle connections than these.

### No step goes back

That a request ends needs fairness and stays with TLC. What is proved is the half of it that
is about the program: a number that each step of a request makes smaller, and that no step of
anyone else makes larger. Nothing then runs for ever but by waiting.

| Theorem | The number |
|---|---|
| `Gateway_proofs`: `RunsOut` (`RequestsRunOut`) | 8 for each retry that is left, and the steps of one attempt: a pooled connection that is stale, then a new one |
| `H3Stream_proofs`: `RunsOut` (`TasksRunOut`) | 7 for each frame that is left, 2 for a piece in `buf`, 1 for one in `chunk`; chunks of the upload that may still come. Needs `TwoChunks`: `buf` is finite, with two pieces at most |
| `CertLoader_proofs`: `GetEnds` (`GetsRunOut`) | the steps of two lookups, the second only for the parent host |

### The wait that is blocked, and the exit behind it

`srv_blocked_drain` shows one behaviour in which `DrainCompletes` fails. Two theorems say when that
can be. `BlockedForGood`: once the drain is `Blocked`, whatever signals come and clients do, it
stays so. `FewLateNeverBlock`: if fewer connections than there are workers are queued or parked
when the drain begins, it never is; the loops have ended and bring no others. `NoneLateNoneCutOff` is the
same for `srv_cut_off`: if none is queued or parked while `srv()` waits, the exit cuts off nobody.

### Assumptions, and what is not proved

`PoolBounded` assumes finitely many addresses, `FewLateNeverBlock` finitely many connections,
`EndIsComplete` that a stream which is dropped does not end like a finished one.

Assumptions: `NoneAssumption`, `WorkersAssumption`, `ProxyAssumption`, `SiteAssumption`,
`CertAssumption`, `StreamAssumption`, `GatewayAssumption`, `BootAssumption`. TLC evaluates them in the runs.

Model-checked only: the liveness properties (TLAPS 1.4.5 has no support for fairness
and ENABLED), and the counterexamples. These are `DroppedTornDown`, `EndedLeavesPool`, `OneDownAllDown`,
`SignalEndsProcess`, `ServedUntilClosed`, `AmpleDrainCompletes`, `RequestComesToEnd` and `RequestTaskEnds`.

## 6. Not modelled

- `reset`, `stop_sending` and the error codes of `s2n_quic.rs`: h3 uses them for requests that
  it refuses itself; here such a request fails (`Fail`).
- The error types: the models keep the difference between Ok and Err, and of hyper's errors
  whether the request was taken.
- The dispatcher of hyper, the streams of s2n-quic and the state machine of h3 are
  modelled as far as the code depends on them.
- Contents of requests, responses and certificates; TLS; HTTP parsing: no property here
  depends on them.
- Panics (`fullchain[0]` of an empty chain, `unwrap` on a malformed SAN): they end one
  task and change no shared state.
- systemd, udpgrm, scripts, examples.

## 7. Plan

What is left, the most useful first:

1. `Gateway` under `Srv`: requests as processes under the guard of their connection, so that the
   wait at exit and the retries meet.
2. `CertLoader` with a sweep that removes its hosts one at a time, to see what that does to
   `EscapesOnlyInWindow`.
3. Liveness of `Gateway`: `RequestComesToEnd` over the real pool, with the fairness of
   both parts.
4. For `Srv`, a number like those of section 5: what is left of the start and of the end of
   `srv()`, to complete `OneDownAllDown` and `SignalEndsProcess` with their safety half.
