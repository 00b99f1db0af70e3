--------------------------------- MODULE Srv ---------------------------------
(***************************************************************************)
(* Start, graceful stop and exit of the gateway process: srv() of          *)
(* srv/mod.rs on the thread that called block_on, and on the workers of    *)
(* the tokio runtime the stop task, the accept loops of h1, h2 and h3, and *)
(* one task per accepted connection.                                       *)
(*                                                                         *)
(* Two locks join them.  shutdown_lock (tokio): the stop task holds it for *)
(* writing until graceful_shutdown is over, and an accept loop that can    *)
(* read it stops.  conn_lock (parking_lot): a connection's task holds it   *)
(* for reading all its life, and srv() takes it for writing at the end to  *)
(* wait for them.  A parking_lot lock blocks the thread, not the task.     *)
(***************************************************************************)
EXTENDS Naturals, FiniteSets

CONSTANTS Conn,    \* client connections, each accepted at most once
          Workers  \* number of worker threads of the runtime

ASSUME WorkersAssumption == Workers \in Nat \ {0}

Server == {"h1", "h2", "h3"}

\* The order of the spawns in srv().
SpawnedBefore == [h1 |-> {}, h2 |-> {"h1"}, h3 |-> {"h1", "h2"}]

VARIABLES
  main,      \* where srv() is
  stop,      \* the stop task: not polled yet, holding the guard, or over
  abort,     \* stop_handle.abort() was called
  signalled, \* graceful_shutdown completed (SIGTERM, SIGHUP, ctrl-c)
  server,    \* server[s]: the accept loop of s
  reaped,    \* servers that join_next() returned
  task,      \* task[k]: the task of connection k
  missed     \* history: the connections that came into service after the wait

vars == <<main, stop, abort, signalled, server, reaped, task, missed>>

\* "wait": blocked in conn_lock.write(); "locked": has the write guard;
\* "leaving": released it, srv() and its caller return; "exit": the process
\* ended; "failed": srv() returned Err.
MainState == {"binding", "spawning", "joining", "drain", "wait", "locked", "leaving",
              "exit", "failed"}
StopState == {"spawned", "guarding", "fired", "aborted"}
ServerState == {"none", "running", "ended"}

\* "queued": spawned, never polled; "serving": holds the read guard;
\* "parked": its worker thread is blocked in conn_lock.read().
ConnState == {"none", "queued", "serving", "parked", "closed"}

Init ==
  /\ main = "binding"
  /\ stop = "spawned" /\ abort = FALSE /\ signalled = FALSE
  /\ server = [s \in Server |-> "none"] /\ reaped = {}
  /\ task = [k \in Conn |-> "none"] /\ missed = {}

\* Mutation: `let _ = conn_lock.read()` drops the guard at once.
ReadersNone == {}

\* Who holds conn_lock for reading.
Readers == {k \in Conn : task[k] = "serving"}

Parked == {k \in Conn : task[k] = "parked"}

\* A worker thread is there to poll a task.
FreeWorker == main # "exit" /\ Cardinality(Parked) < Workers

\* shutdown_lock can be read: the stop task does not hold it.
ShutdownReadable == stop # "guarding"
-----------------------------------------------------------------------------
(***************************************************************************)
(* srv(), on the thread of block_on.                                       *)
(***************************************************************************)
\* Sockets adopted from systemd or bound.
Bind ==
  /\ main = "binding"
  /\ main' = "spawning"
  /\ UNCHANGED <<stop, abort, signalled, server, reaped, task, missed>>

\* The first ? that fails returns; the stop task stays behind, detached.
BindFails ==
  /\ main = "binding"
  /\ main' = "failed"
  /\ UNCHANGED <<stop, abort, signalled, server, reaped, task, missed>>

Spawn(s) ==
  /\ main = "spawning" /\ server[s] = "none"
  /\ \A t \in SpawnedBefore[s] : server[t] # "none"
  /\ server' = [server EXCEPT ![s] = "running"]
  /\ main' = IF s = "h3" THEN "joining" ELSE main
  /\ UNCHANGED <<stop, abort, signalled, reaped, task, missed>>

\* Mutation: the other servers are not told.
JoinOnly(s) ==
  /\ main = "joining" /\ server[s] = "ended" /\ s \notin reaped
  /\ reaped' = reaped \cup {s}
  /\ UNCHANGED <<main, stop, abort, signalled, server, task, missed>>

\* join_next() returns a server that ended: abort the stop task, so that the
\* guard is released and the others end too.
Join(s) ==
  /\ main = "joining" /\ server[s] = "ended" /\ s \notin reaped
  /\ reaped' = reaped \cup {s}
  /\ abort' = TRUE
  /\ UNCHANGED <<main, stop, signalled, server, task, missed>>

\* Mutation: one join_next() for the while loop.
JoinFirst ==
  /\ main = "joining" /\ reaped # {}
  /\ main' = "drain"
  /\ UNCHANGED <<stop, abort, signalled, server, reaped, task, missed>>

JoinDone ==
  /\ main = "joining" /\ reaped = Server
  /\ main' = "drain"
  /\ UNCHANGED <<stop, abort, signalled, server, reaped, task, missed>>

\* conn_lock.write() finds a reader: the writer bit is set, the thread waits.
WriteBlocks ==
  /\ main = "drain" /\ Readers # {}
  /\ main' = "wait"
  /\ UNCHANGED <<stop, abort, signalled, server, reaped, task, missed>>

\* conn_lock.write() succeeds, at once or after the wait.
Acquire ==
  /\ main \in {"drain", "wait"} /\ Readers = {}
  /\ main' = "locked"
  /\ UNCHANGED <<stop, abort, signalled, server, reaped, task, missed>>

\* The guard goes out of its block: the lock is free again.
Release ==
  /\ main = "locked"
  /\ main' = "leaving"
  /\ UNCHANGED <<stop, abort, signalled, server, reaped, task, missed>>

\* srv() and then main() return; the process ends, with whatever tasks there are.
Exit ==
  /\ main = "leaving"
  /\ main' = "exit"
  /\ UNCHANGED <<stop, abort, signalled, server, reaped, task, missed>>
-----------------------------------------------------------------------------
(***************************************************************************)
(* The stop task.                                                          *)
(***************************************************************************)
\* Mutation: `let _ = shutdown_lock.write().await` drops the guard at once.
GuardDropped ==
  /\ FreeWorker /\ stop = "spawned"
  /\ stop' = "fired"
  /\ UNCHANGED <<main, abort, signalled, server, reaped, task, missed>>

\* Polled for the first time: it takes the write guard.
Guard ==
  /\ FreeWorker /\ stop = "spawned" /\ ~abort
  /\ stop' = "guarding"
  /\ UNCHANGED <<main, abort, signalled, server, reaped, task, missed>>

\* A signal arrives while graceful_shutdown listens for one.
Signal ==
  /\ stop = "guarding" /\ ~signalled
  /\ signalled' = TRUE
  /\ UNCHANGED <<main, stop, abort, server, reaped, task, missed>>

\* Mutation: the guard outlives graceful_shutdown, until the task is aborted.
StopKeepsGuard ==
  /\ FreeWorker /\ stop = "guarding" /\ signalled /\ abort
  /\ stop' = "fired"
  /\ UNCHANGED <<main, abort, signalled, server, reaped, task, missed>>

\* graceful_shutdown is over: the task ends and drops the guard.
StopFires ==
  /\ FreeWorker /\ stop = "guarding" /\ signalled
  /\ stop' = "fired"
  /\ UNCHANGED <<main, abort, signalled, server, reaped, task, missed>>

\* The abort takes effect, before the first poll or at the await.
StopAborted ==
  /\ FreeWorker /\ stop \in {"spawned", "guarding"} /\ abort
  /\ stop' = "aborted"
  /\ UNCHANGED <<main, abort, signalled, server, reaped, task, missed>>
-----------------------------------------------------------------------------
(***************************************************************************)
(* The accept loops.  select! may take either branch when both are ready.  *)
(***************************************************************************)
\* Mutation: accept() runs in a task of its own, which select! does not cancel.
AcceptUncancelled(s, k) ==
  /\ FreeWorker /\ server[s] # "none" /\ task[k] = "none"
  /\ task' = [task EXCEPT ![k] = "queued"]
  /\ UNCHANGED <<main, stop, abort, signalled, server, reaped, missed>>

Accept(s, k) ==
  /\ FreeWorker /\ server[s] = "running" /\ task[k] = "none"
  /\ task' = [task EXCEPT ![k] = "queued"]
  /\ UNCHANGED <<main, stop, abort, signalled, server, reaped, missed>>

SeeShutdown(s) ==
  /\ FreeWorker /\ server[s] = "running" /\ ShutdownReadable
  /\ server' = [server EXCEPT ![s] = "ended"]
  /\ UNCHANGED <<main, stop, abort, signalled, reaped, task, missed>>

\* h3 cannot start (any ? before its loop), or its QUIC endpoint closes.
H3Ends ==
  /\ FreeWorker /\ server["h3"] = "running"
  /\ server' = [server EXCEPT !["h3"] = "ended"]
  /\ UNCHANGED <<main, stop, abort, signalled, reaped, task, missed>>
-----------------------------------------------------------------------------
(***************************************************************************)
(* The task of a connection.                                               *)
(***************************************************************************)
\* k takes its read guard; after the wait nobody waits for it any more.
Enter(k) ==
  /\ task' = [task EXCEPT ![k] = "serving"]
  /\ missed' = IF main = "leaving" THEN missed \cup {k} ELSE missed

\* First poll: conn_lock.read() with no writer that has or waits for the lock.
Poll(k) ==
  /\ FreeWorker /\ task[k] = "queued" /\ main \notin {"wait", "locked"}
  /\ Enter(k)
  /\ UNCHANGED <<main, stop, abort, signalled, server, reaped>>

\* First poll under a writer: parking_lot admits no new reader and blocks the
\* worker thread.
Park(k) ==
  /\ FreeWorker /\ task[k] = "queued" /\ main \in {"wait", "locked"}
  /\ task' = [task EXCEPT ![k] = "parked"]
  /\ UNCHANGED <<main, stop, abort, signalled, server, reaped, missed>>

\* The writer has released the lock, read() returns.
Wake(k) ==
  /\ task[k] = "parked" /\ main = "leaving"
  /\ Enter(k)
  /\ UNCHANGED <<main, stop, abort, signalled, server, reaped>>

\* Mutation: the connection takes the read lock again for each request, and its
\* last one never gets it.
CloseRelocks(k) ==
  /\ FreeWorker /\ task[k] = "serving" /\ main # "wait"
  /\ task' = [task EXCEPT ![k] = "closed"]
  /\ UNCHANGED <<main, stop, abort, signalled, server, reaped, missed>>

\* The client closes, or the connection fails; the guard is dropped.
Close(k) ==
  /\ FreeWorker /\ task[k] = "serving"
  /\ task' = [task EXCEPT ![k] = "closed"]
  /\ UNCHANGED <<main, stop, abort, signalled, server, reaped, missed>>
-----------------------------------------------------------------------------
\* srv() waits for a connection that no worker thread is left to poll: what
\* DrainCompletes comes to where it fails.
Blocked == main = "wait" /\ Readers # {} /\ ~FreeWorker

\* The process is over, or stands still for good.
Done == (main \in {"exit", "failed"} \/ Blocked) /\ UNCHANGED vars

SrvStep == Bind \/ BindFails \/ JoinDone \/ WriteBlocks \/ Acquire \/ Release \/ Exit
           \/ \E s \in Server : Spawn(s) \/ Join(s)
StopStep == Guard \/ Signal \/ StopFires \/ StopAborted
ServerStep == H3Ends \/ \E s \in Server : SeeShutdown(s) \/ \E k \in Conn : Accept(s, k)
ConnStep == \E k \in Conn : Poll(k) \/ Park(k) \/ Wake(k) \/ Close(k)

Next == SrvStep \/ StopStep \/ ServerStep \/ ConnStep \/ Done

Spec == Init /\ [][Next]_vars

(***************************************************************************)
(* tokio polls every task that is ready and the OS runs the main thread.   *)
(* A signal need not come, h3 need not fail and clients need not connect,  *)
(* but a client does close its connection in the end: nothing in the       *)
(* gateway closes one, so only the clients can end a drain.                *)
(***************************************************************************)
Fairness ==
  /\ WF_vars(Bind \/ BindFails) /\ WF_vars(JoinDone)
  /\ WF_vars(WriteBlocks \/ Acquire) /\ WF_vars(Release) /\ WF_vars(Exit)
  /\ \A s \in Server : WF_vars(Spawn(s)) /\ WF_vars(Join(s)) /\ WF_vars(SeeShutdown(s))
  /\ WF_vars(Guard) /\ WF_vars(StopFires) /\ WF_vars(StopAborted)
  /\ \A k \in Conn : WF_vars(Poll(k) \/ Park(k)) /\ WF_vars(Wake(k)) /\ WF_vars(Close(k))

FairSpec == Spec /\ Fairness
-----------------------------------------------------------------------------
(***************************************************************************)
(* Properties.                                                             *)
(***************************************************************************)
\* srv() as GracefulStop sees it.
Process == CASE main \in {"locked", "leaving"} -> "closing"
             [] main = "exit"                  -> "returned"
             [] main = "failed"                -> "failed"
             [] OTHER                          -> "up"
Loops == [s \in Server |-> CASE server[s] = "running" -> "open"
                             [] server[s] = "ended"   -> "shut"
                             [] OTHER                 -> "none"]
Clients == [k \in Conn |->
              CASE task[k] \in {"queued", "parked"} -> "admitted"
                [] task[k] = "serving"              -> IF k \in missed THEN "late" ELSE "served"
                [] task[k] = "closed"               -> "gone"
                [] OTHER                            -> "none"]
Stop == INSTANCE GracefulStop WITH
  Loop <- Server, Client <- Conn, process <- Process, loop <- Loops, client <- Clients

\* Every task and srv() are in one of their states.
TypeOK ==
  /\ main \in MainState
  /\ stop \in StopState
  /\ abort \in BOOLEAN /\ signalled \in BOOLEAN
  /\ server \in [Server -> ServerState] /\ reaped \subseteq Server
  /\ task \in [Conn -> ConnState] /\ missed \subseteq Conn

Draining == main \in {"drain", "wait", "locked", "leaving", "exit"}

\* srv() starts to wait for the connections only when no accept loop is left
\* that could bring a new one.
DrainAfterAccept == Draining => \A s \in Server : server[s] = "ended"

\* What the log says of the end, "all connections are closed, the process exits":
\* no connection is in service when it does.  One that was not polled before the
\* lock was had is woken or polled when it is released, and cut off.
NobodyCutOff == main = "exit" => Readers = {}

\* The first accept loop to see the shutdown saw a real one, or was polled
\* before the stop task: a guard that is held keeps all of them running.
FirstStopHasCause ==
  [][\A s \in Server :
       SeeShutdown(s) /\ (\A t \in Server : server[t] # "ended")
         => signalled \/ stop = "spawned"]_vars

\* srv() keeps the promise of GracefulStop: it admits clients only while a server
\* is open, and waits for those it serves; who comes into service behind the
\* wait may be cut off.
StopSpec == Stop!Spec

\* Accepted, and not in service yet.
Late == {k \in Conn : task[k] \in {"queued", "parked"}}

\* A drain with a worker thread to spare.
Ample == Draining /\ Cardinality(Late) < Workers

\* When one server ends, for whatever reason, all of them end.
OneDownAllDown ==
  (\E s \in Server : server[s] = "ended") ~> (\A s \in Server : server[s] = "ended")

\* A signal is followed by the end of srv(), by its error or with all servers
\* ended, or by the one way in which it can hang: worker threads all blocked.
SignalEndsProcess == signalled ~> main \in {"exit", "failed"} \/ Blocked

\* A connection that came into service before the wait was over is served until
\* its client closes it, stop or no stop, unless the drain blocks.
ServedUntilClosed ==
  \A k \in Conn : task[k] = "serving" /\ k \notin missed ~> task[k] = "closed" \/ Blocked

\* With the connections closed by their clients, the wait for them ends.
DrainCompletes == main = "drain" ~> main = "exit"

\* It does whenever fewer connections come late than there are worker threads.
AmpleDrainCompletes == main = "drain" /\ Ample ~> main = "exit"
=============================================================================
