------------------------------ MODULE Srv_proofs ------------------------------
(***************************************************************************)
(* Any number of connections and of worker threads: what srv() guarantees  *)
(* of its drain.                                                           *)
(***************************************************************************)
EXTENDS Srv, FiniteSetTheorems, TLAPS

\* What keeps the drain safe: servers exist only once srv() is past the binds,
\* all of them once it joins, and a server is reaped only when it has ended.
Joined ==
  /\ main \in {"binding", "failed"} => \A s \in Server : server[s] = "none"
  /\ main = "spawning" => server["h3"] = "none"
  /\ \A s \in reaped : server[s] = "ended"
  /\ Draining => reaped = Server

\* A connection was accepted by a server.
Begun == main \in {"binding", "failed"} => \A k \in Conn : task[k] = "none"

\* From the moment the lock is had nobody is in service who was so before it
\* was released, and before that nobody came late.
OnlyMissed ==
  /\ main \in {"locked", "leaving", "exit"} => Readers \subseteq missed
  /\ missed # {} => main \in {"leaving", "exit"}

IInv == TypeOK /\ Joined /\ Begun /\ OnlyMissed

LEMMA InitIInv == Init => IInv
  BY DEF Init, IInv, TypeOK, Joined, Begun, Draining, OnlyMissed, Readers,
         MainState, StopState, ServerState, ConnState, Server

LEMMA StepTypeOK == IInv /\ [Next]_vars => TypeOK'
<1> SUFFICES ASSUME IInv, [Next]_vars PROVE TypeOK'
  OBVIOUS
<1> USE DEF IInv
<1>1. CASE Bind
  BY <1>1 DEF Bind, TypeOK, MainState, StopState, ServerState, ConnState
<1>2. CASE BindFails
  BY <1>2 DEF BindFails, TypeOK, MainState, StopState, ServerState, ConnState
<1>3. ASSUME NEW s \in Server, Spawn(s) PROVE TypeOK'
  BY <1>3 DEF Spawn, SpawnedBefore, Server, TypeOK, MainState, StopState, ServerState, ConnState
<1>4. ASSUME NEW s \in Server, Join(s) PROVE TypeOK'
  BY <1>4 DEF Join, TypeOK, MainState, StopState, ServerState, ConnState
<1>5. CASE JoinDone
  BY <1>5 DEF JoinDone, TypeOK, MainState, StopState, ServerState, ConnState
<1>6. CASE WriteBlocks
  BY <1>6 DEF WriteBlocks, TypeOK, MainState, StopState, ServerState, ConnState
<1>7. CASE Acquire \/ Release \/ Exit
  BY <1>7 DEF Acquire, Release, Exit, TypeOK, MainState, StopState, ServerState, ConnState
<1>8. CASE StopStep
  BY <1>8 DEF StopStep, Guard, Signal, StopFires, StopAborted, TypeOK, MainState, StopState, ServerState, ConnState
<1>9. ASSUME NEW s \in Server, NEW k \in Conn, Accept(s, k) PROVE TypeOK'
  BY <1>9 DEF Accept, FreeWorker, TypeOK, MainState, StopState, ServerState, ConnState
<1>10. ASSUME NEW s \in Server, SeeShutdown(s) PROVE TypeOK'
  BY <1>10 DEF SeeShutdown, TypeOK, MainState, StopState, ServerState, ConnState
<1>11. CASE H3Ends
  BY <1>11 DEF H3Ends, Server, TypeOK, MainState, StopState, ServerState, ConnState
<1>12. ASSUME NEW k \in Conn, Poll(k) \/ Park(k) \/ Wake(k) PROVE TypeOK'
  BY <1>12 DEF Poll, Park, Wake, Enter, FreeWorker, TypeOK, MainState, StopState, ServerState, ConnState
<1>13. ASSUME NEW k \in Conn, Close(k) PROVE TypeOK'
  BY <1>13 DEF Close, FreeWorker, TypeOK, MainState, StopState, ServerState, ConnState
<1>14. CASE UNCHANGED vars
  BY <1>14 DEF vars, TypeOK, MainState, StopState, ServerState, ConnState
<1> QED
  BY <1>1, <1>2, <1>3, <1>4, <1>5, <1>6, <1>7, <1>8, <1>9, <1>10, <1>11, <1>12, <1>13, <1>14
  DEF Next, SrvStep, ServerStep, ConnStep, Done

\* Whatever the stop task and the connections do, servers are spawned, end and
\* are reaped in this order, and only JoinDone starts the drain.
LEMMA StepJoined == IInv /\ [Next]_vars => Joined'
<1> SUFFICES ASSUME IInv, [Next]_vars PROVE Joined'
  OBVIOUS
<1> USE DEF IInv
<1>1. CASE Bind
  BY <1>1 DEF Bind, Joined, Draining, TypeOK, Server
<1>2. CASE BindFails
  BY <1>2 DEF BindFails, Joined, Draining, TypeOK
<1>3. ASSUME NEW s \in Server, Spawn(s) PROVE Joined'
  BY <1>3 DEF Spawn, SpawnedBefore, Server, Joined, Draining, TypeOK
<1>4. ASSUME NEW s \in Server, Join(s) PROVE Joined'
  BY <1>4 DEF Join, Joined, Draining, TypeOK
<1>5. CASE JoinDone
  BY <1>5 DEF JoinDone, Joined, Draining, TypeOK
<1>6. CASE WriteBlocks
  BY <1>6 DEF WriteBlocks, Joined, Draining, TypeOK
<1>7. CASE Acquire \/ Release \/ Exit
  BY <1>7 DEF Acquire, Release, Exit, Joined, Draining, TypeOK
<1>8. CASE StopStep
  BY <1>8 DEF StopStep, Guard, Signal, StopFires, StopAborted, Joined, Draining, TypeOK
<1>9. ASSUME NEW s \in Server, NEW k \in Conn, Accept(s, k) PROVE Joined'
  BY <1>9 DEF Accept, FreeWorker, Joined, Draining, TypeOK
<1>10. ASSUME NEW s \in Server, SeeShutdown(s) PROVE Joined'
  BY <1>10 DEF SeeShutdown, Joined, Draining, TypeOK
<1>11. CASE H3Ends
  BY <1>11 DEF H3Ends, Server, Joined, Draining, TypeOK
<1>12. ASSUME NEW k \in Conn, Poll(k) \/ Park(k) \/ Wake(k) PROVE Joined'
  BY <1>12 DEF Poll, Park, Wake, Enter, FreeWorker, Joined, Draining, TypeOK
<1>13. ASSUME NEW k \in Conn, Close(k) PROVE Joined'
  BY <1>13 DEF Close, FreeWorker, Joined, Draining, TypeOK
<1>14. CASE UNCHANGED vars
  BY <1>14 DEF vars, Joined, Draining, TypeOK
<1> QED
  BY <1>1, <1>2, <1>3, <1>4, <1>5, <1>6, <1>7, <1>8, <1>9, <1>10, <1>11, <1>12, <1>13, <1>14
  DEF Next, SrvStep, ServerStep, ConnStep, Done

\* The lock is had when there is no reader, and none comes until it is released.
LEMMA StepOnlyMissed == IInv /\ [Next]_vars => OnlyMissed'
<1> SUFFICES ASSUME IInv, [Next]_vars PROVE OnlyMissed'
  OBVIOUS
<1> USE DEF IInv
<1>1. CASE Bind \/ BindFails \/ JoinDone \/ WriteBlocks
  BY <1>1 DEF Bind, BindFails, JoinDone, WriteBlocks, OnlyMissed, Readers
<1>2. CASE Acquire
  BY <1>2 DEF Acquire, OnlyMissed, Readers
<1>3. CASE Release
  BY <1>3 DEF Release, OnlyMissed, Readers
<1>4. CASE Exit
  BY <1>4 DEF Exit, OnlyMissed, Readers
<1>5. ASSUME NEW s \in Server, Spawn(s) \/ Join(s) PROVE OnlyMissed'
  BY <1>5 DEF Spawn, Join, OnlyMissed, Readers
<1>6. CASE StopStep
  BY <1>6 DEF StopStep, Guard, Signal, StopFires, StopAborted, OnlyMissed, Readers
<1>7. CASE H3Ends \/ \E s \in Server : SeeShutdown(s)
  BY <1>7 DEF H3Ends, SeeShutdown, OnlyMissed, Readers
<1>8. ASSUME NEW s \in Server, NEW k \in Conn, Accept(s, k) PROVE OnlyMissed'
  BY <1>8 DEF Accept, OnlyMissed, Readers, TypeOK
<1>9. ASSUME NEW k \in Conn, Poll(k) PROVE OnlyMissed'
  BY <1>9 DEF Poll, Enter, FreeWorker, OnlyMissed, Readers, TypeOK
<1>10. ASSUME NEW k \in Conn, Wake(k) PROVE OnlyMissed'
  BY <1>10 DEF Wake, Enter, OnlyMissed, Readers, TypeOK
<1>11. ASSUME NEW k \in Conn, Park(k) \/ Close(k) PROVE OnlyMissed'
  BY <1>11 DEF Park, Close, OnlyMissed, Readers, TypeOK
<1>12. CASE UNCHANGED vars
  BY <1>12 DEF vars, OnlyMissed, Readers
<1> QED
  BY <1>1, <1>2, <1>3, <1>4, <1>5, <1>6, <1>7, <1>8, <1>9, <1>10, <1>11, <1>12
  DEF Next, SrvStep, ServerStep, ConnStep, Done

\* Until the servers are spawned there is nobody to accept a connection.
LEMMA StepBegun == IInv /\ [Next]_vars => Begun'
<1> SUFFICES ASSUME IInv, [Next]_vars PROVE Begun'
  OBVIOUS
<1> USE DEF IInv
<1>1. CASE SrvStep
  BY <1>1 DEF SrvStep, Bind, BindFails, Spawn, Join, JoinDone, WriteBlocks, Acquire, Release, Exit, Begun
<1>2. CASE StopStep
  BY <1>2 DEF StopStep, Guard, Signal, StopFires, StopAborted, Begun
<1>3. CASE ServerStep
  BY <1>3 DEF ServerStep, H3Ends, SeeShutdown, Accept, Joined, Begun
<1>4. CASE ConnStep
  BY <1>4 DEF ConnStep, Poll, Park, Wake, Enter, Close, Begun
<1>5. CASE UNCHANGED vars
  BY <1>5 DEF vars, Begun
<1> QED
  BY <1>1, <1>2, <1>3, <1>4, <1>5 DEF Next, Done

LEMMA StepIInv == IInv /\ [Next]_vars => IInv'
  BY StepTypeOK, StepJoined, StepBegun, StepOnlyMissed DEF IInv

LEMMA Invariance == Spec => []IInv
  BY InitIInv, StepIInv, PTL DEF Spec

\* Every task and srv() stay in one of their states.
THEOREM TypeSafe == Spec => []TypeOK
<1>1. IInv => TypeOK
  BY DEF IInv
<1> QED
  BY <1>1, Invariance, PTL

\* srv() starts to drain only when all accept loops have ended.
THEOREM DrainStartsLast == Spec => []DrainAfterAccept
<1>1. IInv => DrainAfterAccept
  BY DEF IInv, Joined, DrainAfterAccept
<1> QED
  BY <1>1, Invariance, PTL

-----------------------------------------------------------------------------
(***************************************************************************)
(* The cause of a stop.  While the stop task holds the guard nothing but   *)
(* h3 ends, so a first end by the lock has a signal, or came before the    *)
(* guard.                                                                  *)
(***************************************************************************)
Cause ==
  /\ stop = "fired" => signalled
  /\ stop = "aborted" => abort
  /\ abort => reaped # {}

LEMMA CauseInvariance == Spec => []Cause
<1>1. Init => Cause
  BY DEF Init, Cause
<1>2. IInv /\ Cause /\ [Next]_vars => Cause'
  <2> SUFFICES ASSUME IInv, Cause, [Next]_vars PROVE Cause'
    OBVIOUS
  <2>1. CASE SrvStep
    BY <2>1 DEF Cause, SrvStep, Bind, BindFails, JoinDone, WriteBlocks, Acquire, Release, Exit,
           Spawn, Join
  <2>2. CASE StopStep
    BY <2>2 DEF Cause, StopStep, Guard, Signal, StopFires, StopAborted
  <2>3. CASE ServerStep
    BY <2>3 DEF Cause, ServerStep, H3Ends, SeeShutdown, Accept
  <2>4. CASE ConnStep
    BY <2>4 DEF Cause, ConnStep, Poll, Park, Wake, Close
  <2>5. CASE UNCHANGED vars
    BY <2>5 DEF Cause, vars
  <2> QED
    BY <2>1, <2>2, <2>3, <2>4, <2>5 DEF Next, Done
<1> QED
  BY <1>1, <1>2, Invariance, PTL DEF Spec

\* A first end by the lock follows a signal, or precedes the stop task's guard.
THEOREM FirstStop == Spec => FirstStopHasCause
<1>1. IInv /\ Cause =>
        \A s \in Server :
          SeeShutdown(s) /\ (\A t \in Server : server[t] # "ended")
            => signalled \/ stop = "spawned"
  BY DEF IInv, TypeOK, Joined, Cause, SeeShutdown, ShutdownReadable, StopState
<1> QED
  BY <1>1, Invariance, CauseInvariance, PTL DEF FirstStopHasCause
-----------------------------------------------------------------------------
(***************************************************************************)
(* Srv implements GracefulStop.  Its steps are those of the accept loops,  *)
(* of the connections, the end of the wait and the two ends of srv(); the  *)
(* stop task, the joins and who is parked are stutters.                                             *)
(***************************************************************************)
LEMMA InitStop == Init => Stop!Init
  BY DEF Init, Stop!Init, Process, Loops, Clients

LEMMA StepStop == IInv /\ [Next]_vars => [Stop!Next]_Stop!vars
<1> SUFFICES ASSUME IInv, [Next]_vars PROVE [Stop!Next]_Stop!vars
  OBVIOUS
<1> USE DEF IInv
<1>1. CASE BindFails
  <2>1. Process = "up" /\ Process' = "failed" /\ UNCHANGED <<Loops, Clients>>
    BY <1>1 DEF BindFails, Process, Loops, Clients
  <2>2. \A s \in Server : Loops[s] = "none"
    BY <1>1 DEF BindFails, Joined, Loops
  <2>3. Stop!Fail
    BY <2>1, <2>2 DEF Stop!Fail
  <2> QED
    BY <2>3 DEF Stop!Next
<1>2. ASSUME NEW s \in Server, Spawn(s) PROVE Stop!Next
  <2>1. Process = "up" /\ UNCHANGED <<Process, Clients>>
    BY <1>2 DEF Spawn, Process, Clients
  <2>2. Loops[s] = "none" /\ Loops' = [Loops EXCEPT ![s] = "open"]
    BY <1>2 DEF Spawn, Loops, TypeOK
  <2>3. Stop!Open(s)
    BY <2>1, <2>2 DEF Stop!Open
  <2> QED
    BY <2>3 DEF Stop!Next
<1>3. CASE Acquire
  <2>1. Process = "up" /\ Process' = "closing" /\ UNCHANGED <<Loops, Clients>>
    BY <1>3 DEF Acquire, Process, Loops, Clients
  <2>2. \A s \in Server : Loops[s] = "shut"
    BY <1>3 DEF Acquire, Joined, Draining, Loops
  <2>3. \A k \in Conn : Clients[k] # "served"
    BY <1>3 DEF Acquire, Readers, Clients
  <2>4. Stop!WaitOver
    BY <2>1, <2>2, <2>3 DEF Stop!WaitOver
  <2> QED
    BY <2>4 DEF Stop!Next
<1>4. CASE Exit
  <2>1. Stop!Return
    BY <1>4 DEF Exit, Process, Loops, Clients, Stop!Return
  <2> QED
    BY <2>1 DEF Stop!Next
<1>12. CASE Bind \/ JoinDone \/ WriteBlocks \/ Release \/ \E s \in Server : Join(s)
  BY <1>12 DEF Bind, JoinDone, WriteBlocks, Release, Join, Process, Loops, Clients, Stop!vars
<1>5. CASE StopStep
  BY <1>5 DEF StopStep, Guard, Signal, StopFires, StopAborted, Process, Loops, Clients, Stop!vars
<1>6. ASSUME NEW s \in Server, SeeShutdown(s) \/ (s = "h3" /\ H3Ends) PROVE Stop!Next
  <2>1. main \notin {"binding", "failed", "locked", "leaving", "exit"}
    BY <1>6 DEF SeeShutdown, H3Ends, Joined, Draining
  <2>2. Process = "up" /\ UNCHANGED <<Process, Clients>>
    BY <1>6, <2>1 DEF SeeShutdown, H3Ends, Process, Clients
  <2>3. Loops[s] = "open" /\ Loops' = [Loops EXCEPT ![s] = "shut"]
    BY <1>6 DEF SeeShutdown, H3Ends, Loops, TypeOK
  <2>4. Stop!Shut(s)
    BY <2>2, <2>3 DEF Stop!Shut
  <2> QED
    BY <2>4 DEF Stop!Next
<1>7. ASSUME NEW s \in Server, NEW k \in Conn, Accept(s, k) PROVE Stop!Next
  <2>1. main \notin {"binding", "failed", "locked", "leaving", "exit"}
    BY <1>7 DEF Accept, Joined, Draining
  <2>2. Process = "up" /\ UNCHANGED <<Process, Loops>>
    BY <1>7, <2>1 DEF Accept, Process, Loops
  <2>3. Loops[s] = "open" /\ Clients[k] = "none"
    BY <1>7 DEF Accept, Loops, Clients
  <2>4. Clients' = [Clients EXCEPT ![k] = "admitted"]
    BY <1>7 DEF Accept, Clients, TypeOK
  <2>5. Stop!Admit(k)
    BY <2>2, <2>3, <2>4 DEF Stop!Admit
  <2> QED
    BY <2>5 DEF Stop!Next
<1>8. ASSUME NEW k \in Conn, Poll(k) \/ Wake(k) PROVE Stop!Next
  <2>1. UNCHANGED <<Process, Loops>> /\ Clients[k] = "admitted"
    BY <1>8 DEF Poll, Wake, Process, Loops, Clients
  <2>2. CASE main = "leaving"
    <3>1. Process = "closing"
      BY <2>2 DEF Process
    <3>2. Clients' = [Clients EXCEPT ![k] = "late"]
      BY <1>8, <2>2 DEF Poll, Wake, Enter, Clients, TypeOK
    <3>3. Stop!ServeLate(k)
      BY <2>1, <3>1, <3>2 DEF Stop!ServeLate
    <3> QED
      BY <3>3 DEF Stop!Next
  <2>3. CASE main # "leaving"
    <3>1. main \notin {"failed", "exit", "locked"}
      BY <1>8, <2>3 DEF Poll, Wake, FreeWorker, Begun
    <3>2. Process = "up" /\ missed = {}
      BY <2>3, <3>1 DEF Process, OnlyMissed
    <3>3. Clients' = [Clients EXCEPT ![k] = "served"]
      BY <1>8, <2>3, <3>2 DEF Poll, Wake, Enter, Clients, TypeOK
    <3>4. Stop!Serve(k)
      BY <2>1, <3>2, <3>3 DEF Stop!Serve
    <3> QED
      BY <3>4 DEF Stop!Next
  <2> QED
    BY <2>2, <2>3
<1>9. ASSUME NEW k \in Conn, Close(k) PROVE Stop!Next
  <2>1. main # "failed" /\ main # "exit"
    BY <1>9 DEF Close, FreeWorker, Begun
  <2>2. Process \in {"up", "closing"} /\ UNCHANGED <<Process, Loops>>
    BY <1>9, <2>1 DEF Close, Process, Loops
  <2>3. Clients[k] \in {"served", "late"} /\ Clients' = [Clients EXCEPT ![k] = "gone"]
    BY <1>9 DEF Close, Clients, TypeOK
  <2>4. Stop!Leave(k)
    BY <2>2, <2>3 DEF Stop!Leave
  <2> QED
    BY <2>4 DEF Stop!Next
<1>11. ASSUME NEW k \in Conn, Park(k) PROVE UNCHANGED Stop!vars
  BY <1>11 DEF Park, Process, Loops, Clients, TypeOK, Stop!vars
<1>10. CASE UNCHANGED vars
  BY <1>10 DEF vars, Process, Loops, Clients, Stop!vars
<1> QED
  BY <1>1, <1>2, <1>3, <1>4, <1>5, <1>6, <1>7, <1>8, <1>9, <1>10, <1>11, <1>12
  DEF Next, SrvStep, ServerStep, ConnStep, Done, Server

\* srv() keeps the promise of GracefulStop, for any clients and workers.
THEOREM Implements == Spec => StopSpec
  BY InitStop, StepStop, Invariance, PTL DEF Spec, StopSpec, Stop!Spec
-----------------------------------------------------------------------------
(***************************************************************************)
(* Worker threads in the drain.  Only a worker thread could end a          *)
(* connection, only the end of one could free a worker thread: once all    *)
(* are blocked under a connection in service, nothing changes any more.    *)
(* It takes as many connections as worker threads that were accepted       *)
(* before the drain and polled in it.                                      *)
(***************************************************************************)
\* A blocked drain stays blocked, whatever signals arrive and clients do.
THEOREM BlockedForGood == Spec => [](Blocked => []Blocked)
<1>1. Blocked /\ [Next]_vars => Blocked'
  <2> SUFFICES ASSUME Blocked, [Next]_vars PROVE Blocked'
    OBVIOUS
  <2> USE DEF Blocked
  <2>1. CASE SrvStep
    BY <2>1 DEF SrvStep, Bind, BindFails, Spawn, Join, JoinDone, WriteBlocks, Acquire, Release, Exit
  <2>2. CASE StopStep
    BY <2>2 DEF StopStep, Guard, Signal, StopFires, StopAborted, Readers, FreeWorker, Parked
  <2>3. CASE ServerStep \/ ConnStep
    BY <2>3 DEF ServerStep, H3Ends, SeeShutdown, Accept, ConnStep, Poll, Park, Wake, Close
  <2>4. CASE UNCHANGED vars
    BY <2>4 DEF vars, Readers, FreeWorker, Parked
  <2> QED
    BY <2>1, <2>2, <2>3, <2>4 DEF Next, Done
<1> QED
  BY <1>1, PTL DEF Spec

\* A drain that begins with fewer connections to poll for the first time than
\* there are worker threads never blocks: no accept loop is left to bring more.
THEOREM FewLateNeverBlock ==
  ASSUME IsFiniteSet(Conn)
  PROVE  Spec => [](Ample => []~Blocked)
<1>1. IInv /\ Ample /\ [Next]_vars => Ample'
  <2> SUFFICES ASSUME IInv, Ample, [Next]_vars PROVE Ample'
    OBVIOUS
  <2> USE DEF IInv
  <2>1. Draining'
    BY DEF Ample, Draining, Next, Done, vars, SrvStep, Bind, BindFails, Spawn, Join, JoinDone,
           WriteBlocks, Acquire, Release, Exit, StopStep, Guard, Signal, StopFires, StopAborted,
           ServerStep, H3Ends, SeeShutdown, Accept, ConnStep, Poll, Park, Wake, Close
  <2>2. \A s \in Server, k \in Conn : ~Accept(s, k)
    BY DEF Ample, Joined, Accept
  <2>3. Late' \subseteq Late
    <3>1. CASE SrvStep
      BY <3>1 DEF SrvStep, Bind, BindFails, Spawn, Join, JoinDone, WriteBlocks, Acquire, Release, Exit,
             Late
    <3>2. CASE StopStep
      BY <3>2 DEF StopStep, Guard, Signal, StopFires, StopAborted, Late
    <3>3. CASE ServerStep
      BY <2>2, <3>3 DEF ServerStep, H3Ends, SeeShutdown, Late
    <3>4. CASE ConnStep
      BY <3>4 DEF ConnStep, Poll, Park, Wake, Enter, Close, Late, TypeOK
    <3>5. CASE UNCHANGED vars
      BY <3>5 DEF vars, Late
    <3> QED
      BY <3>1, <3>2, <3>3, <3>4, <3>5 DEF Next, Done
  <2>4. IsFiniteSet(Late) /\ Late \subseteq Conn
    BY FS_Subset DEF Late
  <2>5. Cardinality(Late') <= Cardinality(Late) /\ IsFiniteSet(Late')
    BY <2>3, <2>4, FS_Subset
  <2>6. Cardinality(Late') \in Nat /\ Cardinality(Late) \in Nat
    BY <2>4, <2>5, FS_CardinalityType
  <2>7. Cardinality(Late') < Workers
    BY <2>5, <2>6, WorkersAssumption DEF Ample
  <2> QED
    BY <2>1, <2>7 DEF Ample
<1>2. Ample => ~Blocked
  <2> SUFFICES ASSUME Ample, main = "wait" PROVE FreeWorker
    BY DEF Blocked
  <2>1. Parked \subseteq Late /\ Late \subseteq Conn
    BY DEF Parked, Late
  <2>2. IsFiniteSet(Late)
    BY <2>1, FS_Subset
  <2>3. IsFiniteSet(Parked) /\ Cardinality(Parked) <= Cardinality(Late)
    BY <2>1, <2>2, FS_Subset
  <2>4. Cardinality(Parked) \in Nat /\ Cardinality(Late) \in Nat
    BY <2>2, <2>3, FS_CardinalityType
  <2>5. Cardinality(Parked) < Workers
    BY <2>3, <2>4, WorkersAssumption DEF Ample
  <2> QED
    BY <2>5 DEF FreeWorker
<1> QED
  BY <1>1, <1>2, Invariance, PTL DEF Spec
-----------------------------------------------------------------------------
(***************************************************************************)
(* Who is cut off by the exit.                                             *)
(***************************************************************************)
\* Through GracefulStop, which it implements: a client that came into service
\* before the wait was over is served until it leaves, and the process does not
\* end before that.
THEOREM ServedAreNotCutOff == Spec => Stop!ServedStay
<1> DEFINE Over == \A k \in Conn : Process \notin {"up", "failed"} => Clients[k] # "served"
<1> DEFINE Stays == \A k \in Conn : Clients[k] = "served" =>
                      Clients'[k] \in {"served", "gone"} /\ Process' \in {"up", "failed"}
<1>1. IInv => Over
  BY DEF IInv, TypeOK, OnlyMissed, Readers, Process, Clients, MainState
<1>2. ASSUME Over, Stop!Next PROVE Stays
  <2>1. Clients = [k \in Conn |-> Clients[k]]
    BY DEF Clients
  <2>2. CASE Stop!Fail \/ Stop!WaitOver \/ Stop!Return
    BY <1>2, <2>2 DEF Stop!Fail, Stop!WaitOver, Stop!Return
  <2>3. ASSUME NEW s \in Server, Stop!Open(s) \/ Stop!Shut(s) PROVE Stays
    BY <2>3 DEF Stop!Open, Stop!Shut
  <2>4. ASSUME NEW l \in Conn, Stop!Admit(l) \/ Stop!Serve(l) \/ Stop!ServeLate(l) PROVE Stays
    BY <1>2, <2>1, <2>4 DEF Stop!Admit, Stop!Serve, Stop!ServeLate
  <2>5. ASSUME NEW l \in Conn, Stop!Leave(l) PROVE Stays
    BY <1>2, <2>1, <2>5 DEF Stop!Leave
  <2> QED
    BY <1>2, <2>2, <2>3, <2>4, <2>5 DEF Stop!Next
<1>3. Over /\ [Stop!Next]_(Stop!vars) =>
        [\A k \in Conn : Clients[k] = "served" =>
           Clients'[k] \in {"served", "gone"} /\ Process' \in {"up", "failed"}]_(Stop!vars)
  BY <1>2
<1> HIDE DEF Over
<1> QED
  BY <1>1, <1>3, StepStop, Invariance, PTL DEF Spec, Stop!ServedStay

\* The finding of srv_cut_off needs a connection that was accepted and not polled
\* when the wait was over: a drain without one cuts off nobody.
THEOREM NoneLateNoneCutOff ==
  Spec => [](main \in {"drain", "wait"} /\ Late = {} => []NobodyCutOff)
<1> DEFINE P == Draining /\ Late = {} /\ missed = {}
<1>1. IInv /\ P /\ [Next]_vars => P'
  <2> SUFFICES ASSUME IInv, P, [Next]_vars PROVE P'
    OBVIOUS
  <2> USE DEF IInv
  <2>1. \A k \in Conn : ~Poll(k) /\ ~Park(k) /\ ~Wake(k) /\ \A s \in Server : ~Accept(s, k)
    BY DEF Poll, Park, Wake, Accept, Late, Joined
  <2>2. CASE SrvStep
    BY <2>2 DEF SrvStep, Bind, BindFails, Spawn, Join, JoinDone, WriteBlocks, Acquire, Release, Exit,
             Draining, Late
  <2>3. CASE StopStep
    BY <2>3 DEF StopStep, Guard, Signal, StopFires, StopAborted, Draining, Late
  <2>4. CASE ServerStep
    BY <2>1, <2>4 DEF ServerStep, H3Ends, SeeShutdown, Draining, Late
  <2>5. CASE ConnStep
    BY <2>1, <2>5 DEF ConnStep, Close, Draining, Late, TypeOK
  <2>6. CASE UNCHANGED vars
    BY <2>6 DEF vars, Draining, Late
  <2> QED
    BY <2>2, <2>3, <2>4, <2>5, <2>6 DEF Next, Done
<1>2. IInv /\ main \in {"drain", "wait"} /\ Late = {} => P
  BY DEF IInv, OnlyMissed, Draining
<1>3. IInv /\ P => NobodyCutOff
  BY DEF IInv, OnlyMissed, NobodyCutOff
<1> QED
  BY <1>1, <1>2, <1>3, Invariance, PTL DEF Spec
=============================================================================
