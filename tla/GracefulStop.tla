----------------------------- MODULE GracefulStop -----------------------------
(***************************************************************************)
(* What srv() promises of its end: clients are admitted only by a server   *)
(* that is open, a server that shut never opens again, and the process     *)
(* closes only when all servers are shut and no client is being served.    *)
(* A client that was admitted and not served by then is not waited for: it *)
(* may come into service late, and the return cuts it off.                 *)
(***************************************************************************)
CONSTANTS Loop,  \* the servers
          Client \* their clients

VARIABLES process, \* "up", "closing", "returned", or "failed" before any server opened
          loop,    \* loop[s]: "none", "open", "shut"
          client   \* client[k]: "none", "admitted", "served", "late", "gone"

vars == <<process, loop, client>>

Init ==
  /\ process = "up"
  /\ loop = [s \in Loop |-> "none"]
  /\ client = [k \in Client |-> "none"]

Fail ==
  /\ process = "up" /\ \A s \in Loop : loop[s] = "none"
  /\ process' = "failed"
  /\ UNCHANGED <<loop, client>>

Open(s) ==
  /\ process = "up" /\ loop[s] = "none"
  /\ loop' = [loop EXCEPT ![s] = "open"]
  /\ UNCHANGED <<process, client>>

Shut(s) ==
  /\ process = "up" /\ loop[s] = "open"
  /\ loop' = [loop EXCEPT ![s] = "shut"]
  /\ UNCHANGED <<process, client>>

Admit(k) ==
  /\ process = "up" /\ client[k] = "none"
  /\ \E s \in Loop : loop[s] = "open"
  /\ client' = [client EXCEPT ![k] = "admitted"]
  /\ UNCHANGED <<process, loop>>

Serve(k) ==
  /\ process = "up" /\ client[k] = "admitted"
  /\ client' = [client EXCEPT ![k] = "served"]
  /\ UNCHANGED <<process, loop>>

ServeLate(k) ==
  /\ process = "closing" /\ client[k] = "admitted"
  /\ client' = [client EXCEPT ![k] = "late"]
  /\ UNCHANGED <<process, loop>>

Leave(k) ==
  /\ process \in {"up", "closing"} /\ client[k] \in {"served", "late"}
  /\ client' = [client EXCEPT ![k] = "gone"]
  /\ UNCHANGED <<process, loop>>

\* The wait for the clients is over.
WaitOver ==
  /\ process = "up" /\ \A s \in Loop : loop[s] = "shut"
  /\ \A k \in Client : client[k] # "served"
  /\ process' = "closing"
  /\ UNCHANGED <<loop, client>>

Return ==
  /\ process = "closing"
  /\ process' = "returned"
  /\ UNCHANGED <<loop, client>>

Next ==
  \/ Fail \/ WaitOver \/ Return
  \/ \E s \in Loop : Open(s) \/ Shut(s)
  \/ \E k \in Client : Admit(k) \/ Serve(k) \/ ServeLate(k) \/ Leave(k)

Spec == Init /\ [][Next]_vars
-----------------------------------------------------------------------------
\* A client in service stays so until it leaves, and none is by the time the
\* process closes: the return cuts off nobody who was served before.
ServedStay ==
  [][\A k \in Client : client[k] = "served" =>
       client'[k] \in {"served", "gone"} /\ process' \in {"up", "failed"}]_vars
=============================================================================
