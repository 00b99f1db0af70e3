------------------------------ MODULE ConnLease ------------------------------
(***************************************************************************)
(* What a pool of upstream connections owes the requests that use it.      *)
(* The right to write on a connection (the Sender of pooled_fetch) is a    *)
(* lease: one request holds it, or it lies free in the pool, or it is gone *)
(* for good.  pooled_fetch moves a Sender out of the pool with             *)
(* ptr::read, so a lease given twice would be one Sender with two owners.  *)
(***************************************************************************)
CONSTANTS Conn,  \* connections
          Req    \* requests

VARIABLES users, \* users[c]: the requests that hold the lease of c
          free,  \* the leases that lie in the pool
          gone   \* the leases that were destroyed or lost

vars == <<users, free, gone>>

Init ==
  /\ users = [c \in Conn |-> {}]
  /\ free = {}
  /\ gone = {}

\* A request opens a connection that nobody ever had.
Open(r, c) ==
  /\ users[c] = {} /\ c \notin free \cup gone
  /\ users' = [users EXCEPT ![c] = {r}]
  /\ UNCHANGED <<free, gone>>

\* A request takes a free lease.
Take(r, c) ==
  /\ c \in free /\ users[c] = {}
  /\ users' = [users EXCEPT ![c] = {r}]
  /\ free' = free \ {c}
  /\ UNCHANGED gone

\* The holder gives the lease back; the pool may lose other free leases.
Return(r, c, lost) ==
  /\ users[c] = {r}
  /\ lost \subseteq free
  /\ users' = [users EXCEPT ![c] = {}]
  /\ free' = (free \ lost) \cup {c}
  /\ gone' = gone \cup lost

\* The holder destroys the lease.
Destroy(r, c) ==
  /\ users[c] = {r}
  /\ users' = [users EXCEPT ![c] = {}]
  /\ gone' = gone \cup {c}
  /\ UNCHANGED free

\* The pool loses free leases.
Lose(lost) ==
  /\ lost \subseteq free
  /\ free' = free \ lost
  /\ gone' = gone \cup lost
  /\ UNCHANGED users

Next ==
  \/ \E r \in Req, c \in Conn :
        Open(r, c) \/ Take(r, c) \/ Destroy(r, c)
  \/ \E r \in Req, c \in Conn, lost \in SUBSET Conn : Return(r, c, lost)
  \/ \E lost \in SUBSET Conn : Lose(lost)

Spec == Init /\ [][Next]_vars
-----------------------------------------------------------------------------
\* A lease that was destroyed or lost never comes back, to a request or to the
\* pool: nobody writes on a Sender that was dropped.
GoneForGood ==
  [][\A c \in gone : c \in gone' /\ c \notin free' /\ users'[c] = {}]_vars
=============================================================================
