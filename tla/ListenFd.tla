------------------------------- MODULE ListenFd -------------------------------
(***************************************************************************)
(* How srv() comes to its sockets: those inherited from systemd, by their  *)
(* address, before it binds its own.                                       *)
(***************************************************************************)
EXTENDS Naturals, Sequences

CONSTANTS Addr,      \* socket addresses
          Overlap,   \* pairs of addresses that two sockets of a kind cannot both bind
          Inherited, \* the sequences of sockets that a parent may hand over
          Wanted     \* the h1_addr, h2_addr and h3_addr that srv() may be called with

Server == {"h1", "h2", "h3"}
KindOf == [h1 |-> "tcp", h2 |-> "tcp", h3 |-> "udp"]
After == [h1 |-> "h2", h2 |-> "h3", h3 |-> "serving"]

\* "other": what is no listening TCP and no UDP socket.
Socket == [kind : {"tcp", "udp", "other"}, addr : Addr]

VARIABLES
  fds,     \* the sockets that were inherited
  wanted,  \* wanted[s]: the address of server s
  phase,   \* "scan", the server whose socket is next, "serving", "failed"
  i,       \* the socket the scan is at
  kept,    \* kept[k][a]: the socket in the map of kind k under a; 0 is none
  open,    \* the inherited sockets that are open
  adopted, \* adopted[s]: the inherited socket that s accepts on; 0 is none
  bound    \* servers with a socket of their own

listenVars == <<fds, wanted, phase, i, kept, open, adopted, bound>>

Phase == {"scan", "serving", "failed"} \cup Server

Init ==
  /\ fds \in Inherited /\ wanted \in Wanted
  /\ phase = "scan" /\ i = 1
  /\ kept = [k \in {"tcp", "udp"} |-> [a \in Addr |-> 0]]
  /\ open = DOMAIN fds
  /\ adopted = [s \in Server |-> 0] /\ bound = {}
-----------------------------------------------------------------------------
\* Mutation: the maps keep all the sockets of an address.
ScanKeepsAll ==
  /\ phase = "scan" /\ i \in DOMAIN fds
  /\ i' = i + 1
  /\ LET f == fds[i] IN
     kept' = IF f.kind = "other" THEN kept ELSE [kept EXCEPT ![f.kind][f.addr] = i]
  /\ UNCHANGED <<fds, wanted, phase, open, adopted, bound>>

\* Mutation: the scan asks for TCP listeners only.
ScanTcp ==
  /\ phase = "scan" /\ i \in DOMAIN fds
  /\ i' = i + 1
  /\ LET f == fds[i] IN
     IF f.kind # "tcp" THEN UNCHANGED <<kept, open>>
     ELSE /\ kept' = [kept EXCEPT ![f.kind][f.addr] = i]
          /\ open' = open \ {kept[f.kind][f.addr]}
  /\ UNCHANGED <<fds, wanted, phase, adopted, bound>>

\* socket_from_listenfd: insert() closes the socket that had the same address.
\* What is of another kind stays where it is.
Scan ==
  /\ phase = "scan" /\ i \in DOMAIN fds
  /\ i' = i + 1
  /\ LET f == fds[i] IN
     IF f.kind = "other" THEN UNCHANGED <<kept, open>>
     ELSE /\ kept' = [kept EXCEPT ![f.kind][f.addr] = i]
          /\ open' = open \ {kept[f.kind][f.addr]}
  /\ UNCHANGED <<fds, wanted, phase, adopted, bound>>

ScanDone ==
  /\ phase = "scan" /\ i \notin DOMAIN fds
  /\ phase' = "h1"
  /\ UNCHANGED <<fds, wanted, i, kept, open, adopted, bound>>

\* set_nonblocking, local_addr or from_std fails.
Fails ==
  /\ \/ phase = "scan" /\ i \in DOMAIN fds /\ fds[i].kind # "other"
     \/ phase \in {"h1", "h2"} /\ kept["tcp"][wanted[phase]] # 0
  /\ phase' = "failed"
  /\ UNCHANGED <<fds, wanted, i, kept, open, adopted, bound>>

KeptFor(s) == kept[KindOf[s]][wanted[s]]

\* Mutation: get() for remove().
AdoptShared(s) ==
  /\ phase = s /\ KeptFor(s) # 0
  /\ adopted' = [adopted EXCEPT ![s] = KeptFor(s)]
  /\ phase' = After[s]
  /\ UNCHANGED <<fds, wanted, i, kept, open, bound>>

\* get_or_create_*: the socket moves out of its map.
Adopt(s) ==
  /\ phase = s /\ KeptFor(s) # 0
  /\ adopted' = [adopted EXCEPT ![s] = KeptFor(s)]
  /\ kept' = [kept EXCEPT ![KindOf[s]][wanted[s]] = 0]
  /\ phase' = After[s]
  /\ UNCHANGED <<fds, wanted, i, open, bound>>

\* The kernel refuses an address that overlaps that of an open socket.
InUse(s) ==
  \/ \E j \in open : fds[j].kind = KindOf[s] /\ <<fds[j].addr, wanted[s]>> \in Overlap
  \/ \E t \in bound : KindOf[t] = KindOf[s] /\ <<wanted[t], wanted[s]>> \in Overlap

Bind(s) ==
  /\ phase = s /\ KeptFor(s) = 0 /\ ~InUse(s)
  /\ bound' = bound \cup {s}
  /\ phase' = After[s]
  /\ UNCHANGED <<fds, wanted, i, kept, open, adopted>>

\* In use, by a socket of this process or of another, or not permitted.
BindFails(s) ==
  /\ phase = s /\ KeptFor(s) = 0
  /\ phase' = "failed"
  /\ UNCHANGED <<fds, wanted, i, kept, open, adopted, bound>>

Listen == Scan \/ ScanDone \/ Fails \/ \E s \in Server : Adopt(s) \/ Bind(s) \/ BindFails(s)

Spec == Init /\ [][Listen]_listenVars
-----------------------------------------------------------------------------
ListenTypeOK ==
  /\ fds \in Seq(Socket) /\ wanted \in [Server -> Addr]
  /\ phase \in Phase /\ i \in 1 .. Len(fds) + 1
  /\ kept \in [{"tcp", "udp"} -> [Addr -> 0 .. Len(fds)]]
  /\ open \subseteq DOMAIN fds
  /\ adopted \in [Server -> 0 .. Len(fds)] /\ bound \subseteq Server

Matches(j, s) == fds[j].kind = KindOf[s] /\ fds[j].addr = wanted[s]

\* Each server accepts on an open socket of its own kind and address, which no
\* other server has.
OwnSocket ==
  \A s \in Server : adopted[s] # 0 =>
    /\ adopted[s] \in open /\ Matches(adopted[s], s)
    /\ s \notin bound
    /\ \A t \in Server \ {s} : adopted[t] # adopted[s]

\* A server never has to bind, nor fails to, while a socket for it was handed over
\* that no other server took.
AdoptsInherited ==
  \A s \in Server : s \in bound \/ (phase = s /\ KeptFor(s) = 0) =>
    \A j \in open : Matches(j, s) => \E t \in Server \ {s} : adopted[t] = j

\* Of sockets that share the address of a server, by SO_REUSEPORT, only the one
\* it accepts on stays open: the kernel would give part of the connections to
\* one that nobody accepts on.
NoTwinLeft ==
  phase = "serving" =>
    \A s \in Server : \A j \in open : adopted[s] # 0 /\ Matches(j, s) => j = adopted[s]
=============================================================================
