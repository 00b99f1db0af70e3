--------------------------------- MODULE Boot ---------------------------------
(***************************************************************************)
(* The gateway from its configuration to its first clients: the program    *)
(* fills the table of sites and calls srv(), which comes to its sockets;   *)
(* a client asks h1 or, as browsers that were sent to https once do, h2    *)
(* or h3 at once, and follows the redirects it gets.                       *)
(***************************************************************************)
EXTENDS Naturals, Sequences

CONSTANTS Host, Parent, Name, Upstream, None, Addr, Overlap, Inherited, Wanted

VARIABLES
  upstream_site, host_conf, made,                                \* Route
  fds, wanted, phase, i, kept, open, adopted, bound,             \* ListenFd
  started, \* srv() was called: nothing can write the table any more
  host,    \* the host that the client asks for, None before it asks
  answer,  \* what h1 answered: "301", "404", "500", or None if it was not asked
  served,  \* what proxy() answered last: "site", "301", "404", "500", or None
  moved    \* how many redirects the client followed

routeVars == <<upstream_site, host_conf, made>>
listenVars == <<fds, wanted, phase, i, kept, open, adopted, bound>>
clientVars == <<host, answer, served, moved>>
vars == <<routeVars, listenVars, started, clientVars>>

Table == INSTANCE Route
Sockets == INSTANCE ListenFd

ASSUME BootAssumption ==
  /\ Parent \in [Host -> Host \cup {None}]
  /\ None \notin Host \cup Upstream \cup {"site", "301", "404", "500"}
  /\ Overlap \subseteq Addr \X Addr /\ \A a \in Addr : <<a, a>> \in Overlap
  /\ Inherited \subseteq Seq(Sockets!Socket)
  /\ Wanted \subseteq [Sockets!Server -> Addr]

Init ==
  /\ Table!Init /\ Sockets!Init
  /\ started = FALSE
  /\ host = None /\ answer = None /\ served = None /\ moved = 0

\* set and add_upstream take &mut Route, which srv() has behind an Arc.
Configure == ~started /\ Table!Configure /\ UNCHANGED <<listenVars, started, clientVars>>

Start ==
  /\ ~started
  /\ started' = TRUE
  /\ UNCHANGED <<routeVars, listenVars, clientVars>>

Listen == started /\ Sockets!Listen /\ UNCHANGED <<routeVars, started, clientVars>>

\* The client asks h1 for h.
AskH1(h) ==
  /\ phase = "serving" /\ host = None
  /\ \E reply \in Table!Redirect(h) :
       /\ answer' = reply[1] /\ host' = reply[2]
       /\ moved' = IF reply[1] = "301" THEN 1 ELSE 0
  /\ UNCHANGED <<routeVars, listenVars, started, served>>

\* It asks h2 or h3 for h: at once, or for the host it was sent to or, where h1 had
\* no redirect for it, for the same.
AskProxy(h) ==
  /\ phase = "serving" /\ host \in {None, h} /\ served = None
  /\ host' = h
  /\ served' \in Table!Lookup(h)
  /\ UNCHANGED <<routeVars, listenVars, started, answer, moved>>

\* It follows a redirect of proxy(), to https again.
Follow ==
  /\ served = "301"
  /\ host' = Parent[host] /\ moved' = moved + 1
  /\ served' \in Table!Lookup(Parent[host])
  /\ UNCHANGED <<routeVars, listenVars, started, answer>>

Quit ==
  /\ phase = "failed" \/ served \in {"site", "404", "500"}
  /\ UNCHANGED vars

Next ==
  \/ Configure \/ Start \/ Listen
  \/ \E h \in Host : AskH1(h) \/ AskProxy(h)
  \/ Follow \/ Quit

Spec == Init /\ [][Next]_vars
-----------------------------------------------------------------------------
(***************************************************************************)
(* Properties.                                                             *)
(***************************************************************************)
\* Table, sockets and client keep their types.
TypeOK ==
  /\ Table!RouteTypeOK /\ Sockets!ListenTypeOK
  /\ started \in BOOLEAN /\ host \in Host \cup {None}
  /\ answer \in {"301", "404", "500", None} /\ served \in {"site", "301", "404", "500", None}
  /\ moved \in Nat

\* add_upstream and set keep the two sides of the table together.
Indexed == Table!Indexed

\* h2 and h3, which may have one address, and h1 each accept on a socket of their own.
OwnSocket == Sockets!OwnSocket

\* What systemd handed over is found and used before a server binds.
AdoptsInherited == Sockets!AdoptsInherited

\* No copy of a server's socket is left for the kernel to give connections to.
NoTwinLeft == Sockets!NoTwinLeft

\* One redirect is enough, whoever sends it: a client that h1, h2 or h3 sent on gets
\* to a site, not to 404, to 500 or to another redirect.  One that h1 turned away
\* with 404 would find no site, one that got 500 asked for a host that has a site or
\* a redirect to one.
RedirectServed ==
  served # None =>
    /\ moved > 0 => moved = 1 /\ served = "site"
    /\ answer = "404" => served = "404"
    /\ answer = "500" => served # "404"
=============================================================================
