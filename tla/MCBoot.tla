-------------------------------- MODULE MCBoot --------------------------------
(***************************************************************************)
(* An instance of Boot for TLC: a host with its parent and its             *)
(* grandparent; two names, three upstreams; addresses of which one         *)
(* overlaps two others; what systemd may hand over, from nothing to twins  *)
(* and sockets for other addresses; servers with and without an address in *)
(* common.                                                                 *)
(***************************************************************************)
EXTENDS Boot

CONSTANTS www, base, top, any80, p80, p443

MCHost == {www, base, top}
MCParent == [h \in MCHost |-> CASE h = www -> base [] h = base -> top [] OTHER -> None]

MCAddr == {any80, p80, p443}
MCOverlap == {<<a, a>> : a \in MCAddr} \cup {<<any80, p80>>, <<p80, any80>>}

Tcp(a) == [kind |-> "tcp", addr |-> a]
Udp(a) == [kind |-> "udp", addr |-> a]
Other(a) == [kind |-> "other", addr |-> a]
MCInherited ==
  {<<>>, <<Tcp(p80), Tcp(p443)>>, <<Other(p80), Tcp(p443), Udp(p443), Tcp(p443), Udp(p443)>>,
   <<Udp(p443), Tcp(any80)>>}
MCWanted ==
  {[h1 |-> p80, h2 |-> p443, h3 |-> p443], [h1 |-> p443, h2 |-> p443, h3 |-> p80]}
=============================================================================
