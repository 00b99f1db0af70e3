------------------------------ MODULE MCGateway ------------------------------
(***************************************************************************)
(* An instance of Gateway for TLC: a site with two addresses and one       *)
(* retry.                                                                  *)
(***************************************************************************)
EXTENDS Gateway, TLC

CONSTANTS a1, a2

MCAddr == {a1, a2}
MCSite == {"site"}
MCLen == [site |-> 2]
MCAddrList == [site |-> [p \in {0, 1} |-> IF p = 0 THEN a1 ELSE a2]]
MCMaxRetry == [site |-> 1]

Symmetry == Permutations(Req) \cup Permutations(Conn)
=============================================================================
