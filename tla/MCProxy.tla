------------------------------- MODULE MCProxy -------------------------------
(***************************************************************************)
(* An instance of Proxy for TLC: a site with three addresses and just the  *)
(* retries to try each once, one with two addresses and retries to go      *)
(* round twice, one with fewer retries than addresses, one without         *)
(* addresses.                                                              *)
(***************************************************************************)
EXTENDS Proxy

MCSite == {"wide", "narrow", "hasty", "empty"}
MCLen == [wide |-> 3, narrow |-> 2, hasty |-> 3, empty |-> 0]
MCMaxRetry == [wide |-> 2, narrow |-> 3, hasty |-> 1, empty |-> 1]
=============================================================================
