---------------------------- MODULE ResponseStream ----------------------------
(***************************************************************************)
(* What the sending half of an HTTP/3 stream promises to the client of a   *)
(* request: the pieces of the response in their order, none twice and none *)
(* left out, and an end of stream behind the last one.  A stream may also  *)
(* be abandoned anywhere; how that looks to the client is a parameter.     *)
(*                                                                         *)
(* Pieces are numbered in the order of the response; numbers may be left   *)
(* out.                                                                    *)
(***************************************************************************)
EXTENDS Naturals, Sequences

CONSTANTS Req,   \* requests, each with a stream of its own
          Whole, \* Whole[r]: the pieces of the response to r
          Cuts   \* how a stream that is abandoned may end: "fin", "reset"

VARIABLES
  got,  \* got[r]: what was put on the stream, in that order
  end   \* end[r]: "open", "finished" behind the last piece, or one of Cuts

vars == <<got, end>>

PiecesIn(s) == {s[i] : i \in DOMAIN s}

Init ==
  /\ got = [r \in Req |-> <<>>]
  /\ end = [r \in Req |-> "open"]

\* The next piece: all before it are there, and nothing else.
Deliver(r) ==
  /\ end[r] = "open"
  /\ \E x \in Whole[r] :
        /\ PiecesIn(got[r]) = {y \in Whole[r] : y < x}
        /\ got' = [got EXCEPT ![r] = Append(@, x)]
  /\ UNCHANGED end

Finish(r) ==
  /\ end[r] = "open" /\ PiecesIn(got[r]) = Whole[r]
  /\ end' = [end EXCEPT ![r] = "finished"]
  /\ UNCHANGED got

Abandon(r) ==
  /\ end[r] = "open"
  /\ \E how \in Cuts : end' = [end EXCEPT ![r] = how]
  /\ UNCHANGED got

Next == \E r \in Req : Deliver(r) \/ Finish(r) \/ Abandon(r)

Spec == Init /\ [][Next]_vars
-----------------------------------------------------------------------------
\* What a client has of a response is the front of it in its order, and all of it
\* when the stream has ended, unless that is how an abandoned stream looks.
FrontInOrder ==
  \A r \in Req :
    /\ \A i, j \in DOMAIN got[r] : i < j => got[r][i] < got[r][j]
    /\ \A i \in DOMAIN got[r] : {y \in Whole[r] : y <= got[r][i]} \subseteq PiecesIn(got[r])
    /\ PiecesIn(got[r]) \subseteq Whole[r]
    /\ end[r] \in {"finished", "fin"} => PiecesIn(got[r]) = Whole[r] \/ end[r] \in Cuts
=============================================================================
