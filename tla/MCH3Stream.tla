------------------------------ MODULE MCH3Stream ------------------------------
(***************************************************************************)
(* An instance of H3Stream for TLC: a request with a body of one chunk and *)
(* a response with data, trailers in the middle and an empty frame; one    *)
(* without a body whose response is one frame of data.  A dropped stream   *)
(* may look either way to the client.                                      *)
(***************************************************************************)
EXTENDS H3Stream

CONSTANTS r1, r2

MCReq == {r1, r2}
MCResponse == [r \in MCReq |-> IF r = r1 THEN <<"data", "trailers", "empty">> ELSE <<"data">>]
MCDropEnds == {"fin", "reset"}
MCUpload == [r \in MCReq |-> IF r = r1 THEN 1 ELSE 0]
=============================================================================
