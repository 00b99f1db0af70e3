--------------------------- MODULE H3Stream_proofs ---------------------------
(***************************************************************************)
(* Any number of requests, any responses and bodies: what a stream sends   *)
(* is the response.                                                        *)
(***************************************************************************)
EXTENDS H3Stream, FiniteSetTheorems, TLAPS

\* The pieces that were given to send_data and did not leave yet.
Left(r) == chunk[r] \cup buf[r]

\* What the stream took and what is left are the frames given to send_data, and
\* what is left is the end of them.
Conserved ==
  \A r \in Req :
    /\ Left(r) \subseteq Whole[r]
    /\ \A x \in Left(r) : x < HeaderOf(next[r])
    /\ \A x \in chunk[r], y \in buf[r] : x < y
    /\ \A x \in Left(r), y \in Whole[r] : x < y /\ y < HeaderOf(next[r]) => y \in Left(r)
    /\ Stream!PiecesIn(got[r]) = {y \in Whole[r] : y < HeaderOf(next[r])} \ Left(r)

\* Between two calls of send_data nothing is left; the stream is open while the
\* task runs, and ends behind the last frame.
Phases ==
  \A r \in Req :
    /\ ~full[r] => buf[r] = {}
    /\ pc[r] \notin {"flush", "finish", "done", "failed"} => ~full[r] /\ chunk[r] = {}
    /\ pc[r] \in {"none", "resolve", "collect", "respond"} => next[r] = 0
    /\ pc[r] \in {"flush", "frame"} => next[r] # 0
    /\ pc[r] = "finish" => next[r] = Len(Response[r]) + 1
    /\ pc[r] \in {"done", "failed"} \/ end[r] = "open"

\* The client ends its body behind its last chunk.
Uploaded == \A r \in Req : upload[r] = "fin" => sent[r] = Upload[r]

IInv == TypeOK /\ Conserved /\ Phases /\ Uploaded /\ WholeBodyForwarded /\ NoInternalError

-----------------------------------------------------------------------------
\* The pieces of a frame are those of its two numbers.
LEMMA PieceOfFrame ==
  ASSUME NEW r \in Req, NEW f \in 0 .. Len(Response[r]), NEW y \in Nat
  PROVE  y \in Whole[r] /\ HeaderOf(f) <= y /\ y < HeaderOf(f + 1) <=> y \in Pieces(r, f)
<1>1. Whole[r] = UNION {Pieces(r, g) : g \in 0 .. Len(Response[r])}
  BY DEF Whole
<1>2. ASSUME NEW g \in 0 .. Len(Response[r]), NEW z \in Pieces(r, g)
      PROVE  z \in Nat /\ HeaderOf(g) <= z /\ z < HeaderOf(g + 1)
  <2>1. Len(Response[r]) \in Nat
    BY StreamAssumption
  <2>2. z = 2 * g \/ z = 2 * g + 1
    BY DEF Pieces, HeaderOf, PayloadOf
  <2> QED
    BY <2>1, <2>2 DEF HeaderOf
<1>3. ASSUME y \in Whole[r], HeaderOf(f) <= y, y < HeaderOf(f + 1)
      PROVE  y \in Pieces(r, f)
  <2>1. PICK g \in 0 .. Len(Response[r]) : y \in Pieces(r, g)
    BY <1>1, <1>3
  <2>2. HeaderOf(g) <= y /\ y < HeaderOf(g + 1)
    BY <1>2, <2>1
  <2>3. g = f
    BY <1>3, <2>2, StreamAssumption DEF HeaderOf
  <2> QED
    BY <2>1, <2>3
<1> QED
  BY <1>1, <1>2, <1>3

\* The pieces are numbers below that of a frame that does not exist.
LEMMA WholeBounded ==
  ASSUME NEW r \in Req, NEW y \in Whole[r]
  PROVE  y \in Nat /\ y < HeaderOf(Len(Response[r]) + 1)
<1>1. PICK g \in 0 .. Len(Response[r]) : y \in Pieces(r, g)
  BY DEF Whole
<1>2. Len(Response[r]) \in Nat
  BY StreamAssumption
<1>3. y = 2 * g \/ y = 2 * g + 1
  BY <1>1 DEF Pieces, HeaderOf, PayloadOf
<1> QED
  BY <1>2, <1>3 DEF HeaderOf

\* Append adds its element.
LEMMA PiecesOfAppend ==
  ASSUME NEW s \in Seq(Nat), NEW x \in Nat
  PROVE  Stream!PiecesIn(Append(s, x)) = Stream!PiecesIn(s) \cup {x}
<1>1. /\ Len(s) \in Nat /\ DOMAIN s = 1 .. Len(s)
      /\ DOMAIN Append(s, x) = 1 .. Len(s) + 1
      /\ \A i \in 1 .. Len(s) : Append(s, x)[i] = s[i]
      /\ Append(s, x)[Len(s) + 1] = x
  OBVIOUS
<1>2. \A i \in 1 .. Len(s) + 1 : i \in 1 .. Len(s) \/ i = Len(s) + 1
  BY <1>1
<1>3. Len(s) + 1 \in 1 .. Len(s) + 1 /\ \A i \in 1 .. Len(s) : i \in 1 .. Len(s) + 1
  BY <1>1
<1> QED
  BY <1>1, <1>2, <1>3 DEF Stream!PiecesIn
-----------------------------------------------------------------------------
LEMMA InitIInv == Init => IInv
<1> SUFFICES ASSUME Init PROVE IInv
  OBVIOUS
<1>1. TypeOK
  BY StreamAssumption DEF Init, TypeOK, ReqState
<1>2. Conserved
  <2> SUFFICES ASSUME NEW r \in Req
               PROVE  /\ Left(r) = {} /\ Stream!PiecesIn(got[r]) = {}
                      /\ {y \in Whole[r] : y < HeaderOf(next[r])} = {}
    BY DEF Conserved, Init, Left
  <2>1. Left(r) = {} /\ Stream!PiecesIn(got[r]) = {}
    BY DEF Init, Left, Stream!PiecesIn
  <2>2. next[r] = 0
    BY DEF Init
  <2> QED
    BY <2>1, <2>2, WholeBounded DEF HeaderOf
<1>3. Phases /\ Uploaded /\ WholeBodyForwarded /\ NoInternalError
  BY DEF Init, Phases, Uploaded, WholeBodyForwarded, NoInternalError
<1> QED
  BY <1>1, <1>2, <1>3 DEF IInv
-----------------------------------------------------------------------------
\* send_data is called with buf empty, and takes the pieces of its frame.
LEMMA Handed ==
  ASSUME IInv, NEW r \in Req, SendData(r), pc[r] \in {"respond", "frame"}
  PROVE  /\ full' = [full EXCEPT ![r] = TRUE]
         /\ buf' = [buf EXCEPT ![r] = Pieces(r, next[r])]
         /\ next' = [next EXCEPT ![r] = @ + 1]
         /\ pc' = [pc EXCEPT ![r] = "flush"]
         /\ UNCHANGED <<link, end>>
  BY DEF SendData, Close, IInv, Phases

\* Pieces are numbers.
LEMMA PiecesAreNat == \A r \in Req : \A f \in Nat : Pieces(r, f) \subseteq Nat
<1> SUFFICES ASSUME NEW r \in Req, NEW f \in Nat, NEW x \in Pieces(r, f) PROVE x \in Nat
  OBVIOUS
<1>1. x = 2 * f \/ x = 2 * f + 1
  BY DEF Pieces, HeaderOf, PayloadOf
<1> QED
  BY <1>1

LEMMA StepTypeOK == IInv /\ [Next]_vars => TypeOK'
<1> SUFFICES ASSUME IInv, [Next]_vars PROVE TypeOK'
  OBVIOUS
<1>0. TypeOK
  BY DEF IInv
<1>1. CASE LinkLost
  BY <1>0, <1>1 DEF LinkLost, client, receiving, sending, TypeOK
<1>2. CASE Setup
  BY <1>0, <1>2 DEF Setup, client, receiving, sending, TypeOK
<1>3. CASE LoopEnds
  BY <1>0, <1>3 DEF LoopEnds, Close, client, receiving, sending, TypeOK
<1>4. CASE Over
  BY <1>0, <1>4 DEF Over, vars, client, receiving, sending, TypeOK
<1>5. ASSUME NEW r \in Req, Accept(r) PROVE TypeOK'
  BY <1>0, <1>5, StreamAssumption DEF Accept, client, receiving, sending, TypeOK, ReqState, IInv, Phases
<1>6. ASSUME NEW r \in Req, SendUpload(r) PROVE TypeOK'
  <2>1. CASE sent[r] < Upload[r]
    <3>1. sent' = [sent EXCEPT ![r] = @ + 1] /\ sent[r] + 1 \in Nat
      BY <1>0, <1>6, <2>1 DEF SendUpload, TypeOK
    <3>2. sent[r] + 1 <= Upload[r] /\ body[r] <= sent[r] + 1
      BY <1>0, <2>1, StreamAssumption DEF TypeOK
    <3> QED
      BY <1>0, <1>6, <2>1, <3>1, <3>2 DEF SendUpload, receiving, sending, TypeOK
  <2>2. CASE ~(sent[r] < Upload[r])
    BY <1>0, <1>6, <2>2 DEF SendUpload, receiving, sending, TypeOK
  <2> QED
    BY <2>1, <2>2
<1>7. ASSUME NEW r \in Req, ResetUpload(r) PROVE TypeOK'
  BY <1>0, <1>7, StreamAssumption DEF ResetUpload, client, receiving, sending, TypeOK, ReqState, IInv, Phases
<1>8. ASSUME NEW r \in Req, StopSending(r) PROVE TypeOK'
  BY <1>0, <1>8, StreamAssumption DEF StopSending, client, receiving, sending, TypeOK, ReqState, IInv, Phases
<1>9. ASSUME NEW r \in Req, Take(r) PROVE TypeOK'
  <2>1. PICK x \in buf[r] : chunk' = [chunk EXCEPT ![r] = {x}] /\ buf' = [buf EXCEPT ![r] = @ \ {x}]
    BY <1>9 DEF Take
  <2>2. buf' \in [Req -> SUBSET Nat] /\ chunk' \in [Req -> SUBSET Nat]
        /\ \A q \in Req : \A y, z \in chunk'[q] : y = z
    BY <1>0, <2>1 DEF TypeOK
  <2> QED
    BY <1>0, <1>9, <2>2 DEF Take, client, receiving, TypeOK
<1>10. ASSUME NEW r \in Req, Send(r) PROVE TypeOK'
  BY <1>0, <1>10, StreamAssumption DEF Send, client, receiving, sending, TypeOK, ReqState, IInv, Phases
<1>11. ASSUME NEW r \in Req, Ready(r) PROVE TypeOK'
  BY <1>0, <1>11, StreamAssumption DEF Ready, client, receiving, sending, TypeOK, ReqState, IInv, Phases
<1>12. ASSUME NEW r \in Req, Finish(r) PROVE TypeOK'
  BY <1>0, <1>12, StreamAssumption DEF Finish, client, receiving, sending, TypeOK, ReqState, IInv, Phases
<1>13. ASSUME NEW r \in Req, SendFails(r) PROVE TypeOK'
  BY <1>0, <1>13, StreamAssumption DEF SendFails, Fail, client, receiving, sending, TypeOK, ReqState, IInv, Phases
<1>14. ASSUME NEW r \in Req, Resolve(r) PROVE TypeOK'
  BY <1>0, <1>14, StreamAssumption DEF Resolve, client, receiving, sending, TypeOK, ReqState, IInv, Phases
<1>15. ASSUME NEW r \in Req, ResolveFails(r) PROVE TypeOK'
  BY <1>0, <1>15, StreamAssumption DEF ResolveFails, Fail, client, receiving, sending, TypeOK, ReqState, IInv, Phases
<1>16. ASSUME NEW r \in Req, Receive(r) PROVE TypeOK'
  <2>1. body[r] \in Nat /\ sent[r] \in Nat /\ body[r] < sent[r]
    BY <1>0, <1>16 DEF Receive, TypeOK
  <2>2. body' = [body EXCEPT ![r] = body[r] + 1] /\ body[r] + 1 \in Nat /\ body[r] + 1 <= sent[r]
    BY <1>16, <2>1 DEF Receive
  <2>3. body' \in [Req -> Nat] /\ \A q \in Req : body'[q] <= sent[q]
    BY <1>0, <2>2 DEF TypeOK
  <2> QED
    BY <1>0, <1>16, <2>3 DEF Receive, client, sending, TypeOK
<1>17. ASSUME NEW r \in Req, ReceiveEnd(r) PROVE TypeOK'
  BY <1>0, <1>17, StreamAssumption DEF ReceiveEnd, client, receiving, sending, TypeOK, ReqState, IInv, Phases
<1>18. ASSUME NEW r \in Req, ReceiveFails(r) PROVE TypeOK'
  BY <1>0, <1>18, StreamAssumption DEF ReceiveFails, client, receiving, sending, TypeOK, ReqState, IInv, Phases
<1>19. ASSUME NEW r \in Req, Respond(r) PROVE TypeOK'
  <2>1. next[r] \in Nat /\ next[r] <= Len(Response[r]) /\ Len(Response[r]) \in Nat
    BY <1>0, <1>19, StreamAssumption DEF Respond, IInv, Phases, TypeOK
  <2>2. Pieces(r, next[r]) \subseteq Nat
    BY <2>1, PiecesAreNat
  <2> QED
    <3>1. /\ full' = [full EXCEPT ![r] = TRUE] /\ buf' = [buf EXCEPT ![r] = Pieces(r, next[r])]
          /\ next' = [next EXCEPT ![r] = @ + 1] /\ pc' = [pc EXCEPT ![r] = "flush"]
          /\ UNCHANGED <<link, end, loop, client, receiving, chunk, got>>
      BY <1>19, Handed DEF Respond
    <3>2. next[r] + 1 \in Nat /\ next[r] + 1 <= Len(Response[r]) + 1
      BY <2>1
    <3> QED
      BY <1>0, <2>2, <3>1, <3>2 DEF client, receiving, TypeOK, ReqState
<1>20. ASSUME NEW r \in Req, Skip(r) PROVE TypeOK'
  <2>1. next[r] \in Nat /\ next[r] + 1 <= Len(Response[r]) + 1
    BY <1>0, <1>20, StreamAssumption DEF Skip, TypeOK
  <2>2. next' = [next EXCEPT ![r] = next[r] + 1]
    BY <1>20 DEF Skip
  <2>3. next' \in [Req -> Nat] /\ \A q \in Req : next'[q] <= Len(Response[q]) + 1
    BY <1>0, <2>1, <2>2 DEF TypeOK
  <2> QED
    BY <1>0, <1>20, <2>3 DEF Skip, client, receiving, TypeOK
<1>21. ASSUME NEW r \in Req, Frame(r) PROVE TypeOK'
  <2>1. next[r] \in Nat /\ next[r] <= Len(Response[r]) /\ Len(Response[r]) \in Nat
    BY <1>0, <1>21, StreamAssumption DEF Frame, IInv, Phases, TypeOK
  <2>2. Pieces(r, next[r]) \subseteq Nat
    BY <2>1, PiecesAreNat
  <2> QED
    <3>1. /\ full' = [full EXCEPT ![r] = TRUE] /\ buf' = [buf EXCEPT ![r] = Pieces(r, next[r])]
          /\ next' = [next EXCEPT ![r] = @ + 1] /\ pc' = [pc EXCEPT ![r] = "flush"]
          /\ UNCHANGED <<link, end, loop, client, receiving, chunk, got>>
      BY <1>21, Handed DEF Frame
    <3>2. next[r] + 1 \in Nat /\ next[r] + 1 <= Len(Response[r]) + 1
      BY <2>1
    <3> QED
      BY <1>0, <2>2, <3>1, <3>2 DEF client, receiving, TypeOK, ReqState
<1>22. ASSUME NEW r \in Req, BodyEnds(r) PROVE TypeOK'
  BY <1>0, <1>22, StreamAssumption DEF BodyEnds, client, receiving, sending, TypeOK, ReqState, IInv, Phases
<1>23. ASSUME NEW r \in Req, BodyFails(r) PROVE TypeOK'
  BY <1>0, <1>23, StreamAssumption DEF BodyFails, Fail, client, receiving, sending, TypeOK, ReqState, IInv, Phases
<1>24. CASE UNCHANGED vars
  BY <1>0, <1>24 DEF vars, TypeOK
<1> QED
  BY <1>1, <1>2, <1>3, <1>4, <1>5, <1>6, <1>7, <1>8, <1>9, <1>10, <1>11, <1>12, <1>13, <1>14, <1>15, <1>16, <1>17, <1>18, <1>19, <1>20, <1>21, <1>22, <1>23, <1>24
  DEF Next, Client, Flush, Handle

\* What was handed over, taken and left changes only when a frame is handed over or
\* skipped, or poll_ready moves a piece; and only of that request.
LEMMA Moves ==
  ASSUME TypeOK, [Next]_vars, NEW q \in Req
  PROVE  \/ UNCHANGED <<next[q], buf[q], chunk[q], got[q]>>
         \/ Take(q) \/ Send(q) \/ Skip(q) \/ Respond(q) \/ Frame(q)
<1> DEFINE Kept == UNCHANGED <<next[q], buf[q], chunk[q], got[q]>>
<1>1. CASE LinkLost \/ Setup \/ LoopEnds \/ Over \/ UNCHANGED vars
  BY <1>1 DEF LinkLost, Setup, LoopEnds, Close, Over, vars, sending
<1>2. ASSUME NEW r \in Req, Accept(r) \/ Client(r) PROVE Kept
  BY <1>2 DEF Accept, Client, SendUpload, ResetUpload, StopSending, sending
<1>3. ASSUME NEW r \in Req, Ready(r) \/ Finish(r) \/ SendFails(r) PROVE Kept
  BY <1>3 DEF Ready, Finish, SendFails
<1>4. ASSUME NEW r \in Req, Resolve(r) \/ ResolveFails(r) \/ Receive(r) \/ ReceiveEnd(r)
                            \/ ReceiveFails(r) \/ BodyEnds(r) \/ BodyFails(r)
      PROVE  Kept
  BY <1>4 DEF Resolve, ResolveFails, Receive, ReceiveEnd, ReceiveFails, BodyEnds, BodyFails, sending
<1>5. ASSUME NEW r \in Req, r # q, Take(r) \/ Send(r) \/ Skip(r) PROVE Kept
  BY <1>5 DEF Take, Send, Skip, TypeOK
<1>6. ASSUME NEW r \in Req, r # q, Respond(r) \/ Frame(r) PROVE Kept
  BY <1>6 DEF Respond, Frame, SendData, Close, TypeOK
<1> QED
  BY <1>1, <1>2, <1>3, <1>4, <1>5, <1>6 DEF Next, Flush, Handle

LEMMA StepConserved == IInv /\ [Next]_vars => Conserved'
<1> SUFFICES ASSUME IInv, [Next]_vars, NEW q \in Req
             PROVE  /\ Left(q)' \subseteq Whole[q]
                    /\ \A x \in Left(q)' : x < HeaderOf(next'[q])
                    /\ \A x \in chunk'[q], y \in buf'[q] : x < y
                    /\ \A x \in Left(q)', y \in Whole[q] :
                         x < y /\ y < HeaderOf(next'[q]) => y \in Left(q)'
                    /\ Stream!PiecesIn(got'[q]) =
                         {y \in Whole[q] : y < HeaderOf(next'[q])} \ Left(q)'
  BY DEF Conserved, Left, Stream!PiecesIn, HeaderOf
<1>0. TypeOK /\ Conserved /\ Phases
  BY DEF IInv
<1>1. CASE UNCHANGED <<next[q], buf[q], chunk[q], got[q]>>
  BY <1>0, <1>1 DEF Conserved, Left
<1>2. CASE Take(q)
  <2>1. PICK x \in buf[q] : /\ \A y \in buf[q] : x <= y
                            /\ chunk'[q] = {x} /\ buf'[q] = buf[q] \ {x}
    BY <1>0, <1>2 DEF Take, TypeOK
  <2>2. chunk[q] = {} /\ next'[q] = next[q] /\ got'[q] = got[q]
    BY <1>2 DEF Take
  <2>3. Left(q)' = Left(q)
    BY <2>1, <2>2 DEF Left
  <2>4. \A y \in buf'[q] : x < y
    BY <1>0, <2>1 DEF TypeOK
  <2> QED
    BY <1>0, <2>1, <2>2, <2>3, <2>4 DEF Conserved
<1>3. CASE Send(q)
  <2>1. PICK x \in chunk[q] : got'[q] = Append(got[q], x)
    BY <1>0, <1>3 DEF Send, TypeOK
  <2>2. chunk[q] = {x} /\ chunk'[q] = {} /\ next'[q] = next[q] /\ buf'[q] = buf[q]
    BY <1>0, <1>3, <2>1 DEF Send, TypeOK
  <2>3. x \in Nat /\ got[q] \in Seq(Nat) /\ buf[q] \subseteq Nat
    BY <1>0, <2>1 DEF TypeOK
  <2>4. Left(q)' = Left(q) \ {x} /\ x \in Left(q) /\ x \in Whole[q] /\ x < HeaderOf(next[q])
    <3>1. \A y \in buf[q] : x # y
      BY <1>0, <2>1, <2>3 DEF Conserved
    <3>2. x \in Left(q)
      BY <2>1 DEF Left
    <3> QED
      BY <1>0, <2>2, <3>1, <3>2 DEF Left, Conserved
  <2>5. Stream!PiecesIn(got'[q]) = Stream!PiecesIn(got[q]) \cup {x}
    BY <2>1, <2>3, PiecesOfAppend
  <2>6. \A y \in buf[q] : x < y
    BY <1>0, <2>1 DEF Conserved
  <2>7. \A y \in Left(q)', z \in Whole[q] : y < z /\ z < HeaderOf(next[q]) => z \in Left(q)'
    BY <1>0, <2>2, <2>3, <2>4, <2>6, WholeBounded DEF Conserved, Left
  <2> QED
    BY <1>0, <2>2, <2>4, <2>5, <2>7 DEF Conserved
<1>4. CASE Skip(q)
  <2>1. /\ next[q] \in 0 .. Len(Response[q]) /\ next'[q] = next[q] + 1
        /\ buf'[q] = buf[q] /\ chunk'[q] = chunk[q] /\ got'[q] = got[q] /\ Left(q) = {}
    <3>1. next[q] \in Nat /\ next[q] <= Len(Response[q]) /\ Len(Response[q]) \in Nat
      BY <1>0, <1>4, StreamAssumption DEF Skip, TypeOK
    <3>2. ~full[q] /\ chunk[q] = {} /\ buf[q] = {}
      BY <1>0, <1>4 DEF Skip, Phases
    <3> QED
      BY <1>0, <1>4, <3>1, <3>2 DEF Skip, TypeOK, Left
  <2>2. Left(q)' = {}
    BY <2>1 DEF Left
  <2>3. next[q] # 0 /\ Pieces(q, next[q]) = {}
    BY <1>0, <1>4 DEF Skip, Phases, Pieces
  <2>4. \A y \in Whole[q] : y < HeaderOf(next[q] + 1) <=> y < HeaderOf(next[q])
    BY <2>1, <2>3, PieceOfFrame, WholeBounded DEF HeaderOf
  <2> QED
    BY <1>0, <2>1, <2>2, <2>4 DEF Conserved
<1>5. CASE Respond(q) \/ Frame(q)
  <2>1. /\ next[q] \in 0 .. Len(Response[q]) /\ next'[q] = next[q] + 1
        /\ buf'[q] = Pieces(q, next[q]) /\ chunk'[q] = {} /\ got'[q] = got[q] /\ Left(q) = {}
    <3>1. next[q] \in Nat /\ next[q] <= Len(Response[q]) /\ Len(Response[q]) \in Nat
      BY <1>0, <1>5, StreamAssumption DEF Respond, Frame, TypeOK, Phases
    <3>2. ~full[q] /\ chunk[q] = {} /\ buf[q] = {}
      BY <1>0, <1>5 DEF Respond, Frame, Phases
    <3>3. /\ buf' = [buf EXCEPT ![q] = Pieces(q, next[q])] /\ next' = [next EXCEPT ![q] = @ + 1]
          /\ UNCHANGED <<chunk, got>>
      BY <1>5, Handed DEF Respond, Frame
    <3> QED
      BY <1>0, <3>1, <3>2, <3>3 DEF TypeOK, Left
  <2>2. Left(q)' = Pieces(q, next[q])
    BY <2>1 DEF Left
  <2>3. \A y \in Whole[q] : /\ y \in Nat
                            /\ y \in Pieces(q, next[q]) <=>
                                 HeaderOf(next[q]) <= y /\ y < HeaderOf(next[q] + 1)
                            /\ y < HeaderOf(next[q]) => y < HeaderOf(next[q] + 1)
    BY <2>1, PieceOfFrame, WholeBounded DEF HeaderOf
  <2>4. Pieces(q, next[q]) \subseteq Whole[q]
    BY <2>1 DEF Whole
  <2>5. HeaderOf(next[q]) \in Nat /\ HeaderOf(next[q] + 1) \in Nat
    BY <2>1 DEF HeaderOf
  <2>6. Stream!PiecesIn(got[q]) = {y \in Whole[q] : y < HeaderOf(next[q])}
    BY <1>0, <2>1 DEF Conserved
  <2> QED
    BY <2>1, <2>2, <2>3, <2>4, <2>5, <2>6
<1> QED
  BY <1>0, <1>1, <1>2, <1>3, <1>4, <1>5, Moves

LEMMA StepPhases == IInv /\ [Next]_vars => Phases'
<1> SUFFICES ASSUME IInv, [Next]_vars PROVE Phases'
  OBVIOUS
<1>0. TypeOK /\ Phases
  BY DEF IInv
<1>1. CASE LinkLost
  BY <1>0, <1>1 DEF LinkLost, sending, Phases
<1>2. CASE Setup
  BY <1>0, <1>2 DEF Setup, sending, Phases
<1>3. CASE LoopEnds
  BY <1>0, <1>3 DEF LoopEnds, Close, sending, Phases
<1>4. CASE Over
  BY <1>0, <1>4 DEF Over, vars, sending, Phases
<1>5. ASSUME NEW r \in Req, Accept(r) PROVE Phases'
  BY <1>0, <1>5 DEF Accept, sending, TypeOK, Phases
<1>6. ASSUME NEW r \in Req, SendUpload(r) PROVE Phases'
  BY <1>0, <1>6 DEF SendUpload, sending, TypeOK, Phases
<1>7. ASSUME NEW r \in Req, ResetUpload(r) PROVE Phases'
  BY <1>0, <1>7 DEF ResetUpload, sending, TypeOK, Phases
<1>8. ASSUME NEW r \in Req, StopSending(r) PROVE Phases'
  BY <1>0, <1>8 DEF StopSending, sending, TypeOK, Phases
<1>9. ASSUME NEW r \in Req, Take(r) PROVE Phases'
  BY <1>0, <1>9 DEF Take, sending, TypeOK, Phases
<1>10. ASSUME NEW r \in Req, Send(r) PROVE Phases'
  BY <1>0, <1>10 DEF Send, sending, TypeOK, Phases
<1>11. ASSUME NEW r \in Req, Ready(r) PROVE Phases'
  BY <1>0, <1>11 DEF Ready, sending, TypeOK, Phases
<1>12. ASSUME NEW r \in Req, Finish(r) PROVE Phases'
  BY <1>0, <1>12 DEF Finish, sending, TypeOK, Phases
<1>13. ASSUME NEW r \in Req, SendFails(r) PROVE Phases'
  BY <1>0, <1>13 DEF SendFails, Fail, sending, TypeOK, Phases
<1>14. ASSUME NEW r \in Req, Resolve(r) PROVE Phases'
  BY <1>0, <1>14 DEF Resolve, sending, TypeOK, Phases
<1>15. ASSUME NEW r \in Req, ResolveFails(r) PROVE Phases'
  BY <1>0, <1>15 DEF ResolveFails, Fail, sending, TypeOK, Phases
<1>16. ASSUME NEW r \in Req, Receive(r) PROVE Phases'
  BY <1>0, <1>16 DEF Receive, sending, TypeOK, Phases
<1>17. ASSUME NEW r \in Req, ReceiveEnd(r) PROVE Phases'
  BY <1>0, <1>17 DEF ReceiveEnd, sending, TypeOK, Phases
<1>18. ASSUME NEW r \in Req, ReceiveFails(r) PROVE Phases'
  BY <1>0, <1>18 DEF ReceiveFails, sending, TypeOK, Phases
<1>19. ASSUME NEW r \in Req, Respond(r) PROVE Phases'
  <2>1. /\ full' = [full EXCEPT ![r] = TRUE] /\ buf' = [buf EXCEPT ![r] = Pieces(r, next[r])]
        /\ next' = [next EXCEPT ![r] = @ + 1] /\ pc' = [pc EXCEPT ![r] = "flush"]
        /\ UNCHANGED <<chunk, end>>
    BY <1>19, Handed DEF Respond
  <2>2. end[r] = "open"
    BY <1>0, <1>19 DEF Respond, Phases
  <2>3. next[r] \in Nat /\ next[r] + 1 # 0
    BY <1>0 DEF TypeOK
  <2> QED
    BY <1>0, <2>1, <2>2, <2>3 DEF TypeOK, Phases
<1>20. ASSUME NEW r \in Req, Skip(r) PROVE Phases'
  BY <1>0, <1>20 DEF Skip, sending, TypeOK, Phases
<1>21. ASSUME NEW r \in Req, Frame(r) PROVE Phases'
  <2>1. /\ full' = [full EXCEPT ![r] = TRUE] /\ buf' = [buf EXCEPT ![r] = Pieces(r, next[r])]
        /\ next' = [next EXCEPT ![r] = @ + 1] /\ pc' = [pc EXCEPT ![r] = "flush"]
        /\ UNCHANGED <<chunk, end>>
    BY <1>21, Handed DEF Frame
  <2>2. end[r] = "open"
    BY <1>0, <1>21 DEF Frame, Phases
  <2>3. next[r] \in Nat /\ next[r] + 1 # 0
    BY <1>0 DEF TypeOK
  <2> QED
    BY <1>0, <2>1, <2>2, <2>3 DEF TypeOK, Phases
<1>22. ASSUME NEW r \in Req, BodyEnds(r) PROVE Phases'
  BY <1>0, <1>22 DEF BodyEnds, sending, TypeOK, Phases
<1>23. ASSUME NEW r \in Req, BodyFails(r) PROVE Phases'
  BY <1>0, <1>23 DEF BodyFails, Fail, sending, TypeOK, Phases
<1>24. CASE UNCHANGED vars
  BY <1>0, <1>24 DEF vars, Phases
<1> QED
  BY <1>1, <1>2, <1>3, <1>4, <1>5, <1>6, <1>7, <1>8, <1>9, <1>10, <1>11, <1>12, <1>13, <1>14, <1>15, <1>16, <1>17, <1>18, <1>19, <1>20, <1>21, <1>22, <1>23, <1>24
  DEF Next, Client, Flush, Handle

\* Only send_data on an occupied buf is a fault; only the end of the client's body
\* lets a request be forwarded, and it stays at its end.
LEMMA StepForwarding == IInv /\ [Next]_vars => Uploaded' /\ WholeBodyForwarded' /\ NoInternalError'
<1> SUFFICES ASSUME IInv, [Next]_vars PROVE Uploaded' /\ WholeBodyForwarded' /\ NoInternalError'
  OBVIOUS
<1>0. TypeOK /\ Uploaded /\ WholeBodyForwarded /\ NoInternalError
  BY DEF IInv
<1> USE DEF Uploaded, WholeBodyForwarded, NoInternalError
<1>1. CASE LinkLost
  BY <1>0, <1>1 DEF LinkLost, client, receiving
<1>2. CASE Setup
  BY <1>0, <1>2 DEF Setup, client, receiving
<1>3. CASE LoopEnds
  BY <1>0, <1>3 DEF LoopEnds, Close, client, receiving
<1>4. CASE Over
  BY <1>0, <1>4 DEF Over, vars, client, receiving
<1>5. ASSUME NEW r \in Req, Accept(r) PROVE Uploaded' /\ WholeBodyForwarded' /\ NoInternalError'
  BY <1>0, <1>5 DEF Accept, client, receiving
<1>6. ASSUME NEW r \in Req, SendUpload(r) PROVE Uploaded' /\ WholeBodyForwarded' /\ NoInternalError'
  <2>1. \A q \in Req : upload[q] = "fin" => upload'[q] = "fin" /\ sent'[q] = sent[q]
    BY <1>0, <1>6 DEF SendUpload, TypeOK
  <2>2. sent[r] \in Nat /\ sent[r] <= Upload[r] /\ Upload[r] \in Nat
    BY <1>0, StreamAssumption DEF TypeOK
  <2>3. CASE sent[r] < Upload[r]
    BY <1>0, <1>6, <2>1, <2>3 DEF SendUpload, receiving, TypeOK
  <2>4. CASE ~(sent[r] < Upload[r])
    <3>1. sent[r] = Upload[r]
      BY <2>2, <2>4
    <3> QED
      BY <1>0, <1>6, <2>1, <2>4, <3>1 DEF SendUpload, receiving, TypeOK
  <2> QED
    BY <2>3, <2>4
<1>7. ASSUME NEW r \in Req, ResetUpload(r) PROVE Uploaded' /\ WholeBodyForwarded' /\ NoInternalError'
  BY <1>0, <1>7 DEF ResetUpload, client, receiving, TypeOK
<1>8. ASSUME NEW r \in Req, StopSending(r) PROVE Uploaded' /\ WholeBodyForwarded' /\ NoInternalError'
  BY <1>0, <1>8 DEF StopSending, client, receiving
<1>9. ASSUME NEW r \in Req, Take(r) PROVE Uploaded' /\ WholeBodyForwarded' /\ NoInternalError'
  BY <1>0, <1>9 DEF Take, client, receiving
<1>10. ASSUME NEW r \in Req, Send(r) PROVE Uploaded' /\ WholeBodyForwarded' /\ NoInternalError'
  BY <1>0, <1>10 DEF Send, client, receiving
<1>11. ASSUME NEW r \in Req, Ready(r) PROVE Uploaded' /\ WholeBodyForwarded' /\ NoInternalError'
  BY <1>0, <1>11 DEF Ready, client, receiving
<1>12. ASSUME NEW r \in Req, Finish(r) PROVE Uploaded' /\ WholeBodyForwarded' /\ NoInternalError'
  BY <1>0, <1>12 DEF Finish, client, receiving
<1>13. ASSUME NEW r \in Req, SendFails(r) PROVE Uploaded' /\ WholeBodyForwarded' /\ NoInternalError'
  BY <1>0, <1>13 DEF SendFails, client, receiving
<1>14. ASSUME NEW r \in Req, Resolve(r) PROVE Uploaded' /\ WholeBodyForwarded' /\ NoInternalError'
  BY <1>0, <1>14 DEF Resolve, client, receiving
<1>15. ASSUME NEW r \in Req, ResolveFails(r) PROVE Uploaded' /\ WholeBodyForwarded' /\ NoInternalError'
  BY <1>0, <1>15 DEF ResolveFails, client, receiving
<1>16. ASSUME NEW r \in Req, Receive(r) PROVE Uploaded' /\ WholeBodyForwarded' /\ NoInternalError'
  BY <1>0, <1>16 DEF Receive, client, receiving
<1>17. ASSUME NEW r \in Req, ReceiveEnd(r) PROVE Uploaded' /\ WholeBodyForwarded' /\ NoInternalError'
  BY <1>0, <1>17 DEF ReceiveEnd, client, receiving, TypeOK
<1>18. ASSUME NEW r \in Req, ReceiveFails(r) PROVE Uploaded' /\ WholeBodyForwarded' /\ NoInternalError'
  BY <1>0, <1>18 DEF ReceiveFails, client, receiving
<1>19. ASSUME NEW r \in Req, Respond(r) PROVE Uploaded' /\ WholeBodyForwarded' /\ NoInternalError'
  BY <1>0, <1>19, Handed DEF Respond, client, receiving
<1>20. ASSUME NEW r \in Req, Skip(r) PROVE Uploaded' /\ WholeBodyForwarded' /\ NoInternalError'
  BY <1>0, <1>20 DEF Skip, client, receiving
<1>21. ASSUME NEW r \in Req, Frame(r) PROVE Uploaded' /\ WholeBodyForwarded' /\ NoInternalError'
  BY <1>0, <1>21, Handed DEF Frame, client, receiving
<1>22. ASSUME NEW r \in Req, BodyEnds(r) PROVE Uploaded' /\ WholeBodyForwarded' /\ NoInternalError'
  BY <1>0, <1>22 DEF BodyEnds, client, receiving
<1>23. ASSUME NEW r \in Req, BodyFails(r) PROVE Uploaded' /\ WholeBodyForwarded' /\ NoInternalError'
  BY <1>0, <1>23 DEF BodyFails, client, receiving
<1>24. CASE UNCHANGED vars
  BY <1>0, <1>24 DEF vars
<1> QED
  BY <1>1, <1>2, <1>3, <1>4, <1>5, <1>6, <1>7, <1>8, <1>9, <1>10, <1>11, <1>12, <1>13, <1>14, <1>15, <1>16, <1>17, <1>18, <1>19, <1>20, <1>21, <1>22, <1>23, <1>24
  DEF Next, Client, Flush, Handle

LEMMA StepIInv == IInv /\ [Next]_vars => IInv'
  BY StepTypeOK, StepConserved, StepPhases, StepForwarding DEF IInv

LEMMA Invariance == Spec => []IInv
  BY InitIInv, StepIInv, PTL DEF Spec
-----------------------------------------------------------------------------
\* The fields keep their types; nothing is read past the end of a response.
THEOREM TypeSafe == Spec => []TypeOK
<1>1. IInv => TypeOK
  BY DEF IInv
<1> QED
  BY <1>1, Invariance, PTL

\* No request makes h3 close the connection of all the others.
THEOREM NoFault == Spec => []NoInternalError
<1>1. IInv => NoInternalError
  BY DEF IInv
<1> QED
  BY <1>1, Invariance, PTL

\* A request goes to an upstream with its whole body or not at all.
THEOREM ForwardsWhole == Spec => []WholeBodyForwarded
<1>1. IInv => WholeBodyForwarded
  BY DEF IInv
<1> QED
  BY <1>1, Invariance, PTL

\* A step on the stream of a request is a step of its ResponseStream.
LEMMA StreamStep ==
  ASSUME IInv, [Next]_vars
  PROVE  [Stream!Next]_<<got, end>>
<1>0. TypeOK /\ Conserved /\ Phases
  BY DEF IInv
<1>1. ASSUME NEW r \in Req, Send(r) PROVE Stream!Deliver(r)
  <2>1. PICK x \in chunk[r] : got' = [got EXCEPT ![r] = Append(@, x)]
    BY <1>1 DEF Send
  <2>2. x \in Nat /\ x \in Left(r) /\ x \in Whole[r] /\ x < HeaderOf(next[r]) /\ chunk[r] = {x}
    BY <1>0, <2>1 DEF Left, Conserved, TypeOK
  <2>3. \A y \in Left(r) : y = x \/ x < y
    BY <1>0, <2>2 DEF Left, Conserved
  <2>4. HeaderOf(next[r]) \in Nat /\ \A y \in Whole[r] : y \in Nat
    BY <1>0, WholeBounded DEF HeaderOf, TypeOK
  <2>5. \A y \in Whole[r] : y < x <=> y < HeaderOf(next[r]) /\ y \notin Left(r)
    BY <1>0, <2>2, <2>3, <2>4 DEF Conserved
  <2>6. Stream!PiecesIn(got[r]) = {y \in Whole[r] : y < x}
    BY <1>0, <2>5 DEF Conserved
  <2>7. end[r] = "open" /\ UNCHANGED end
    BY <1>0, <1>1 DEF Send, Flushing, Phases
  <2> QED
    BY <2>1, <2>2, <2>6, <2>7 DEF Stream!Deliver
<1>2. ASSUME NEW r \in Req, Finish(r) PROVE Stream!Finish(r)
  <2>1. next[r] = Len(Response[r]) + 1 /\ Left(r) = {} /\ end[r] = "open"
    BY <1>0, <1>2 DEF Finish, Phases, Left
  <2>2. Stream!PiecesIn(got[r]) = Whole[r]
    BY <1>0, <2>1, WholeBounded DEF Conserved
  <2> QED
    BY <1>2, <2>1, <2>2 DEF Finish, Stream!Finish
<1>3. ASSUME NEW r \in Req, SendFails(r) \/ ResolveFails(r) \/ BodyFails(r) PROVE Stream!Abandon(r)
  BY <1>0, <1>3 DEF SendFails, ResolveFails, BodyFails, Fail, Flushing, Phases, Stream!Abandon
<1>4. ASSUME NEW r \in Req, Respond(r) \/ Frame(r) PROVE UNCHANGED <<got, end>>
  BY <1>4, Handed DEF Respond, Frame
<1>5. CASE LinkLost \/ Setup \/ LoopEnds \/ Over \/ UNCHANGED vars
  BY <1>5 DEF LinkLost, Setup, LoopEnds, Close, Over, vars, sending
<1>6. ASSUME NEW r \in Req, Accept(r) \/ Client(r) \/ Take(r) \/ Ready(r) PROVE UNCHANGED <<got, end>>
  BY <1>6 DEF Accept, Client, SendUpload, ResetUpload, StopSending, Take, Ready, sending
<1>7. ASSUME NEW r \in Req, Resolve(r) \/ Receive(r) \/ ReceiveEnd(r) \/ ReceiveFails(r)
                            \/ Skip(r) \/ BodyEnds(r)
      PROVE  UNCHANGED <<got, end>>
  BY <1>7 DEF Resolve, Receive, ReceiveEnd, ReceiveFails, Skip, BodyEnds, sending
<1> QED
  BY <1>1, <1>2, <1>3, <1>4, <1>5, <1>6, <1>7 DEF Next, Flush, Handle, Stream!Next

\* However often the stream is full in between, a client gets its response from the
\* front, in order, each piece once, and the end behind the last.
THEOREM Implements == Spec => StreamSpec
<1>1. Init => Stream!Init
  BY DEF Init, Stream!Init
<1>2. IInv /\ [Next]_vars => [Stream!Next]_<<got, end>>
  BY StreamStep
<1>3. IInv /\ [Next]_vars => [Stream!Next]_(Stream!vars)
  BY <1>2 DEF Stream!vars
<1> QED
  BY <1>1, <1>3, Invariance, PTL DEF Spec, StreamSpec, Stream!Spec

-----------------------------------------------------------------------------
\* The end of the connection's task closes the connection.
Closed == loop = "over" => link # "up"

LEMMA StepClosed ==
  ASSUME Closed, [Next]_vars
  PROVE  Closed' /\ (loop = "over" => got' = got)
<1> USE DEF Closed, SendBroken
<1>1. CASE LinkLost \/ Setup \/ LoopEnds \/ Over \/ UNCHANGED vars
  BY <1>1 DEF LinkLost, Setup, LoopEnds, Close, Over, vars, sending
<1>2. ASSUME NEW r \in Req, Accept(r) \/ Client(r) PROVE UNCHANGED <<loop, link, got>>
  BY <1>2 DEF Accept, Client, SendUpload, ResetUpload, StopSending, sending
<1>3. ASSUME NEW r \in Req, Send(r) PROVE UNCHANGED <<loop, link>> /\ link = "up"
  BY <1>3 DEF Send
<1>4. ASSUME NEW r \in Req, Take(r) \/ Ready(r) \/ Finish(r) \/ SendFails(r)
      PROVE  UNCHANGED <<loop, link, got>>
  BY <1>4 DEF Take, Ready, Finish, SendFails
<1>5. ASSUME NEW r \in Req, Respond(r) \/ Frame(r)
      PROVE  UNCHANGED <<loop, got>> /\ (link' = link \/ link' = "fault")
  BY <1>5 DEF Respond, Frame, SendData, Close
<1>6. ASSUME NEW r \in Req, Resolve(r) \/ ResolveFails(r) \/ Receive(r) \/ ReceiveEnd(r) \/ ReceiveFails(r)
                            \/ Skip(r) \/ BodyEnds(r) \/ BodyFails(r)
      PROVE  UNCHANGED <<loop, link, got>>
  BY <1>6 DEF Resolve, ResolveFails, Receive, ReceiveEnd, ReceiveFails, Skip, BodyEnds, BodyFails, sending
<1> QED
  BY <1>1, <1>2, <1>3, <1>4, <1>5, <1>6 DEF Next, Flush, Handle

\* Requests that outlive the task of their connection, and so its guard, send
\* nothing more.
THEOREM NothingUnguarded == Spec => NoneServedUnguarded
<1>1. Init => Closed
  BY DEF Init, Closed
<1>2. Closed /\ [Next]_vars => Closed'
  BY StepClosed
<1>3. Closed /\ [Next]_vars => [loop = "over" => got' = got]_vars
  BY StepClosed
<1> QED
  BY <1>1, <1>2, <1>3, PTL DEF Spec, NoneServedUnguarded
-----------------------------------------------------------------------------
\* Through ResponseStream, which it implements: what a client has of a response is
\* the front of it, in order and without a gap, and all of it when finish() ended
\* the stream.
THEOREM ClientHasFront == Spec => []Stream!FrontInOrder
<1> DEFINE Typed == got \in [Req -> Seq(Nat)] /\ end \in [Req -> {"open", "finished"} \cup DropEnds]
<1>1. IInv => Typed
  BY DEF IInv, TypeOK
<1>2. Init => Stream!FrontInOrder
  <2> SUFFICES ASSUME Init, NEW q \in Req
               PROVE  got[q] = <<>> /\ DOMAIN got[q] = {} /\ end[q] = "open"
    BY DEF Stream!FrontInOrder, Stream!PiecesIn
  <2> QED
    BY DEF Init
<1>3. Typed /\ Stream!FrontInOrder /\ [Stream!Next]_<<got, end>> => Stream!FrontInOrder'
  <2> SUFFICES ASSUME Typed, Stream!FrontInOrder, [Stream!Next]_<<got, end>>, NEW q \in Req
               PROVE  /\ \A i, j \in DOMAIN got'[q] : i < j => got'[q][i] < got'[q][j]
                      /\ \A i \in DOMAIN got'[q] :
                           {y \in Whole[q] : y <= got'[q][i]} \subseteq Stream!PiecesIn(got'[q])
                      /\ Stream!PiecesIn(got'[q]) \subseteq Whole[q]
                      /\ end'[q] \in {"finished", "fin"} =>
                           Stream!PiecesIn(got'[q]) = Whole[q] \/ end'[q] \in DropEnds
    BY DEF Stream!FrontInOrder, Stream!PiecesIn
  <2>0. \A y \in Whole[q] : y \in Nat
    BY WholeBounded
  <2>1. CASE UNCHANGED <<got[q], end[q]>>
    BY <2>1 DEF Stream!FrontInOrder, Stream!PiecesIn
  <2>2. CASE Stream!Deliver(q)
    <3>1. PICK x \in Whole[q] : /\ end[q] = "open"
                                /\ Stream!PiecesIn(got[q]) = {y \in Whole[q] : y < x}
                                /\ got' = [got EXCEPT ![q] = Append(@, x)] /\ UNCHANGED end
      BY <2>2 DEF Stream!Deliver
    <3>2. /\ got'[q] = Append(got[q], x) /\ got[q] \in Seq(Nat) /\ x \in Nat
          /\ end'[q] = "open"
      BY <2>0, <3>1
    <3>3. Stream!PiecesIn(got'[q]) = {y \in Whole[q] : y <= x}
      <4>1. Stream!PiecesIn(got'[q]) = Stream!PiecesIn(got[q]) \cup {x}
        BY <3>2, PiecesOfAppend
      <4> QED
        BY <2>0, <3>1, <3>2, <4>1
    <3>4. /\ Len(got[q]) \in Nat /\ DOMAIN got[q] = 1 .. Len(got[q])
          /\ DOMAIN got'[q] = 1 .. Len(got[q]) + 1
          /\ got'[q][Len(got[q]) + 1] = x
          /\ \A i \in 1 .. Len(got[q]) : got'[q][i] = got[q][i]
      BY <3>2
    <3>5. \A i \in 1 .. Len(got[q]) : got[q][i] \in Nat /\ got[q][i] < x
      <4>1. \A i \in 1 .. Len(got[q]) : got[q][i] \in Stream!PiecesIn(got[q])
        BY <3>4 DEF Stream!PiecesIn
      <4> QED
        BY <2>0, <3>1, <4>1
    <3>6. \A i, j \in DOMAIN got'[q] : i < j => got'[q][i] < got'[q][j]
      <4> SUFFICES ASSUME NEW i \in DOMAIN got'[q], NEW j \in DOMAIN got'[q], i < j
                   PROVE  got'[q][i] < got'[q][j]
        OBVIOUS
      <4>1. i \in 1 .. Len(got[q]) /\ (j \in 1 .. Len(got[q]) \/ j = Len(got[q]) + 1)
        BY <3>4
      <4>2. CASE j \in 1 .. Len(got[q])
        BY <3>4, <4>1, <4>2 DEF Stream!FrontInOrder
      <4>3. CASE j = Len(got[q]) + 1
        BY <3>4, <3>5, <4>1, <4>3
      <4> QED
        BY <4>1, <4>2, <4>3
    <3>7. \A i \in DOMAIN got'[q] : got'[q][i] \in Nat /\ got'[q][i] <= x
      BY <3>2, <3>4, <3>5
    <3>8. \A i \in DOMAIN got'[q] :
            {y \in Whole[q] : y <= got'[q][i]} \subseteq Stream!PiecesIn(got'[q])
      BY <2>0, <3>2, <3>3, <3>7
    <3> QED
      BY <3>2, <3>3, <3>6, <3>8
  <2>3. CASE Stream!Finish(q) \/ Stream!Abandon(q)
    <3>1. /\ got' = got
          /\ end'[q] \in {"finished", "fin"} =>
               Stream!PiecesIn(got[q]) = Whole[q] \/ end'[q] \in DropEnds
      BY <2>3 DEF Stream!Finish, Stream!Abandon
    <3> QED
      BY <3>1 DEF Stream!FrontInOrder, Stream!PiecesIn
  <2>4. ASSUME NEW r \in Req, r # q, Stream!Deliver(r) \/ Stream!Finish(r) \/ Stream!Abandon(r)
        PROVE  UNCHANGED <<got[q], end[q]>>
    BY <2>4 DEF Stream!Deliver, Stream!Finish, Stream!Abandon
  <2> QED
    BY <2>1, <2>2, <2>3, <2>4 DEF Stream!Next
<1>4. IInv /\ [Next]_vars => [Stream!Next]_<<got, end>>
  BY StreamStep
<1> QED
  BY <1>1, <1>2, <1>3, <1>4, Invariance, PTL DEF Spec

\* If s2n-quic does not end a stream that is dropped, a client that sees the end of
\* a response has all of it, wherever upstreams and connections failed.
THEOREM EndIsComplete ==
  ASSUME "fin" \notin DropEnds
  PROVE  Spec => [](\A r \in Req : end[r] \in {"finished", "fin"} =>
                                    Stream!PiecesIn(got[r]) = Whole[r])
<1>1. Stream!FrontInOrder =>
        \A r \in Req : end[r] \in {"finished", "fin"} => Stream!PiecesIn(got[r]) = Whole[r]
  BY StreamAssumption DEF Stream!FrontInOrder
<1> QED
  BY <1>1, ClientHasFront, PTL
-----------------------------------------------------------------------------
\* A WriteBuf has two chunks at most, and one of them is taken at a time.
TwoChunks ==
  \A r \in Req :
    /\ IsFiniteSet(chunk[r]) /\ Cardinality(chunk[r]) \in 0 .. 1
    /\ IsFiniteSet(buf[r]) /\ Cardinality(buf[r]) \in 0 .. 2

LEMMA TwoPieces ==
  ASSUME NEW r \in Req, NEW f \in Nat
  PROVE  IsFiniteSet(Pieces(r, f)) /\ Cardinality(Pieces(r, f)) \in 0 .. 2
<1>1. IsFiniteSet({}) /\ Cardinality({}) = 0
  BY FS_EmptySet
<1>2. IsFiniteSet({HeaderOf(f)}) /\ Cardinality({HeaderOf(f)}) = 1
  BY FS_Singleton
<1>3. PayloadOf(f) # HeaderOf(f)
  BY DEF PayloadOf, HeaderOf
<1>4. {HeaderOf(f), PayloadOf(f)} = {HeaderOf(f)} \cup {PayloadOf(f)}
  OBVIOUS
<1>5. IsFiniteSet({HeaderOf(f), PayloadOf(f)}) /\ Cardinality({HeaderOf(f), PayloadOf(f)}) = 2
  BY <1>2, <1>3, <1>4, FS_AddElement
<1>6. Pieces(r, f) \in {{HeaderOf(f), PayloadOf(f)}, {HeaderOf(f)}, {}}
  BY DEF Pieces
<1> QED
  BY <1>1, <1>2, <1>5, <1>6

\* Taking a piece out of buf makes it smaller by one.
LEMMA TakeCounts ==
  ASSUME TypeOK, TwoChunks, NEW r \in Req, Take(r)
  PROVE  /\ IsFiniteSet(chunk'[r]) /\ Cardinality(chunk[r]) = 0 /\ Cardinality(chunk'[r]) = 1
         /\ IsFiniteSet(buf'[r]) /\ Cardinality(buf'[r]) = Cardinality(buf[r]) - 1
         /\ Cardinality(buf[r]) \in 1 .. 2
<1>1. PICK x \in buf[r] : chunk' = [chunk EXCEPT ![r] = {x}] /\ buf' = [buf EXCEPT ![r] = @ \ {x}]
  BY DEF Take
<1>2. chunk'[r] = {x} /\ buf'[r] = buf[r] \ {x} /\ chunk[r] = {}
  BY <1>1 DEF Take, TypeOK
<1>3. Cardinality(chunk[r]) = 0 /\ IsFiniteSet(chunk'[r]) /\ Cardinality(chunk'[r]) = 1
  <2>1. Cardinality({}) = 0 /\ IsFiniteSet({x}) /\ Cardinality({x}) = 1
    BY FS_EmptySet, FS_Singleton
  <2> QED
    BY <1>2, <2>1
<1>4. IsFiniteSet(buf[r]) /\ Cardinality(buf[r]) \in 0 .. 2
  BY DEF TwoChunks
<1>5. IsFiniteSet(buf'[r]) /\ Cardinality(buf'[r]) = Cardinality(buf[r]) - 1
  BY <1>2, <1>4, FS_RemoveElement
<1>6. Cardinality(buf'[r]) \in Nat
  BY <1>5, FS_CardinalityType
<1> QED
  BY <1>3, <1>4, <1>5, <1>6

LEMMA StepTwoChunks ==
  ASSUME IInv, TwoChunks, [Next]_vars
  PROVE  TwoChunks'
<1> SUFFICES ASSUME NEW q \in Req
             PROVE  /\ IsFiniteSet(chunk'[q]) /\ Cardinality(chunk'[q]) \in 0 .. 1
                    /\ IsFiniteSet(buf'[q]) /\ Cardinality(buf'[q]) \in 0 .. 2
  BY DEF TwoChunks
<1>0. TypeOK
  BY DEF IInv
<1>1. CASE UNCHANGED <<next[q], buf[q], chunk[q], got[q]>>
  BY <1>1 DEF TwoChunks
<1>2. CASE Take(q)
  BY <1>0, <1>2, TakeCounts
<1>3. CASE Send(q)
  <2>1. chunk'[q] = {} /\ buf'[q] = buf[q]
    BY <1>0, <1>3 DEF Send, TypeOK
  <2> QED
    BY <2>1, FS_EmptySet DEF TwoChunks
<1>4. CASE Skip(q)
  BY <1>4 DEF Skip, TwoChunks
<1>5. CASE Respond(q) \/ Frame(q)
  <2>1. chunk'[q] = chunk[q] /\ buf'[q] = Pieces(q, next[q]) /\ next[q] \in Nat
    BY <1>0, <1>5, Handed DEF Respond, Frame, TypeOK
  <2> QED
    BY <2>1, TwoPieces DEF TwoChunks
<1> QED
  BY <1>0, <1>1, <1>2, <1>3, <1>4, <1>5, Moves

\* The rank, phase by phase, before a step and behind it.
LEMMA Ranks ==
  ASSUME NEW r \in Req
  PROVE  /\ pc[r] = "resolve" => ToGo(r) = 7 * Len(Response[r]) + 10 + Upload[r]
         /\ pc[r] = "collect" => ToGo(r) = 7 * Len(Response[r]) + 9 + (Upload[r] - body[r])
         /\ pc[r] = "respond" => ToGo(r) = 7 * Len(Response[r]) + 8
         /\ pc[r] = "flush" => ToGo(r) = ToSend(r) + ToFlush(r) + 3
         /\ pc[r] = "frame" => ToGo(r) = ToSend(r) + 2
         /\ pc[r] = "finish" => ToGo(r) = ToFlush(r) + 1
         /\ pc'[r] = "resolve" => ToGo(r)' = 7 * Len(Response[r]) + 10 + Upload[r]
         /\ pc'[r] = "collect" => ToGo(r)' = 7 * Len(Response[r]) + 9 + (Upload[r] - body'[r])
         /\ pc'[r] = "respond" => ToGo(r)' = 7 * Len(Response[r]) + 8
         /\ pc'[r] = "flush" => ToGo(r)' = ToSend(r)' + ToFlush(r)' + 3
         /\ pc'[r] = "frame" => ToGo(r)' = ToSend(r)' + 2
         /\ pc'[r] = "finish" => ToGo(r)' = ToFlush(r)' + 1
  BY DEF ToGo

\* The rank of a task that runs is a positive number.
LEMMA TaskHasRank ==
  ASSUME TypeOK, TwoChunks, NEW r \in Req
  PROVE  /\ Len(Response[r]) \in Nat /\ Upload[r] \in Nat /\ next[r] \in Nat /\ body[r] \in Nat
         /\ ToSend(r) \in Nat /\ ToFlush(r) \in 0 .. 5 /\ Upload[r] - body[r] \in Nat
         /\ pc[r] \notin {"none", "done", "failed"} => ToGo(r) \in Nat /\ ToGo(r) > 0
<1>1. Len(Response[r]) \in Nat /\ Upload[r] \in Nat
  BY StreamAssumption
<1>2. /\ next[r] \in Nat /\ next[r] <= Len(Response[r]) + 1
      /\ body[r] \in Nat /\ sent[r] \in Nat /\ body[r] <= sent[r] /\ sent[r] <= Upload[r]
  BY DEF TypeOK
<1>3. ToSend(r) \in Nat
  BY <1>1, <1>2 DEF ToSend
<1>4. ToFlush(r) \in 0 .. 5
  BY DEF TwoChunks, ToFlush
<1>5. Upload[r] - body[r] \in Nat
  BY <1>1, <1>2
<1>6. pc[r] \in ReqState
  BY DEF TypeOK
<1>7. ASSUME pc[r] \notin {"none", "done", "failed"} PROVE ToGo(r) \in Nat /\ ToGo(r) > 0
  <2>1. pc[r] \in {"resolve", "collect", "respond", "flush", "frame", "finish"}
    BY <1>6, <1>7 DEF ReqState
  <2>2. CASE pc[r] \in {"resolve", "collect", "respond"}
    BY <1>1, <1>5, <2>2, Ranks
  <2>3. CASE pc[r] \in {"flush", "frame", "finish"}
    BY <1>3, <1>4, <2>3, Ranks
  <2> QED
    BY <2>1, <2>2, <2>3
<1> QED
  BY <1>1, <1>2, <1>3, <1>4, <1>5, <1>7

\* A frame is worth more than the pieces of the next one.
LEMMA NextFrame ==
  ASSUME TypeOK, TwoChunks, NEW r \in Req, next'[r] = next[r] + 1
  PROVE  ToSend(r)' = ToSend(r) - 7 /\ (next[r] = 0 => ToSend(r) = 7 * Len(Response[r]) + 7)
<1>1. Len(Response[r]) \in Nat /\ next[r] \in Nat
  BY TaskHasRank
<1>2. \A m, n \in Nat : 7 * (m + 1 - (n + 1)) = 7 * (m + 1 - n) - 7 /\ 7 * (m + 1 - 0) = 7 * m + 7
  OBVIOUS
<1> QED
  BY <1>1, <1>2 DEF ToSend

\* A step of the task of r.
LEMMA TaskStep ==
  ASSUME IInv, TwoChunks, NEW r \in Req, Flush(r) \/ Handle(r)
  PROVE  ToGo(r)' < ToGo(r)
<1> DEFINE L == Len(Response[r])
<1>0. TypeOK /\ Phases
  BY DEF IInv
<1>1. /\ L \in Nat /\ Upload[r] \in Nat /\ next[r] \in Nat /\ body[r] \in Nat
      /\ ToSend(r) \in Nat /\ ToFlush(r) \in 0 .. 5 /\ Upload[r] - body[r] \in Nat
      /\ pc[r] \notin {"none", "done", "failed"} => ToGo(r) \in Nat /\ ToGo(r) > 0
  BY <1>0, TaskHasRank
<1>2. CASE Take(r)
  <2>1. /\ Cardinality(chunk'[r]) = 1 /\ Cardinality(chunk[r]) = 0
        /\ Cardinality(buf'[r]) = Cardinality(buf[r]) - 1 /\ Cardinality(buf[r]) \in 1 .. 2
    BY <1>0, <1>2, TakeCounts
  <2>2. ToFlush(r)' = ToFlush(r) - 1
    BY <2>1 DEF ToFlush
  <2>4. pc[r] \in {"flush", "finish"} /\ pc'[r] = pc[r] /\ ToSend(r)' = ToSend(r)
    BY <1>2 DEF Take, Flushing, ToSend
  <2> QED
    BY <1>1, <2>2, <2>4, Ranks
<1>3. CASE Send(r)
  <2>1. chunk'[r] = {} /\ buf'[r] = buf[r] /\ chunk[r] # {}
    BY <1>0, <1>3 DEF Send, TypeOK
  <2>2. Cardinality(chunk'[r]) = 0 /\ Cardinality(chunk[r]) = 1
    <3>1. Cardinality(chunk[r]) # 0
      BY <2>1, FS_EmptySet DEF TwoChunks
    <3> QED
      BY <2>1, <3>1, FS_EmptySet DEF TwoChunks
  <2>3. ToFlush(r)' = ToFlush(r) - 1
    BY <2>1, <2>2 DEF ToFlush, TwoChunks
  <2>4. pc[r] \in {"flush", "finish"} /\ pc'[r] = pc[r] /\ ToSend(r)' = ToSend(r)
    BY <1>3 DEF Send, Flushing, ToSend
  <2> QED
    BY <1>1, <2>3, <2>4, Ranks
<1>4. CASE Ready(r)
  <2>1. pc[r] = "flush" /\ pc'[r] = "frame" /\ ToSend(r)' = ToSend(r)
    BY <1>0, <1>4 DEF Ready, TypeOK, ToSend
  <2>2. ToGo(r)' = ToSend(r) + 2 /\ ToGo(r) = ToSend(r) + ToFlush(r) + 3
    BY <2>1, Ranks
  <2> QED
    BY <1>1, <2>2
<1>5. CASE Finish(r) \/ SendFails(r) \/ ResolveFails(r) \/ BodyFails(r)
  <2>1. pc'[r] \in {"done", "failed"} /\ pc[r] \notin {"none", "done", "failed"}
    BY <1>0, <1>5 DEF Finish, SendFails, ResolveFails, BodyFails, Fail, Flushing, TypeOK
  <2>2. ToGo(r)' = 0
    BY <2>1 DEF ToGo
  <2> QED
    BY <1>1, <2>1, <2>2
<1>6. CASE Resolve(r)
  <2>1. pc[r] = "resolve" /\ pc'[r] \in {"collect", "respond"} /\ body'[r] = body[r]
    BY <1>0, <1>6 DEF Resolve, receiving, TypeOK
  <2>2. /\ ToGo(r) = 7 * L + 10 + Upload[r]
        /\ ToGo(r)' = 7 * L + 9 + (Upload[r] - body[r]) \/ ToGo(r)' = 7 * L + 8
    BY <2>1, Ranks
  <2> QED
    BY <1>1, <2>2
<1>7. CASE Receive(r)
  <2>1. pc[r] = "collect" /\ pc'[r] = "collect" /\ body'[r] = body[r] + 1
    BY <1>0, <1>7 DEF Receive, TypeOK
  <2>2. /\ ToGo(r) = 7 * L + 9 + (Upload[r] - body[r])
        /\ ToGo(r)' = 7 * L + 9 + (Upload[r] - (body[r] + 1))
    BY <2>1, Ranks
  <2> QED
    BY <1>1, <2>2
<1>8. CASE ReceiveEnd(r) \/ ReceiveFails(r)
  <2>1. pc[r] = "collect" /\ pc'[r] = "respond"
    BY <1>0, <1>8 DEF ReceiveEnd, ReceiveFails, TypeOK
  <2>2. /\ ToGo(r) = 7 * L + 9 + (Upload[r] - body[r])
        /\ ToGo(r)' = 7 * L + 8
    BY <2>1, Ranks
  <2> QED
    BY <1>1, <2>2
<1>9. CASE Respond(r) \/ Frame(r)
  <2>1. /\ pc[r] \in {"respond", "frame"} /\ pc'[r] = "flush" /\ next'[r] = next[r] + 1
        /\ buf'[r] = Pieces(r, next[r]) /\ chunk'[r] = chunk[r]
    BY <1>0, <1>9, Handed DEF Respond, Frame, TypeOK
  <2>2. chunk'[r] = {} /\ (pc[r] = "respond" => next[r] = 0)
    BY <1>0, <2>1 DEF Phases
  <2>3. Cardinality(chunk'[r]) = 0 /\ Cardinality(buf'[r]) \in 0 .. 2
    BY <1>1, <2>1, <2>2, FS_EmptySet, TwoPieces
  <2>4. ToFlush(r)' <= 4 /\ ToFlush(r)' \in Nat
    BY <2>3 DEF ToFlush
  <2>5. ToSend(r)' = ToSend(r) - 7 /\ (pc[r] = "respond" => ToSend(r) = 7 * L + 7)
    BY <1>0, <2>1, <2>2, NextFrame
  <2>6. ToGo(r)' = ToSend(r)' + ToFlush(r)' + 3
    BY <2>1, Ranks
  <2>7. ToGo(r) >= ToSend(r) + 1
    BY <1>1, <2>1, <2>5, Ranks
  <2>8. ToGo(r) \in Nat
    BY <1>1, <2>1
  <2> QED
    BY <1>1, <2>4, <2>5, <2>6, <2>7, <2>8
<1>10. CASE Skip(r)
  <2>1. pc[r] = "frame" /\ pc'[r] = "frame" /\ next'[r] = next[r] + 1
    BY <1>0, <1>10 DEF Skip, TypeOK
  <2>2. ToSend(r)' = ToSend(r) - 7
    BY <1>0, <2>1, NextFrame
  <2> QED
    BY <1>1, <2>1, <2>2, Ranks
<1>11. CASE BodyEnds(r)
  <2>1. /\ pc[r] = "frame" /\ pc'[r] = "finish"
        /\ chunk'[r] = {} /\ buf'[r] = {}
    BY <1>0, <1>11 DEF BodyEnds, sending, TypeOK, Phases
  <2>2. ToFlush(r)' = 0
    BY <2>1, FS_EmptySet DEF ToFlush
  <2> QED
    BY <1>1, <2>1, <2>2, Ranks
<1> QED
  BY <1>2, <1>3, <1>4, <1>5, <1>6, <1>7, <1>8, <1>9, <1>10, <1>11 DEF Flush, Handle

\* A task is moved by its own steps only; what its client does leaves it where it is.
LEMMA OwnSteps ==
  ASSUME TypeOK, [Next]_vars, NEW q \in Req, pc[q] # "none"
  PROVE  \/ UNCHANGED <<pc[q], next[q], buf[q], chunk[q], body[q]>>
         \/ Flush(q) \/ Handle(q)
<1> DEFINE Stays == UNCHANGED <<pc[q], next[q], buf[q], chunk[q], body[q]>>
<1>1. CASE LinkLost \/ Setup \/ LoopEnds \/ Over \/ UNCHANGED vars
  BY <1>1 DEF LinkLost, Setup, LoopEnds, Close, Over, vars, sending, receiving
<1>2. ASSUME NEW r \in Req, Accept(r) \/ Client(r) PROVE Stays
  BY <1>2 DEF Accept, Client, SendUpload, ResetUpload, StopSending, sending, receiving, TypeOK
<1>3. ASSUME NEW r \in Req, r # q, Flush(r) PROVE Stays
  BY <1>3 DEF Flush, Take, Send, Ready, Finish, SendFails, Fail, receiving, TypeOK
<1>4. ASSUME NEW r \in Req, r # q, Resolve(r) \/ ResolveFails(r) \/ Receive(r) \/ ReceiveEnd(r)
                                   \/ ReceiveFails(r) \/ Skip(r) \/ BodyEnds(r) \/ BodyFails(r)
      PROVE  Stays
  BY <1>4 DEF Resolve, ResolveFails, Receive, ReceiveEnd, ReceiveFails, Skip, BodyEnds, BodyFails,
              Fail, sending, receiving, TypeOK
<1>5. ASSUME NEW r \in Req, r # q, Respond(r) \/ Frame(r) PROVE Stays
  BY <1>5 DEF Respond, Frame, SendData, Fail, Close, receiving, TypeOK
<1> QED
  BY <1>1, <1>2, <1>3, <1>4, <1>5 DEF Next, Handle

\* No task goes round without end: each of its steps, whatever its client and the
\* other tasks do in between, leaves it fewer to take.
THEOREM RunsOut == Spec => TasksRunOut
<1>1. Init => TwoChunks
  BY FS_EmptySet DEF Init, TwoChunks
<1>2. IInv /\ TwoChunks /\ [Next]_vars => TwoChunks'
  BY StepTwoChunks
<1>3. IInv /\ TwoChunks /\ [Next]_vars =>
        [\A r \in Req : pc[r] # "none" =>
           ToGo(r)' < ToGo(r) \/ UNCHANGED <<pc[r], next[r], buf[r], chunk[r], body[r]>>]_vars
  <2> SUFFICES ASSUME IInv, TwoChunks, [Next]_vars, NEW r \in Req, pc[r] # "none"
               PROVE  ToGo(r)' < ToGo(r) \/ UNCHANGED <<pc[r], next[r], buf[r], chunk[r], body[r]>>
    OBVIOUS
  <2>1. TypeOK
    BY DEF IInv
  <2> QED
    BY <2>1, OwnSteps, TaskStep
<1> QED
  BY <1>1, <1>2, <1>3, Invariance, PTL DEF Spec, TasksRunOut
=============================================================================
