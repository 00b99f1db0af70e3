------------------------------- MODULE H3Stream -------------------------------
(***************************************************************************)
(* One HTTP/3 connection: handle_conn() of h3.rs, its accept loop; a task  *)
(* handle_req() for each request of it; and the streams of s2n_quic.rs     *)
(* through which h3 receives and sends.                                    *)
(*                                                                         *)
(* A SendStream holds one WriteBuf (buf) and one chunk of it.  poll_ready  *)
(* moves chunk after chunk to the QUIC stream and returns Pending whenever *)
(* that is full; the next poll goes on from there.  An action is one round *)
(* of that loop, one poll of a receiving stream, or one await of a task.   *)
(***************************************************************************)
EXTENDS Naturals, Sequences, FiniteSets

CONSTANTS Req,      \* requests of the connection
          Response, \* Response[r]: the frames of the body that proxy() returns
          Upload,   \* Upload[r]: number of chunks of the body that r sends
          DropEnds  \* what the drop of a SendStream without finish() may look like
                    \* to the client: s2n-quic decides, and no code here says which

\* A frame of data, of no data, or of trailers (data_ref() is None).
FrameKind == {"data", "empty", "trailers"}

ASSUME StreamAssumption ==
  /\ Response \in [Req -> Seq(FrameKind)]
  /\ Upload \in [Req -> Nat]
  /\ DropEnds # {} /\ DropEnds \subseteq {"fin", "reset"}

VARIABLES
  link,      \* the QUIC connection: "up", "left" (closed, timed out), "fault"
  loop,      \* handle_conn: opening its control streams, accepting, returned
  pc,        \* pc[r]: where handle_req is
  sent,      \* sent[r]: chunks of its body that the client sent
  upload,    \* upload[r]: the client's sending side: "open", "fin", "reset"
  stopped,   \* stopped[r]: the client wants no more of the response
  body,      \* body[r]: chunks that H3Body gave to proxy()
  forwarded, \* forwarded[r]: the size of the body that went to an upstream, if one did
  next,      \* next[r]: the frame that send_data gets next; 0 is the headers
  full,      \* full[r]: the Option `buf` is Some
  buf,       \* buf[r]: the pieces left in it
  chunk,     \* chunk[r]: the piece in the Option `chunk`, if any
  got,       \* got[r]: the pieces the QUIC stream took
  end        \* end[r]: "open", "finished" (finish()), or dropped without it: "fin",
             \* an end of stream all the same, or "reset"

client == <<sent, upload, stopped>>
receiving == <<body, forwarded>>
sending == <<next, full, buf, chunk, got, end>>
vars == <<link, loop, pc, sent, upload, stopped, body, forwarded,
          next, full, buf, chunk, got, end>>

\* "resolve": in resolve_request; "collect", "respond": in proxy(), collecting
\* the body, and until it returns; "flush": in send_response or send_data;
\* "frame": in body.frame(); "finish": in finish().
ReqState == {"none", "resolve", "collect", "respond", "flush", "frame", "finish",
             "done", "failed"}

\* The WriteBuf of frame f has two chunks, the h3 frame header and the payload.
HeaderOf(f) == 2 * f
PayloadOf(f) == 2 * f + 1

\* Frame 0 is the HEADERS frame, the others those of the body.
Pieces(r, f) ==
  CASE f = 0 \/ Response[r][f] = "data" -> {HeaderOf(f), PayloadOf(f)}
    [] f # 0 /\ Response[r][f] = "empty" -> {HeaderOf(f)}
    [] OTHER -> {}

Whole == [r \in Req |-> UNION {Pieces(r, f) : f \in 0 .. Len(Response[r])}]

\* poll_accept_bidi and poll_accept_recv report that the connection is gone.
AcceptBroken == link # "up"

\* h3 closes the QUIC connection, unless it is closed.
Close(how) == link' = IF link = "up" THEN how ELSE link

\* poll_send and poll_receive report a reset of the stream or of the connection.
SendBroken(r) == stopped[r] \/ link # "up"
ReceiveBroken(r) == upload[r] = "reset" \/ link # "up"

Init ==
  /\ link = "up" /\ loop = "setup"
  /\ pc = [r \in Req |-> "none"]
  /\ sent = [r \in Req |-> 0] /\ upload = [r \in Req |-> "open"]
  /\ stopped = [r \in Req |-> FALSE]
  /\ body = [r \in Req |-> 0] /\ forwarded = [r \in Req |-> {}]
  /\ next = [r \in Req |-> 0]
  /\ full = [r \in Req |-> FALSE] /\ buf = [r \in Req |-> {}] /\ chunk = [r \in Req |-> {}]
  /\ got = [r \in Req |-> <<>>] /\ end = [r \in Req |-> "open"]
-----------------------------------------------------------------------------
(***************************************************************************)
(* The client and the network.                                             *)
(***************************************************************************)
\* The body of the request arrives chunk by chunk, then its end.
SendUpload(r) ==
  /\ link = "up" /\ pc[r] # "none" /\ upload[r] = "open"
  /\ IF sent[r] < Upload[r]
     THEN sent' = [sent EXCEPT ![r] = @ + 1] /\ UNCHANGED upload
     ELSE upload' = [upload EXCEPT ![r] = "fin"] /\ UNCHANGED sent
  /\ UNCHANGED <<link, loop, pc, stopped, receiving, sending>>

ResetUpload(r) ==
  /\ link = "up" /\ pc[r] # "none" /\ upload[r] = "open"
  /\ upload' = [upload EXCEPT ![r] = "reset"]
  /\ UNCHANGED <<link, loop, pc, sent, stopped, receiving, sending>>

StopSending(r) ==
  /\ link = "up" /\ pc[r] # "none" /\ ~stopped[r]
  /\ stopped' = [stopped EXCEPT ![r] = TRUE]
  /\ UNCHANGED <<link, loop, pc, sent, upload, receiving, sending>>

\* The client closes the connection, or its idle timer expires.
LinkLost ==
  /\ link = "up"
  /\ link' = "left"
  /\ UNCHANGED <<loop, pc, client, receiving, sending>>
-----------------------------------------------------------------------------
(***************************************************************************)
(* handle_conn().                                                          *)
(***************************************************************************)
\* h3 opens its control stream and sends its settings.
Setup ==
  /\ loop = "setup" /\ link = "up"
  /\ loop' = "accepting"
  /\ UNCHANGED <<link, pc, client, receiving, sending>>

Accept(r) ==
  /\ loop = "accepting" /\ ~AcceptBroken /\ pc[r] = "none"
  /\ pc' = [pc EXCEPT ![r] = "resolve"]
  /\ UNCHANGED <<link, loop, client, receiving, sending>>

\* Mutation: the QUIC connection goes on under the requests that are left.
LoopEndsKeepsLink ==
  /\ loop # "over"
  /\ loop' = "over"
  /\ UNCHANGED <<link, pc, client, receiving, sending>>

\* new() fails, or accept() returns None or Err: the h3 connection is dropped,
\* which closes the QUIC connection under the requests that are left.
LoopEnds ==
  /\ loop # "over"
  /\ loop' = "over"
  /\ Close("left")
  /\ UNCHANGED <<pc, client, receiving, sending>>
-----------------------------------------------------------------------------
(***************************************************************************)
(* SendStream.                                                             *)
(***************************************************************************)
\* handle_req returns Err and drops its half of the stream, which it neither
\* finishes nor resets.
Fail(r) ==
  /\ pc' = [pc EXCEPT ![r] = "failed"]
  /\ \E how \in DropEnds : end' = [end EXCEPT ![r] = how]

\* send_data: the WriteBuf of the next frame goes into buf.  A buf that is
\* occupied is an error of the connection, which h3 closes.
SendData(r) ==
  IF full[r]
  THEN /\ Fail(r)
       /\ Close("fault")
       /\ UNCHANGED <<next, full, buf>>
  ELSE /\ full' = [full EXCEPT ![r] = TRUE]
       /\ buf' = [buf EXCEPT ![r] = Pieces(r, next[r])]
       /\ next' = [next EXCEPT ![r] = @ + 1]
       /\ pc' = [pc EXCEPT ![r] = "flush"]
       /\ UNCHANGED <<link, end>>

\* h3 polls poll_ready after each send_data, poll_finish at the end.
Flushing(r) == pc[r] \in {"flush", "finish"}

\* poll_ready: the first chunk left in buf becomes the chunk to send.
Take(r) ==
  /\ Flushing(r) /\ chunk[r] = {}
  /\ \E x \in buf[r] :
        /\ \A y \in buf[r] : x <= y
        /\ chunk' = [chunk EXCEPT ![r] = {x}]
        /\ buf' = [buf EXCEPT ![r] = @ \ {x}]
  /\ UNCHANGED <<link, loop, pc, client, receiving, next, full, got, end>>

\* poll_ready: poll_send took the chunk.
Send(r) ==
  /\ Flushing(r) /\ ~SendBroken(r)
  /\ \E x \in chunk[r] : got' = [got EXCEPT ![r] = Append(@, x)]
  /\ chunk' = [chunk EXCEPT ![r] = {}]
  /\ UNCHANGED <<link, loop, pc, client, receiving, next, full, buf, end>>

\* Mutation: an empty WriteBuf is not cleared.
ReadyKeepsBuf(r) ==
  /\ pc[r] = "flush" /\ chunk[r] = {} /\ buf[r] = {}
  /\ pc' = [pc EXCEPT ![r] = "frame"]
  /\ UNCHANGED <<link, loop, client, receiving, sending>>

\* poll_ready: neither chunk nor buf is left.
Ready(r) ==
  /\ pc[r] = "flush" /\ chunk[r] = {} /\ buf[r] = {}
  /\ full' = [full EXCEPT ![r] = FALSE]
  /\ pc' = [pc EXCEPT ![r] = "frame"]
  /\ UNCHANGED <<link, loop, client, receiving, next, buf, chunk, got, end>>

\* poll_finish: poll_ready is through, then finish().
Finish(r) ==
  /\ pc[r] = "finish" /\ chunk[r] = {} /\ buf[r] = {}
  /\ full' = [full EXCEPT ![r] = FALSE]
  /\ pc' = [pc EXCEPT ![r] = "done"]
  /\ end' = [end EXCEPT ![r] = "finished"]
  /\ UNCHANGED <<link, loop, client, receiving, next, buf, chunk, got>>

\* Mutation: a connection that is gone leaves poll_send pending.
SendFailsIfStopped(r) ==
  /\ Flushing(r) /\ stopped[r]
  /\ chunk[r] # {} \/ (pc[r] = "finish" /\ buf[r] = {})
  /\ Fail(r)
  /\ UNCHANGED <<link, loop, client, receiving, next, full, buf, chunk, got>>

\* poll_send or finish() reports that the stream or the connection is gone.
SendFails(r) ==
  /\ Flushing(r) /\ SendBroken(r)
  /\ chunk[r] # {} \/ (pc[r] = "finish" /\ buf[r] = {})
  /\ Fail(r)
  /\ UNCHANGED <<link, loop, client, receiving, next, full, buf, chunk, got>>
-----------------------------------------------------------------------------
(***************************************************************************)
(* handle_req().                                                           *)
(***************************************************************************)
\* The headers are there, and proxy() needs the body or, where it has no site
\* for the host or no address for the site, does not.
Resolve(r) ==
  /\ pc[r] = "resolve"
  /\ \E p \in {"collect", "respond"} : pc' = [pc EXCEPT ![r] = p]
  /\ UNCHANGED <<link, loop, client, receiving, sending>>

\* No valid HEADERS frame: the task ends and drops the stream.
ResolveFails(r) ==
  /\ pc[r] = "resolve"
  /\ Fail(r)
  /\ UNCHANGED <<link, loop, client, receiving, next, full, buf, chunk, got>>

\* H3Body::poll_frame has a chunk.
Receive(r) ==
  /\ pc[r] = "collect" /\ body[r] < sent[r] /\ ~ReceiveBroken(r)
  /\ body' = [body EXCEPT ![r] = @ + 1]
  /\ UNCHANGED <<link, loop, pc, client, forwarded, sending>>

\* Mutation: an error of the stream reads as the end of the body.
ReceiveEndOrError(r) ==
  /\ pc[r] = "collect"
  /\ (body[r] = sent[r] /\ upload[r] = "fin") \/ upload[r] = "reset"
  /\ forwarded' = [forwarded EXCEPT ![r] = {body[r]}]
  /\ pc' = [pc EXCEPT ![r] = "respond"]
  /\ UNCHANGED <<link, loop, client, body, sending>>

\* H3Body::poll_frame is at the end: proxy() sends the request to an upstream.
ReceiveEnd(r) ==
  /\ pc[r] = "collect" /\ body[r] = sent[r] /\ upload[r] = "fin" /\ link = "up"
  /\ forwarded' = [forwarded EXCEPT ![r] = {body[r]}]
  /\ pc' = [pc EXCEPT ![r] = "respond"]
  /\ UNCHANGED <<link, loop, client, body, sending>>

\* H3Body::poll_frame has an error: proxy() will respond 500.
ReceiveFails(r) ==
  /\ pc[r] = "collect" /\ ReceiveBroken(r)
  /\ pc' = [pc EXCEPT ![r] = "respond"]
  /\ UNCHANGED <<link, loop, client, receiving, sending>>

\* proxy() returns, and send_response takes the head of its response.
Respond(r) ==
  /\ pc[r] = "respond"
  /\ SendData(r)
  /\ UNCHANGED <<loop, client, receiving, chunk, got>>

\* body.frame() yields trailers: they are not passed on.
Skip(r) ==
  /\ pc[r] = "frame" /\ next[r] <= Len(Response[r])
  /\ Response[r][next[r]] = "trailers"
  /\ next' = [next EXCEPT ![r] = @ + 1]
  /\ UNCHANGED <<link, loop, pc, client, receiving, full, buf, chunk, got, end>>

\* body.frame() yields data.
Frame(r) ==
  /\ pc[r] = "frame" /\ next[r] <= Len(Response[r])
  /\ Response[r][next[r]] # "trailers"
  /\ SendData(r)
  /\ UNCHANGED <<loop, client, receiving, chunk, got>>

BodyEnds(r) ==
  /\ pc[r] = "frame" /\ next[r] = Len(Response[r]) + 1
  /\ pc' = [pc EXCEPT ![r] = "finish"]
  /\ UNCHANGED <<link, loop, client, receiving, sending>>

\* Mutation: an upstream that fails ends the body.
BodyFailsQuietly(r) ==
  /\ pc[r] = "frame"
  /\ pc' = [pc EXCEPT ![r] = "finish"]
  /\ UNCHANGED <<link, loop, client, receiving, sending>>

\* The upstream fails in the middle of its body.
BodyFails(r) ==
  /\ pc[r] = "frame"
  /\ Fail(r)
  /\ UNCHANGED <<link, loop, client, receiving, next, full, buf, chunk, got>>
-----------------------------------------------------------------------------
Client(r) == SendUpload(r) \/ ResetUpload(r) \/ StopSending(r)

Flush(r) == Take(r) \/ Send(r) \/ Ready(r) \/ Finish(r) \/ SendFails(r)

Handle(r) ==
  \/ Resolve(r) \/ ResolveFails(r) \/ Receive(r) \/ ReceiveEnd(r) \/ ReceiveFails(r)
  \/ Respond(r) \/ Skip(r) \/ Frame(r) \/ BodyEnds(r) \/ BodyFails(r)

\* The connection is closed and no task is left: nothing is to happen.
Over == link # "up" /\ loop = "over" /\ (\A r \in Req : pc[r] \in {"none", "done", "failed"})
        /\ UNCHANGED vars

Next ==
  \/ LinkLost \/ Setup \/ LoopEnds \/ Over
  \/ \E r \in Req : Accept(r) \/ Client(r) \/ Flush(r) \/ Handle(r)

Spec == Init /\ [][Next]_vars

(***************************************************************************)
(* Tasks that are ready are polled.  That the client sends its request and *)
(* reads the response, or is given up by the QUIC idle timer, and that the *)
(* upstream answers, are assumptions: handle_req has no timeout.           *)
(***************************************************************************)
Fairness == \A r \in Req : WF_vars(SendUpload(r)) /\ WF_vars(Flush(r)) /\ WF_vars(Handle(r))

FairSpec == Spec /\ Fairness
-----------------------------------------------------------------------------
(***************************************************************************)
(* Properties.                                                             *)
(***************************************************************************)
\* chunk is one piece at most, and no frame and no chunk is read past the last.
TypeOK ==
  /\ link \in {"up", "left", "fault"} /\ loop \in {"setup", "accepting", "over"}
  /\ pc \in [Req -> ReqState]
  /\ sent \in [Req -> Nat] /\ upload \in [Req -> {"open", "fin", "reset"}]
  /\ stopped \in [Req -> BOOLEAN]
  /\ body \in [Req -> Nat] /\ forwarded \in [Req -> SUBSET Nat]
  /\ next \in [Req -> Nat]
  /\ \A r \in Req : next[r] <= Len(Response[r]) + 1 /\ body[r] <= sent[r] /\ sent[r] <= Upload[r]
  /\ full \in [Req -> BOOLEAN] /\ buf \in [Req -> SUBSET Nat]
  /\ chunk \in [Req -> SUBSET Nat] /\ \A r \in Req : \A x, y \in chunk[r] : x = y
  /\ got \in [Req -> Seq(Nat)] /\ end \in [Req -> {"open", "finished"} \cup DropEnds]

\* Whatever the streams take between Pending and Pending, a client gets the
\* pieces of its response in order, each once, and finish() comes only behind the
\* last.
Stream == INSTANCE ResponseStream WITH Cuts <- DropEnds
StreamSpec == Stream!Spec

\* send_data always finds its buf empty: no request makes h3 close the
\* connection, and with it the other requests.
NoInternalError == link # "fault"

\* An upstream gets the whole body of the request or no request at all, wherever
\* the client reset its stream or the connection broke.
WholeBodyForwarded ==
  \A r \in Req : \A n \in forwarded[r] : n = Upload[r] /\ upload[r] = "fin"

\* Nothing leaves for the client once the task of the connection has returned: the
\* requests run without its guard, but the exit that no longer waits for them cuts
\* off nothing that would have arrived.
NoneServedUnguarded == [][loop = "over" => got' = got]_vars

\* A request task comes to its end; with a client that stops reading or leaves,
\* too.
RequestTaskEnds == \A r \in Req : pc[r] = "resolve" ~> pc[r] \in {"done", "failed"}

\* How far a task is from its end: the frames that it has not given to send_data
\* yet, what the last of them still has in buf and in chunk, and its own steps.
ToSend(r) == 7 * (Len(Response[r]) + 1 - next[r])
ToFlush(r) == Cardinality(chunk[r]) + 2 * Cardinality(buf[r])
ToGo(r) ==
  CASE pc[r] = "resolve" -> 7 * Len(Response[r]) + 10 + Upload[r]
    [] pc[r] = "collect" -> 7 * Len(Response[r]) + 9 + (Upload[r] - body[r])
    [] pc[r] = "respond" -> 7 * Len(Response[r]) + 8
    [] pc[r] = "flush"   -> ToSend(r) + ToFlush(r) + 3
    [] pc[r] = "frame"   -> ToSend(r) + 2
    [] pc[r] = "finish"  -> ToFlush(r) + 1
    [] OTHER             -> 0

\* Each step of a task brings it nearer to its end, and nothing else takes it back:
\* no client, however it uploads, stops and resets, and no stream, however often it
\* is full, has a task go round without end.
TasksRunOut ==
  [][\A r \in Req : pc[r] # "none" =>
       ToGo(r)' < ToGo(r) \/ UNCHANGED <<pc[r], next[r], buf[r], chunk[r], body[r]>>]_vars
=============================================================================
