------------------------------- MODULE Delivery -------------------------------
(***************************************************************************)
(* What a client of the gateway can count on: a request reaches upstreams  *)
(* a bounded number of times, whatever fails in between, and an answer of  *)
(* an upstream comes only after a copy of this request went out.           *)
(***************************************************************************)
EXTENDS Naturals

CONSTANTS Req,    \* clients, with one request at a time
          Limits  \* how many copies the sites allow

VARIABLES state,   \* state[r]: "idle", "open", "answered", "refused"
          allowed, \* allowed[r]: copies that the site of the request allows
          copies   \* copies[r]: copies of the request that went out

vars == <<state, allowed, copies>>

Init ==
  /\ state = [r \in Req |-> "idle"]
  /\ allowed = [r \in Req |-> 0]
  /\ copies = [r \in Req |-> 0]

\* A request comes in; the gateway may refuse it (a redirect, an error) at once.
Begin(r) ==
  /\ state[r] = "idle"
  /\ \E s \in {"open", "refused"} : state' = [state EXCEPT ![r] = s]
  /\ \E n \in Limits : allowed' = [allowed EXCEPT ![r] = n]
  /\ UNCHANGED copies

Copy(r) ==
  /\ state[r] = "open" /\ copies[r] < allowed[r]
  /\ copies' = [copies EXCEPT ![r] = @ + 1]
  /\ UNCHANGED <<state, allowed>>

Answer(r) ==
  /\ state[r] = "open" /\ copies[r] > 0
  /\ state' = [state EXCEPT ![r] = "answered"]
  /\ UNCHANGED <<allowed, copies>>

Refuse(r) ==
  /\ state[r] = "open"
  /\ state' = [state EXCEPT ![r] = "refused"]
  /\ UNCHANGED <<allowed, copies>>

\* The response was handed on, or the client gave up.
End(r) ==
  /\ state[r] # "idle"
  /\ state' = [state EXCEPT ![r] = "idle"]
  /\ allowed' = [allowed EXCEPT ![r] = 0]
  /\ copies' = [copies EXCEPT ![r] = 0]

Next == \E r \in Req : Begin(r) \/ Copy(r) \/ Answer(r) \/ Refuse(r) \/ End(r)

Spec == Init /\ [][Next]_vars
-----------------------------------------------------------------------------
\* A request goes out as often as its site allows at most, and is answered only
\* when it went out.
Bounded ==
  \A r \in Req :
    /\ copies[r] <= allowed[r]
    /\ state[r] = "answered" => copies[r] > 0
=============================================================================
