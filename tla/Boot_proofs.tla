------------------------------ MODULE Boot_proofs ------------------------------
(***************************************************************************)
(* Any hosts and upstreams, any configuration, any sockets handed over:    *)
(* the table is consistent, each server has its own socket, and a redirect *)
(* of h1 leads to a site.                                                  *)
(***************************************************************************)
EXTENDS Boot, TLAPS

-----------------------------------------------------------------------------
(***************************************************************************)
(* The table.  For Indexed to be inductive, an upstream that is in use has *)
(* to be one that was made, and under one name only.                       *)
(***************************************************************************)
Made ==
  /\ \A h \in Host : host_conf[h] \in made \cup {None}
  /\ \A n \in Name : upstream_site[n].upstream \in made \cup {None}
  /\ \A m, n \in Name :
        upstream_site[m].upstream # None /\ upstream_site[m].upstream = upstream_site[n].upstream => m = n

TableInv == Table!RouteTypeOK /\ Made /\ Indexed

LEMMA InitTable == Init => TableInv
  BY BootAssumption
  DEF Init, Table!Init, TableInv, Table!RouteTypeOK, Made, Indexed, Table!Indexed

LEMMA StepTable == TableInv /\ [Next]_vars => TableInv'
<1> SUFFICES ASSUME TableInv, [Next]_vars PROVE TableInv'
  OBVIOUS
<1> USE BootAssumption DEF TableInv, Table!RouteTypeOK, Made, Indexed, Table!Indexed, Table!Known
<1>1. ASSUME NEW n \in Name, NEW u \in Upstream, Table!AddUpstream(n, u) PROVE TableInv'
  BY <1>1 DEF Table!AddUpstream
<1>2. ASSUME NEW n \in Name, NEW h \in Host, Table!Set(h, n) PROVE TableInv'
  BY <1>2 DEF Table!Set
<1>3. CASE UNCHANGED routeVars
  BY <1>3 DEF routeVars
<1> QED
  BY <1>1, <1>2, <1>3
  DEF Next, Configure, Table!Configure, Start, Listen, AskH1, AskProxy, Follow, Quit, vars

-----------------------------------------------------------------------------
(***************************************************************************)
(* The sockets.                                                            *)
(***************************************************************************)
\* Servers come to their sockets one after the other, after the scan.
InOrder ==
  /\ \A s \in Sockets!Server :
       adopted[s] # 0 \/ s \in bound =>
         CASE phase \in {"scan", "h1"} -> FALSE
           [] phase = "h2" -> s = "h1"
           [] phase = "h3" -> s \in {"h1", "h2"}
           [] OTHER -> TRUE
  /\ phase = "scan" => \A j \in DOMAIN fds : j >= i => j \in open
  /\ phase \notin {"scan", "failed"} => i = Len(fds) + 1

\* What the maps hold is open, of that kind and address, and nobody's.
KeptOpen ==
  \A k \in {"tcp", "udp"}, a \in Addr : kept[k][a] # 0 =>
    LET j == kept[k][a]
    IN  /\ j \in open /\ j < i /\ fds[j] = [kind |-> k, addr |-> a]
        /\ \A s \in Sockets!Server : adopted[s] # j

\* The sockets that were scanned and are open are in the maps or adopted.
OpenKept ==
  \A j \in open : j < i /\ fds[j].kind # "other" =>
    \/ kept[fds[j].kind][fds[j].addr] = j
    \/ \E s \in Sockets!Server : adopted[s] = j

\* A server that adopted a socket took the only one that there was.
AdoptedLast ==
  \A s \in Sockets!Server : adopted[s] # 0 =>
    /\ adopted[s] \in open /\ Sockets!Matches(adopted[s], s)
    /\ s \notin bound /\ Sockets!KeptFor(s) = 0
    /\ \A t \in Sockets!Server \ {s} :
         adopted[t] # 0 => ~(Sockets!KindOf[s] = Sockets!KindOf[t] /\ wanted[s] = wanted[t])

BoundLast ==
  \A s \in bound : \A j \in open :
    Sockets!Matches(j, s) => \E t \in Sockets!Server \ {s} : adopted[t] = j

SocketInv == Sockets!ListenTypeOK /\ InOrder /\ KeptOpen /\ OpenKept /\ AdoptedLast /\ BoundLast

LEMMA InitSockets == Init => SocketInv
<1> SUFFICES ASSUME Sockets!Init PROVE SocketInv
  BY DEF Init
<1> USE DEF Sockets!Init
<1>1. /\ fds \in Seq(Sockets!Socket) /\ DOMAIN fds = 1 .. Len(fds) /\ Len(fds) \in Nat
      /\ wanted \in [Sockets!Server -> Addr]
  BY BootAssumption
<1>2. Sockets!ListenTypeOK
  BY <1>1 DEF Sockets!ListenTypeOK, Sockets!Phase
<1>3. InOrder /\ AdoptedLast /\ BoundLast
  BY <1>1 DEF InOrder, AdoptedLast, BoundLast
<1>4. KeptOpen /\ OpenKept
  BY <1>1 DEF KeptOpen, OpenKept
<1> QED
  BY <1>2, <1>3, <1>4 DEF SocketInv

LEMMA StepScan == SocketInv /\ Sockets!Scan => SocketInv'
<1> SUFFICES ASSUME SocketInv, Sockets!Scan PROVE SocketInv'
  OBVIOUS
<1>0. Sockets!ListenTypeOK /\ InOrder /\ KeptOpen /\ OpenKept
  BY DEF SocketInv
<1>1. /\ fds \in Seq(Sockets!Socket) /\ i \in 1 .. Len(fds) /\ DOMAIN fds = 1 .. Len(fds)
      /\ fds' = fds /\ wanted' = wanted /\ phase' = "scan" /\ phase = "scan" /\ i' = i + 1
      /\ adopted' = adopted /\ bound' = bound
      /\ fds[i] \in Sockets!Socket
  BY <1>0 DEF Sockets!ListenTypeOK, Sockets!Scan
<1>2. bound = {} /\ \A s \in Sockets!Server : adopted[s] = 0
  BY <1>0, <1>1 DEF InOrder, Sockets!ListenTypeOK
<1>3. AdoptedLast' /\ BoundLast'
  BY <1>1, <1>2 DEF AdoptedLast, BoundLast
<1>4. open \subseteq 1 .. Len(fds) /\ kept \in [{"tcp", "udp"} -> [Addr -> 0 .. Len(fds)]]
  BY <1>0, <1>1 DEF Sockets!ListenTypeOK
<1>5. CASE fds[i].kind = "other"
  <2>1. kept' = kept /\ open' = open
    BY <1>5 DEF Sockets!Scan
  <2>2. Sockets!ListenTypeOK'
    BY <1>0, <1>1, <2>1 DEF Sockets!ListenTypeOK, Sockets!Phase
  <2>3. InOrder'
    BY <1>0, <1>1, <1>2, <2>1 DEF InOrder
  <2>4. KeptOpen'
    <3>1. \A j \in open : j < i => j < i + 1
      BY <1>1, <1>4
    <3> QED
      BY <1>0, <1>1, <2>1, <3>1 DEF KeptOpen
  <2>5. OpenKept'
    <3> SUFFICES ASSUME NEW j \in open, j < i + 1, fds[j].kind # "other"
                 PROVE  kept[fds[j].kind][fds[j].addr] = j \/ \E s \in Sockets!Server : adopted[s] = j
      BY <1>1, <2>1 DEF OpenKept
    <3>1. j # i
      BY <1>5
    <3>2. j < i
      BY <1>1, <1>4, <3>1
    <3> QED
      BY <1>0, <3>2 DEF OpenKept
  <2> QED
    BY <1>3, <2>2, <2>3, <2>4, <2>5 DEF SocketInv
<1>6. CASE fds[i].kind # "other"
  <2> DEFINE k == fds[i].kind  a == fds[i].addr  old == kept[k][a]
  <2>1. k \in {"tcp", "udp"} /\ a \in Addr /\ fds[i] = [kind |-> k, addr |-> a]
    BY <1>1, <1>6 DEF Sockets!Socket
  <2>2. kept' = [kept EXCEPT ![k][a] = i] /\ open' = open \ {old}
    BY <1>6 DEF Sockets!Scan
  <2>3. \A l \in {"tcp", "udp"}, b \in Addr : kept'[l][b] = IF l = k /\ b = a THEN i ELSE kept[l][b]
    BY <1>4, <2>1, <2>2
  <2>4. i \in open
    BY <1>0, <1>1 DEF InOrder
  <2>5. old # 0 => old < i /\ fds[old] = [kind |-> k, addr |-> a]
    BY <1>0, <2>1 DEF KeptOpen
  <2>6. old # i
    BY <1>1, <2>5
  <2>7. Sockets!ListenTypeOK'
    BY <1>0, <1>1, <2>1, <2>2 DEF Sockets!ListenTypeOK, Sockets!Phase
  <2>8. InOrder'
    <3>1. \A j \in DOMAIN fds : j >= i + 1 => j \in open \ {old}
      BY <1>0, <1>1, <2>5 DEF InOrder
    <3> QED
      BY <1>1, <1>2, <2>2, <3>1 DEF InOrder
  <2>9. KeptOpen'
    <3> SUFFICES ASSUME NEW l \in {"tcp", "udp"}, NEW b \in Addr, kept'[l][b] # 0
                 PROVE  /\ kept'[l][b] \in open \ {old} /\ kept'[l][b] < i + 1
                        /\ fds[kept'[l][b]] = [kind |-> l, addr |-> b]
                        /\ \A s \in Sockets!Server : adopted[s] # kept'[l][b]
      <4>1. fds' = fds /\ i' = i + 1 /\ adopted' = adopted /\ open' = open \ {old}
        BY <1>1, <2>2
      <4> HIDE DEF old, k, a
      <4> QED
        BY <4>1 DEF KeptOpen
    <3>1. CASE l = k /\ b = a
      <4>1. kept'[l][b] = i
        BY <2>3, <3>1
      <4> QED
        BY <1>1, <1>2, <2>1, <2>4, <2>6, <3>1, <4>1
    <3>2. CASE ~(l = k /\ b = a)
      <4>1. kept'[l][b] = kept[l][b]
        BY <2>3, <3>2
      <4>2. /\ kept[l][b] # 0 /\ kept[l][b] \in open /\ kept[l][b] < i
            /\ fds[kept[l][b]] = [kind |-> l, addr |-> b]
            /\ \A s \in Sockets!Server : adopted[s] # kept[l][b]
        BY <1>0, <4>1 DEF KeptOpen
      <4>3. fds[kept[l][b]].kind = l /\ fds[kept[l][b]].addr = b
        BY <4>2
      <4>4. old # 0 => fds[old].kind = k /\ fds[old].addr = a
        BY <2>5
      <4>5. kept[l][b] # old
        BY <3>2, <4>2, <4>3, <4>4
      <4>6. kept[l][b] < i + 1
        BY <1>1, <1>4, <4>2
      <4> QED
        BY <4>1, <4>2, <4>5, <4>6
    <3> QED
      BY <3>1, <3>2
  <2>10. OpenKept'
    <3> SUFFICES ASSUME NEW j \in open \ {old}, j < i + 1, fds[j].kind # "other"
                 PROVE  kept'[fds[j].kind][fds[j].addr] = j
      BY <1>1, <2>2 DEF OpenKept
    <3>0. fds[j] \in Sockets!Socket
      <4>1. j \in 1 .. Len(fds)
        BY <1>4
      <4> QED
        BY <1>1, <4>1
    <3>1. fds[j].kind \in {"tcp", "udp"} /\ fds[j].addr \in Addr
      BY <3>0 DEF Sockets!Socket
    <3>2. CASE j = i
      BY <2>3, <3>1, <3>2
    <3>3. CASE j # i
      <4>1. j < i /\ j # 0
        BY <1>1, <1>4, <3>3
      <4>2. kept[fds[j].kind][fds[j].addr] = j
        BY <1>0, <1>2, <4>1 DEF OpenKept
      <4> QED
        BY <2>3, <3>1, <4>2
    <3> QED
      BY <3>2, <3>3
  <2> QED
    BY <1>3, <2>7, <2>8, <2>9, <2>10 DEF SocketInv
<1> QED
  BY <1>5, <1>6

LEMMA StepAdopt ==
  ASSUME NEW s \in Sockets!Server, SocketInv, Sockets!Adopt(s)
  PROVE  SocketInv'
<1> DEFINE k == Sockets!KindOf[s]  a == wanted[s]  j == kept[k][a]
<1>0. Sockets!ListenTypeOK /\ InOrder /\ KeptOpen /\ OpenKept /\ AdoptedLast /\ BoundLast
  BY DEF SocketInv
<1>1. /\ k \in {"tcp", "udp"} /\ a \in Addr /\ phase = s /\ phase' = Sockets!After[s]
      /\ j # 0 /\ adopted[s] = 0 /\ s \notin bound /\ i = Len(fds) + 1
      /\ adopted' = [adopted EXCEPT ![s] = j] /\ kept' = [kept EXCEPT ![k][a] = 0]
      /\ UNCHANGED <<fds, wanted, i, open, bound>>
  BY <1>0
  DEF Sockets!Adopt, Sockets!KeptFor, Sockets!KindOf, Sockets!Server, Sockets!ListenTypeOK, InOrder
<1>2. j \in open /\ fds[j] = [kind |-> k, addr |-> a] /\ \A t \in Sockets!Server : adopted[t] # j
  BY <1>0, <1>1 DEF KeptOpen
<1>3. /\ adopted \in [Sockets!Server -> 0 .. Len(fds)] /\ open \subseteq 1 .. Len(fds)
      /\ kept \in [{"tcp", "udp"} -> [Addr -> 0 .. Len(fds)]]
  BY <1>0 DEF Sockets!ListenTypeOK
<1>4. \A t \in Sockets!Server : adopted'[t] = IF t = s THEN j ELSE adopted[t]
  BY <1>1, <1>3
<1>5. \A l \in {"tcp", "udp"}, b \in Addr : kept'[l][b] = IF l = k /\ b = a THEN 0 ELSE kept[l][b]
  BY <1>1, <1>3
<1>6. Sockets!ListenTypeOK'
  <2>1. j \in 0 .. Len(fds) /\ 0 \in 0 .. Len(fds)
    <3>1. j \in 1 .. Len(fds) /\ Len(fds) \in Nat
      BY <1>0, <1>2, <1>3 DEF Sockets!ListenTypeOK
    <3> QED
      BY <3>1
  <2>2. adopted' \in [Sockets!Server -> 0 .. Len(fds)]
    BY <1>1, <1>3, <2>1
  <2>3. kept' \in [{"tcp", "udp"} -> [Addr -> 0 .. Len(fds)]]
    BY <1>1, <1>3, <2>1
  <2>4. phase' \in Sockets!Phase
    BY <1>1 DEF Sockets!Phase, Sockets!After, Sockets!Server
  <2>5. /\ fds \in Seq(Sockets!Socket) /\ wanted \in [Sockets!Server -> Addr]
        /\ i \in 1 .. Len(fds) + 1 /\ open \subseteq DOMAIN fds /\ bound \subseteq Sockets!Server
    BY <1>0 DEF Sockets!ListenTypeOK
  <2> QED
    BY <1>1, <2>2, <2>3, <2>4, <2>5 DEF Sockets!ListenTypeOK
<1>7. InOrder'
  BY <1>0, <1>1, <1>4 DEF InOrder, Sockets!After, Sockets!Server
<1>8. KeptOpen'
  <2> SUFFICES ASSUME NEW l \in {"tcp", "udp"}, NEW b \in Addr, kept'[l][b] # 0
               PROVE  /\ kept'[l][b] \in open /\ kept'[l][b] < i
                      /\ fds[kept'[l][b]] = [kind |-> l, addr |-> b]
                      /\ \A t \in Sockets!Server : adopted'[t] # kept'[l][b]
    BY <1>1 DEF KeptOpen
  <2>1. kept'[l][b] = kept[l][b] /\ ~(l = k /\ b = a)
    BY <1>5
  <2>2. /\ kept[l][b] \in open /\ kept[l][b] < i /\ fds[kept[l][b]] = [kind |-> l, addr |-> b]
        /\ \A t \in Sockets!Server : adopted[t] # kept[l][b]
    BY <1>0, <2>1 DEF KeptOpen
  <2>3. kept[l][b] # j
    <3>1. fds[kept[l][b]].kind = l /\ fds[kept[l][b]].addr = b /\ fds[j].kind = k /\ fds[j].addr = a
      BY <1>2, <2>2
    <3> QED
      BY <2>1, <3>1
  <2> QED
    BY <1>4, <2>1, <2>2, <2>3
<1>9. OpenKept'
  <2> SUFFICES ASSUME NEW l \in open, l < i, fds[l].kind # "other"
               PROVE  kept'[fds[l].kind][fds[l].addr] = l \/ \E t \in Sockets!Server : adopted'[t] = l
    BY <1>1 DEF OpenKept
  <2>1. CASE l = j
    BY <1>4, <2>1
  <2>2. CASE l # j
    <3>0. l \in 1 .. Len(fds) /\ fds[l] \in Sockets!Socket
      <4>1. l \in 1 .. Len(fds)
        BY <1>3
      <4>2. fds \in Seq(Sockets!Socket)
        BY <1>0 DEF Sockets!ListenTypeOK
      <4> QED
        BY <4>1, <4>2
    <3>1. fds[l].kind \in {"tcp", "udp"} /\ fds[l].addr \in Addr /\ l # 0
      BY <3>0 DEF Sockets!Socket
    <3>2. CASE kept[fds[l].kind][fds[l].addr] = l
      BY <1>5, <2>2, <3>1, <3>2
    <3>3. CASE \E t \in Sockets!Server : adopted[t] = l
      BY <1>1, <1>4, <3>1, <3>3
    <3> QED
      BY <1>0, <3>2, <3>3 DEF OpenKept
  <2> QED
    BY <2>1, <2>2
<1>10. AdoptedLast'
  <2> SUFFICES ASSUME NEW t \in Sockets!Server, adopted'[t] # 0
               PROVE  /\ adopted'[t] \in open /\ Sockets!Matches(adopted'[t], t)
                      /\ t \notin bound /\ kept'[Sockets!KindOf[t]][wanted[t]] = 0
                      /\ \A u \in Sockets!Server \ {t} :
                           adopted'[u] # 0 => ~(Sockets!KindOf[t] = Sockets!KindOf[u] /\ wanted[t] = wanted[u])
    BY <1>1 DEF AdoptedLast, Sockets!KeptFor, Sockets!Matches
  <2>0. \A u \in Sockets!Server : Sockets!KindOf[u] \in {"tcp", "udp"} /\ wanted[u] \in Addr
    BY <1>0 DEF Sockets!KindOf, Sockets!Server, Sockets!ListenTypeOK
  <2>1. \A u \in Sockets!Server : adopted[u] # 0 => kept[Sockets!KindOf[u]][wanted[u]] = 0
    BY <1>0 DEF AdoptedLast, Sockets!KeptFor
  <2>2. CASE t = s
    BY <1>1, <1>2, <1>4, <1>5, <2>0, <2>1, <2>2 DEF Sockets!Matches
  <2>3. CASE t # s
    <3>1. /\ adopted[t] \in open /\ Sockets!Matches(adopted[t], t) /\ t \notin bound
          /\ \A u \in Sockets!Server \ {t} :
               adopted[u] # 0 => ~(Sockets!KindOf[t] = Sockets!KindOf[u] /\ wanted[t] = wanted[u])
      BY <1>0, <1>4, <2>3 DEF AdoptedLast
    <3>2. kept[Sockets!KindOf[t]][wanted[t]] = 0 /\ adopted'[t] = adopted[t]
      BY <1>4, <2>1, <2>3
    <3>3. ~(Sockets!KindOf[t] = k /\ wanted[t] = a)
      BY <1>1, <3>2
    <3> QED
      BY <1>4, <1>5, <2>0, <3>1, <3>2, <3>3
  <2> QED
    BY <2>2, <2>3
<1>11. BoundLast'
  <2> SUFFICES ASSUME NEW t \in bound, NEW l \in open, Sockets!Matches(l, t)
               PROVE  \E u \in Sockets!Server \ {t} : adopted'[u] = l
    BY <1>1 DEF BoundLast, Sockets!Matches
  <2>1. PICK u \in Sockets!Server \ {t} : adopted[u] = l
    BY <1>0 DEF BoundLast
  <2>2. u # s
    BY <1>1, <1>3, <2>1
  <2> QED
    BY <1>4, <2>1, <2>2
<1> QED
  BY <1>6, <1>7, <1>8, <1>9, <1>10, <1>11 DEF SocketInv

\* What a server that finds nothing in its map leaves behind.
LEMMA NothingLeft ==
  ASSUME SocketInv, NEW s \in Sockets!Server, phase = s, Sockets!KeptFor(s) = 0,
         NEW j \in open, Sockets!Matches(j, s)
  PROVE  \E t \in Sockets!Server \ {s} : adopted[t] = j
<1>1. j \in 1 .. Len(fds) /\ j < i /\ fds[j].kind # "other" /\ adopted[s] = 0
  BY DEF SocketInv, Sockets!ListenTypeOK, InOrder, Sockets!Matches, Sockets!Server, Sockets!KindOf
<1> QED
  BY <1>1 DEF SocketInv, OpenKept, Sockets!KeptFor, Sockets!Matches

LEMMA StepBind ==
  ASSUME NEW s \in Sockets!Server, SocketInv, Sockets!Bind(s)
  PROVE  SocketInv'
<1> USE DEF Sockets!Bind, Sockets!Server, Sockets!After
<1>1. /\ phase = s /\ Sockets!KeptFor(s) = 0 /\ adopted[s] = 0 /\ bound' = bound \cup {s}
      /\ UNCHANGED <<fds, wanted, i, kept, open, adopted>>
  BY DEF SocketInv, InOrder
<1>2. BoundLast'
  BY <1>1, NothingLeft DEF SocketInv, BoundLast, Sockets!Matches
<1>3. Sockets!ListenTypeOK' /\ InOrder'
  BY <1>1 DEF SocketInv, Sockets!ListenTypeOK, InOrder, Sockets!Phase
<1>4. KeptOpen' /\ OpenKept'
  BY <1>1 DEF SocketInv, KeptOpen, OpenKept
<1>5. AdoptedLast'
  BY <1>1 DEF SocketInv, AdoptedLast, Sockets!KeptFor, Sockets!Matches
<1> QED
  BY <1>2, <1>3, <1>4, <1>5 DEF SocketInv

LEMMA StepSockets == SocketInv /\ [Next]_vars => SocketInv'
<1> SUFFICES ASSUME SocketInv, [Next]_vars PROVE SocketInv'
  OBVIOUS
<1>1. CASE UNCHANGED listenVars
  BY <1>1
  DEF listenVars, SocketInv, Sockets!ListenTypeOK, InOrder, KeptOpen, OpenKept, AdoptedLast, BoundLast,
      Sockets!KeptFor, Sockets!Matches
<1>2. ASSUME UNCHANGED <<fds, wanted, i, kept, open, adopted, bound>>,
             phase' = "failed" \/ (phase = "scan" /\ i \notin DOMAIN fds /\ phase' = "h1")
      PROVE  SocketInv'
  <2>1. Sockets!ListenTypeOK' /\ InOrder'
    BY <1>2 DEF SocketInv, Sockets!ListenTypeOK, InOrder, Sockets!Phase, Sockets!Server
  <2>2. KeptOpen' /\ OpenKept'
    BY <1>2 DEF SocketInv, KeptOpen, OpenKept
  <2>3. AdoptedLast' /\ BoundLast'
    BY <1>2 DEF SocketInv, AdoptedLast, BoundLast, Sockets!KeptFor, Sockets!Matches
  <2> QED
    BY <2>1, <2>2, <2>3 DEF SocketInv
<1>3. CASE Sockets!ScanDone \/ Sockets!Fails \/ \E s \in Sockets!Server : Sockets!BindFails(s)
  BY <1>2, <1>3 DEF Sockets!ScanDone, Sockets!Fails, Sockets!BindFails
<1> QED
  BY <1>1, <1>3, StepScan, StepAdopt, StepBind
  DEF Next, Configure, Start, Listen, Sockets!Listen, AskH1, AskProxy, Follow, Quit, vars

-----------------------------------------------------------------------------
(***************************************************************************)
(* The client.  From when it can ask, the table stays as it is.            *)
(***************************************************************************)
\* What the answers so far say of the host that the client is at.
Asked ==
  /\ moved \in {0, 1} /\ answer \in {"301", "404", "500", None}
  /\ moved = 1 => Table!Known(host)
  /\ answer = "404" => Table!Lookup(host) = {"404"}
  /\ answer = "500" => "404" \notin Table!Lookup(host)

ClientInv ==
  /\ started \in BOOLEAN
  /\ phase = "serving" => started
  /\ phase # "scan" \/ i # 1 => started
  /\ host # None => phase = "serving"
  /\ host \in Host \cup {None}
  /\ \/ host = None /\ answer = None /\ served = None /\ moved = 0
     \/ host \in Host /\ served = None /\ Asked
     \/ host \in Host /\ served \in Table!Lookup(host) /\ Asked

LEMMA InitClient == Init => ClientInv
  BY DEF Init, Sockets!Init, ClientInv

\* What the lookups can say, and that a redirect leads to a site.
LEMMA RedirectLeadsToSite ==
  ASSUME NEW h \in Host
  PROVE  /\ Table!Known(h) => Table!Lookup(h) = {"site"}
         /\ Table!Lookup(h) \subseteq {"site", "301", "404", "500"}
         /\ "301" \in Table!Lookup(h) => Parent[h] \in Host /\ Table!Known(Parent[h])
         /\ "404" \in Table!Lookup(h) => Table!Lookup(h) = {"404"}
         /\ \A reply \in Table!Redirect(h) :
              /\ reply[1] \in {"301", "404", "500"} /\ reply[2] \in Host
              /\ reply[1] = "301" => Table!Known(reply[2])
              /\ reply[1] = "404" => Table!Lookup(reply[2]) = {"404"}
              /\ reply[1] = "500" => "404" \notin Table!Lookup(reply[2])
  BY BootAssumption DEF Table!Redirect, Table!Lookup, Table!Known

LEMMA StepClient == ClientInv /\ [Next]_vars => ClientInv'
<1> SUFFICES ASSUME ClientInv, [Next]_vars PROVE ClientInv'
  OBVIOUS
<1> USE BootAssumption DEF ClientInv, Asked
<1>1. CASE Configure
  BY <1>1 DEF Configure, listenVars, clientVars
<1>2. CASE Start
  BY <1>2 DEF Start, routeVars, listenVars, clientVars, Table!Lookup, Table!Known
<1>3. CASE Listen
  <2>1. phase # "serving"
    BY <1>3
    DEF Listen, Sockets!Listen, Sockets!Scan, Sockets!ScanDone, Sockets!Fails, Sockets!Adopt,
        Sockets!Bind, Sockets!BindFails, Sockets!Server
  <2> QED
    BY <1>3, <2>1 DEF Listen, clientVars
<1>4. ASSUME NEW h \in Host, AskH1(h) PROVE ClientInv'
  <2>1. /\ UNCHANGED <<served, host_conf, phase, i, started>>
        /\ phase = "serving" /\ served = None
    BY <1>4 DEF AskH1, routeVars, listenVars
  <2>2. PICK reply \in Table!Redirect(h) :
          /\ answer' = reply[1] /\ host' = reply[2]
          /\ moved' = IF reply[1] = "301" THEN 1 ELSE 0
    BY <1>4 DEF AskH1
  <2>3. /\ reply[1] \in {"301", "404", "500"} /\ reply[2] \in Host
        /\ reply[1] = "301" => Table!Known(reply[2])
        /\ reply[1] = "404" => Table!Lookup(reply[2]) = {"404"}
        /\ reply[1] = "500" => "404" \notin Table!Lookup(reply[2])
    BY <2>2, RedirectLeadsToSite
  <2>4. \A g : Table!Lookup(g)' = Table!Lookup(g) /\ (Table!Known(g)' <=> Table!Known(g))
    BY <2>1 DEF Table!Lookup, Table!Known
  <2>5. Asked'
    BY <2>2, <2>3, <2>1 DEF Table!Known, Table!Lookup
  <2> QED
    BY <2>1, <2>2, <2>3, <2>5
<1>5. ASSUME NEW h \in Host, AskProxy(h) PROVE ClientInv'
  <2>1. /\ UNCHANGED <<host_conf, phase, i, started, answer, moved>> /\ phase = "serving"
        /\ host' = h /\ host \in {None, h} /\ served = None /\ served' \in Table!Lookup(h)
    BY <1>5 DEF AskProxy, routeVars, listenVars
  <2>2. (Table!Lookup(host))' = Table!Lookup(h)
    BY <2>1 DEF Table!Lookup, Table!Known
  <2>3. Asked'
    BY <2>1, <2>2 DEF Table!Known
  <2> QED
    BY <2>1, <2>2, <2>3
<1>6. CASE Follow
  <2>1. /\ UNCHANGED <<host_conf, phase, i, started, answer>>
        /\ host' = Parent[host] /\ moved' = moved + 1 /\ served = "301"
        /\ served' \in Table!Lookup(Parent[host])
    BY <1>6 DEF Follow, routeVars, listenVars
  <2>2. host \in Host /\ "301" \in Table!Lookup(host) /\ Asked
    BY <2>1
  <2>3. Parent[host] \in Host /\ Table!Known(Parent[host])
    BY <2>2, RedirectLeadsToSite
  <2>4. moved = 0 /\ answer # "404"
    BY <2>2, RedirectLeadsToSite DEF Table!Lookup
  <2>5. (Table!Lookup(host))' = Table!Lookup(Parent[host]) /\ Table!Known(host)'
    BY <2>1, <2>3 DEF Table!Lookup, Table!Known
  <2>6. Table!Lookup(Parent[host]) = {"site"}
    BY <2>3, RedirectLeadsToSite
  <2>7. Asked'
    BY <2>1, <2>2, <2>4, <2>5, <2>6
  <2> QED
    BY <2>1, <2>2, <2>3, <2>5, <2>7
<1>7. CASE UNCHANGED vars
  BY <1>7 DEF vars, routeVars, listenVars, clientVars, Table!Lookup, Table!Known
<1> QED
  BY <1>1, <1>2, <1>3, <1>4, <1>5, <1>6, <1>7 DEF Next, Quit

-----------------------------------------------------------------------------
(***************************************************************************)
(* The theorems.                                                           *)
(***************************************************************************)
\* Table, sockets and client keep their types, whatever the configuration and
\* whatever systemd hands over.
THEOREM TypeSafe == Spec => []TypeOK
<1>1. TableInv /\ SocketInv /\ ClientInv => TypeOK
  BY RedirectLeadsToSite DEF TableInv, SocketInv, ClientInv, Asked, TypeOK
<1> QED
  BY <1>1, InitTable, StepTable, InitSockets, StepSockets, InitClient, StepClient, PTL DEF Spec

\* Each host in the host_set of an upstream has a site, and each host that has the
\* upstream of a name is in its host_set: add_upstream and set keep both sides.
THEOREM TableIndexed == Spec => []Indexed
<1>1. TableInv => Indexed
  BY DEF TableInv
<1> QED
  BY <1>1, InitTable, StepTable, PTL DEF Spec

\* A server that adopts a socket of systemd has it for itself, of its kind and
\* address, and open.
THEOREM SocketOfItsOwn == Spec => []OwnSocket
<1>1. SocketInv => OwnSocket
  <2> SUFFICES ASSUME SocketInv, NEW s \in Sockets!Server, adopted[s] # 0
               PROVE  /\ adopted[s] \in open /\ Sockets!Matches(adopted[s], s) /\ s \notin bound
                      /\ \A t \in Sockets!Server \ {s} : adopted[t] # adopted[s]
    BY DEF OwnSocket, Sockets!OwnSocket
  <2> QED
    BY DEF SocketInv, AdoptedLast, Sockets!Matches
<1> QED
  BY <1>1, InitSockets, StepSockets, PTL DEF Spec

\* No server binds, or fails to, while a socket that was handed over for it is free.
THEOREM InheritedFirst == Spec => []AdoptsInherited
<1>1. SocketInv => AdoptsInherited
  BY NothingLeft DEF SocketInv, BoundLast, AdoptsInherited, Sockets!AdoptsInherited
<1> QED
  BY <1>1, InitSockets, StepSockets, PTL DEF Spec

\* No other inherited socket with the kind and address of an adopted one stays open.
THEOREM NoTwin == Spec => []NoTwinLeft
<1>1. SocketInv => NoTwinLeft
  <2> SUFFICES ASSUME SocketInv, phase = "serving", NEW s \in Sockets!Server, NEW j \in open,
                      adopted[s] # 0, Sockets!Matches(j, s)
               PROVE  j = adopted[s]
    BY DEF NoTwinLeft, Sockets!NoTwinLeft
  <2>1. j \in 1 .. Len(fds) /\ j < i /\ fds[j].kind # "other"
    BY DEF SocketInv, Sockets!ListenTypeOK, InOrder, Sockets!Matches, Sockets!Server, Sockets!KindOf
  <2>2. PICK t \in Sockets!Server : adopted[t] = j
    BY <2>1 DEF SocketInv, OpenKept, AdoptedLast, Sockets!KeptFor, Sockets!Matches
  <2> QED
    BY <2>1, <2>2 DEF SocketInv, AdoptedLast, Sockets!Matches
<1> QED
  BY <1>1, InitSockets, StepSockets, PTL DEF Spec

\* A client that a server sends on gets to a site with that one redirect, one that
\* h1 turns away would find none.
THEOREM RedirectsServed == Spec => []RedirectServed
<1>1. ClientInv => RedirectServed
  BY BootAssumption, RedirectLeadsToSite DEF ClientInv, Asked, RedirectServed
<1> QED
  BY <1>1, InitClient, StepClient, PTL DEF Spec
=============================================================================
