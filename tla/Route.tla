-------------------------------- MODULE Route --------------------------------
(***************************************************************************)
(* The table of sites: add_upstream() and set() fill it before the servers *)
(* start, h1 redirects by it, and proxy() looks hosts up in it.            *)
(***************************************************************************)
EXTENDS FiniteSets

CONSTANTS Host,     \* host names
          Parent,   \* Parent[h]: sub_host(h), or None
          Name,     \* names of upstreams
          Upstream, \* upstreams (each Arc::new makes another; this bounds TLC)
          None

VARIABLES
  upstream_site, \* upstream_site[n]: the upstream and the host_set under name n
  host_conf,     \* host_conf[h]: the upstream of h, or None
  made           \* upstreams that were made

routeVars == <<upstream_site, host_conf, made>>

Init ==
  /\ upstream_site = [n \in Name |-> [upstream |-> None, host_set |-> {}]]
  /\ host_conf = [h \in Host |-> None]
  /\ made = {}
-----------------------------------------------------------------------------
\* Mutation: an upstream of that name is changed in place, its host_set is lost.
AddUpstreamKeeps(n, u) ==
  /\ u \in Upstream \ made
  /\ made' = made \cup {u}
  /\ upstream_site' = [upstream_site EXCEPT ![n].upstream = IF @ = None THEN u ELSE @,
                                            ![n].host_set = {}]
  /\ UNCHANGED host_conf

\* add_upstream: insert() replaces an upstream of that name, whose hosts go on
\* with the one they have.
AddUpstream(n, u) ==
  /\ u \in Upstream \ made
  /\ made' = made \cup {u}
  /\ upstream_site' = [upstream_site EXCEPT ![n] = [upstream |-> u, host_set |-> {}]]
  /\ UNCHANGED host_conf

\* set: a name that is unknown changes nothing.
Set(h, n) ==
  /\ upstream_site[n].upstream # None
  /\ upstream_site' = [upstream_site EXCEPT ![n].host_set = @ \cup {h}]
  /\ host_conf' = [host_conf EXCEPT ![h] = upstream_site[n].upstream]
  /\ UNCHANGED made

Configure ==
  \E n \in Name : (\E u \in Upstream : AddUpstream(n, u)) \/ (\E h \in Host : Set(h, n))

Spec == Init /\ [][Configure]_routeVars
-----------------------------------------------------------------------------
Known(h) == h # None /\ host_conf[h] # None

\* _proxy(): how it may answer h.  It serves a site, sends the client to the parent
\* of the host where that has one, or has nothing.  The path is put into a header,
\* which may refuse it: 500 instead of 301.
Lookup(h) ==
  IF Known(h) THEN {"site"} ELSE IF Known(Parent[h]) THEN {"301", "500"} ELSE {"404"}

\* Mutation: a redirect goes to the host that was asked for.
RedirectToSelf(h) ==
  IF Known(h) \/ Known(Parent[h]) THEN {"301", "500"} \X {h} ELSE {<<"404", h>>}

\* redirect() of h1: how it may answer h, and the host the client goes on with.
\* HeaderValue::from_str may refuse the path here as well.
Redirect(h) ==
  IF Known(h) \/ Known(Parent[h])
  THEN {<<"301", IF Known(h) THEN h ELSE Parent[h]>>, <<"500", h>>}
  ELSE {<<"404", h>>}
-----------------------------------------------------------------------------
RouteTypeOK ==
  /\ upstream_site \in [Name -> [upstream : Upstream \cup {None}, host_set : SUBSET Host]]
  /\ host_conf \in [Host -> Upstream \cup {None}]
  /\ made \subseteq Upstream

\* Hosts are found from both sides: a host in the host_set of an upstream has a
\* site, and the host_set lists every host that has the upstream now under this
\* name, however hosts were moved and upstreams replaced.
Indexed ==
  \A n \in Name, h \in Host :
    LET s == upstream_site[n]
    IN  /\ h \in s.host_set => Known(h)
        /\ s.upstream # None /\ host_conf[h] = s.upstream => h \in s.host_set
=============================================================================
