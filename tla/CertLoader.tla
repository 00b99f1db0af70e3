------------------------------ MODULE CertLoader ------------------------------
(***************************************************************************)
(* The certificate cache of the gateway: TLS handshakes of h2 and h3 call  *)
(* get(), a background task sweeps the cache once a day, and an operator   *)
(* renews the files on disk.  host_cert (a DashMap) and expire (a BTreeMap *)
(* under a lock of its own) are updated one after the other.               *)
(***************************************************************************)
EXTENDS Integers, FiniteSets

CONSTANTS Getter,   \* handshakes that call get(), each any number of times
          Host,     \* host names
          SubHost,  \* SubHost[h]: sub_host(h), or None
          Cert,     \* certificates
          Names,    \* Names[c]: the hosts c is made out to
          Shortest, \* Shortest[c]: the shortest DNS name of its SAN, None if none
          NotAfter, \* NotAfter[c]: the day c expires, in days since the epoch
          FirstDay, \* the day the gateway starts
          LastDay,  \* bound on the days
          None      \* no host, no certificate

ASSUME CertAssumption ==
  /\ None \notin Host /\ None \notin Cert
  /\ SubHost \in [Host -> Host \cup {None}]
  /\ \A h \in Host : SubHost[h] # h
  /\ Names \in [Cert -> SUBSET Host]
  /\ Shortest \in [Cert -> Host \cup {None}]
  /\ \A c \in Cert : Shortest[c] # None => Shortest[c] \in Names[c]
  /\ NotAfter \in [Cert -> Nat]
  /\ FirstDay \in Nat /\ LastDay \in Nat

VARIABLES
  now,    \* the day
  swept,  \* the sweeper has run today
  disk,   \* disk[h]: the certificate in the directory of h
  cache,  \* host_cert
  expire, \* expire, as a set of <<key, host>>
  sweep,  \* the sweeper: "idle", or "purge": between its read and its write
  toRm,   \* its to_rm_expire
  late,   \* hosts whose last push fell into "purge" (history)
  pc,     \* pc[g]: where get() is
  want,   \* want[g]: the host it was asked for
  key,    \* key[g]: the host it looks up
  cert    \* cert[g]: what it loaded, and its result (None: an error)

getVars == <<pc, want, key, cert>>
sweepVars == <<sweep, toRm, late>>
vars == <<now, swept, disk, cache, expire, sweep, toRm, late, pc, want, key, cert>>

GetState == {"idle", "lookup", "load", "insert", "push", "done"}

Init ==
  /\ now = FirstDay /\ swept = FALSE
  /\ disk \in {d \in [Host -> Cert \cup {None}] :
                 \A h \in Host : d[h] # None => h \in Names[d[h]]}
  /\ cache = [h \in Host |-> None] /\ expire = {}
  /\ sweep = "idle" /\ toRm = {} /\ late = {}
  /\ pc = [g \in Getter |-> "idle"]
  /\ want = [g \in Getter |-> None] /\ key = [g \in Getter |-> None]
  /\ cert = [g \in Getter |-> None]

Day == 86400 \* seconds
RmDays == 2  \* the argument of rm_expired()
-----------------------------------------------------------------------------
(***************************************************************************)
(* The world outside: files and the calendar.                              *)
(***************************************************************************)
\* The directory of h gets another certificate for h, or is removed.
Renew(h, c) ==
  /\ c # None => h \in Names[c]
  /\ disk' = [disk EXCEPT ![h] = c]
  /\ UNCHANGED <<now, swept, cache, expire, sweepVars, getVars>>

\* The interval of the sweeper is one day.
NextDay ==
  /\ now < LastDay /\ swept /\ sweep = "idle"
  /\ now' = now + 1 /\ swept' = FALSE
  /\ UNCHANGED <<disk, cache, expire, sweepVars, getVars>>
-----------------------------------------------------------------------------
(***************************************************************************)
(* get(): cert_by_host() of the host, then of its sub_host().              *)
(***************************************************************************)
Ask(g, h) ==
  /\ pc[g] = "idle"
  /\ pc' = [pc EXCEPT ![g] = "lookup"]
  /\ want' = [want EXCEPT ![g] = h] /\ key' = [key EXCEPT ![g] = h]
  /\ cert' = [cert EXCEPT ![g] = None]
  /\ UNCHANGED <<now, swept, disk, cache, expire, sweepVars>>

Hit(g) ==
  /\ pc[g] = "lookup" /\ cache[key[g]] # None
  /\ cert' = [cert EXCEPT ![g] = cache[key[g]]]
  /\ pc' = [pc EXCEPT ![g] = "done"]
  /\ UNCHANGED <<now, swept, disk, cache, expire, sweepVars, want, key>>

Miss(g) ==
  /\ pc[g] = "lookup" /\ cache[key[g]] = None
  /\ pc' = [pc EXCEPT ![g] = "load"]
  /\ UNCHANGED <<now, swept, disk, cache, expire, sweepVars, want, key, cert>>

\* The loader read the files of key[g].
Load(g) ==
  /\ pc[g] = "load" /\ disk[key[g]] # None
  /\ cert' = [cert EXCEPT ![g] = disk[key[g]]]
  /\ pc' = [pc EXCEPT ![g] = "insert"]
  /\ UNCHANGED <<now, swept, disk, cache, expire, sweepVars, want, key>>

\* Mutation: every miss goes on to a sub_host(), the one of the sub_host() too.
LoadNoneAgain(g) ==
  /\ pc[g] = "load"
  /\ IF SubHost[want[g]] # None
     THEN /\ key' = [key EXCEPT ![g] = SubHost[want[g]]]
          /\ pc' = [pc EXCEPT ![g] = "lookup"]
     ELSE /\ pc' = [pc EXCEPT ![g] = "done"]
          /\ UNCHANGED key
  /\ UNCHANGED <<now, swept, disk, cache, expire, sweepVars, want, cert>>

\* No files, or no way to know (try_exists failed): on to the sub_host(), once; or
\* CertNotFound.
LoadNone(g) ==
  /\ pc[g] = "load"
  /\ IF key[g] = want[g] /\ SubHost[want[g]] # None
     THEN /\ key' = [key EXCEPT ![g] = SubHost[want[g]]]
          /\ pc' = [pc EXCEPT ![g] = "lookup"]
     ELSE /\ pc' = [pc EXCEPT ![g] = "done"]
          /\ UNCHANGED key
  /\ UNCHANGED <<now, swept, disk, cache, expire, sweepVars, want, cert>>

\* The files cannot be read or parsed, or do not fit together: Err, and the
\* sub_host() is not asked.
LoadFails(g) ==
  /\ pc[g] = "load"
  /\ pc' = [pc EXCEPT ![g] = "done"]
  /\ UNCHANGED <<now, swept, disk, cache, expire, sweepVars, want, key, cert>>

\* Mutation: the certificate is filed under the parent of its shortest name.
InsertUnderParent(g) ==
  /\ pc[g] = "insert"
  /\ LET h == Shortest[cert[g]] IN
     IF h # None /\ SubHost[h] # None
     THEN /\ cache' = [cache EXCEPT ![SubHost[h]] = cert[g]]
          /\ pc' = [pc EXCEPT ![g] = "push"]
     ELSE /\ pc' = [pc EXCEPT ![g] = "done"]
          /\ UNCHANGED cache
  /\ late' = late \ {Shortest[cert[g]]}
  /\ UNCHANGED <<now, swept, disk, expire, sweep, toRm, want, key, cert>>

\* host_cert.insert() under the shortest name of the certificate.
Insert(g) ==
  /\ pc[g] = "insert"
  /\ LET h == Shortest[cert[g]] IN
     IF h # None
     THEN /\ cache' = [cache EXCEPT ![h] = cert[g]]
          /\ pc' = [pc EXCEPT ![g] = "push"]
     ELSE /\ pc' = [pc EXCEPT ![g] = "done"]
          /\ UNCHANGED cache
  /\ late' = late \ {Shortest[cert[g]]}
  /\ UNCHANGED <<now, swept, disk, expire, sweep, toRm, want, key, cert>>

\* Mutation: the host that was looked up is pushed, not the one that was cached.
PushUnderKey(g) ==
  /\ pc[g] = "push"
  /\ expire' = expire \cup {<<NotAfter[cert[g]], key[g]>>}
  /\ late' = IF sweep = "purge" THEN late \cup {key[g]} ELSE late
  /\ pc' = [pc EXCEPT ![g] = "done"]
  /\ UNCHANGED <<now, swept, disk, cache, sweep, toRm, want, key, cert>>

\* Mutation: insert() of the host for entry().or_default().push(): it takes the
\* place of the hosts whose certificates expire on the same day.
PushReplaces(g) ==
  /\ pc[g] = "push"
  /\ expire' = {p \in expire : p[1] # NotAfter[cert[g]]}
                 \cup {<<NotAfter[cert[g]], Shortest[cert[g]]>>}
  /\ late' = IF sweep = "purge" THEN late \cup {Shortest[cert[g]]} ELSE late
  /\ pc' = [pc EXCEPT ![g] = "done"]
  /\ UNCHANGED <<now, swept, disk, cache, sweep, toRm, want, key, cert>>

\* expire.write(): not_after in days is the key.
Push(g) ==
  /\ pc[g] = "push"
  /\ expire' = expire \cup {<<NotAfter[cert[g]], Shortest[cert[g]]>>}
  /\ late' = IF sweep = "purge" THEN late \cup {Shortest[cert[g]]} ELSE late
  /\ pc' = [pc EXCEPT ![g] = "done"]
  /\ UNCHANGED <<now, swept, disk, cache, sweep, toRm, want, key, cert>>

\* get() returned, or the handshake was dropped while its files were read.
Return(g) ==
  /\ pc[g] \in {"load", "done"}
  /\ pc' = [pc EXCEPT ![g] = "idle"]
  /\ want' = [want EXCEPT ![g] = None] /\ key' = [key EXCEPT ![g] = None]
  /\ cert' = [cert EXCEPT ![g] = None]
  /\ UNCHANGED <<now, swept, disk, cache, expire, sweepVars>>
-----------------------------------------------------------------------------
(***************************************************************************)
(* rm_expired(2), once a day.                                              *)
(***************************************************************************)
\* A key of expire, which counts days, against the clock, which counts seconds.
Due(d) == d < now * Day + RmDays * Day

\* Under expire.read(): the hosts under the keys that are due leave the cache.
\* (Pushes wait for the lock; an insert of a host falls before or after its
\* removal, and both are orders of this step and the insert.)
SweepRead ==
  /\ sweep = "idle" /\ ~swept
  /\ toRm' = {p[1] : p \in {q \in expire : Due(q[1])}}
  /\ cache' = [h \in Host |->
                 IF \E p \in expire : p[2] = h /\ Due(p[1]) THEN None ELSE cache[h]]
  /\ sweep' = "purge" /\ swept' = TRUE
  /\ UNCHANGED <<now, disk, expire, late, getVars>>

\* Under expire.write(): the keys go, with what they hold by now.
SweepWrite ==
  /\ sweep = "purge"
  /\ expire' = {p \in expire : p[1] \notin toRm}
  /\ sweep' = "idle" /\ toRm' = {}
  /\ UNCHANGED <<now, swept, disk, cache, late, getVars>>
-----------------------------------------------------------------------------
CertByHost(g) == Hit(g) \/ Miss(g) \/ Load(g) \/ LoadNone(g) \/ LoadFails(g)
                 \/ Insert(g) \/ Push(g)

Next ==
  \/ \E h \in Host, c \in Cert \cup {None} : Renew(h, c)
  \/ NextDay
  \/ \E g \in Getter : (\E h \in Host : Ask(g, h)) \/ CertByHost(g) \/ Return(g)
  \/ SweepRead \/ SweepWrite

Spec == Init /\ [][Next]_vars
-----------------------------------------------------------------------------
(***************************************************************************)
(* Properties.                                                             *)
(***************************************************************************)
Tracks == {NotAfter[c] : c \in Cert} \X Host

\* Cache, calls and sweeper have their types; a call that loaded has what it
\* loaded.
TypeOK ==
  /\ now \in Nat /\ swept \in BOOLEAN
  /\ disk \in [Host -> Cert \cup {None}]
  /\ cache \in [Host -> Cert \cup {None}]
  /\ expire \subseteq Tracks
  /\ sweep \in {"idle", "purge"} /\ toRm \subseteq Nat /\ late \subseteq Host
  /\ pc \in [Getter -> GetState]
  /\ want \in [Getter -> Host \cup {None}] /\ key \in [Getter -> Host \cup {None}]
  /\ cert \in [Getter -> Cert \cup {None}]
  /\ \A g \in Getter : pc[g] \in {"insert", "push"} => cert[g] # None
  /\ \A g \in Getter : pc[g] = "push" => Shortest[cert[g]] # None

\* Whatever is loaded, renewed and purged meanwhile, the certificate that get()
\* returns names the host it was asked for, or the sub_host() of it.
AnswerCovers ==
  \A g \in Getter : (pc[g] = "done" /\ cert[g] # None) =>
    want[g] \in Names[cert[g]] \/ SubHost[want[g]] \in Names[cert[g]]

\* A certificate is cached under a name of its own, the shortest.
CachedByShortest ==
  \A h \in Host : cache[h] # None => Shortest[cache[h]] = h

\* What is cached is under its key in expire, or a call is about to push it: no
\* certificate escapes the sweeps, except through the window between the two
\* locks of one.
Tracked(h) == <<NotAfter[cache[h]], h>> \in expire
Pending(h) == \E g \in Getter : pc[g] = "push" /\ cert[g] = cache[h]
EscapesOnlyInWindow ==
  \A h \in Host : cache[h] # None => Tracked(h) \/ Pending(h) \/ h \in late

\* A sweep leaves no expired certificate in the cache: not one that shares its day
\* with others, not one that was renewed under the same name, not one of a call that
\* is long over; but for a push that is still to come, or fell into the window.
SweepTakesExpired ==
  [][SweepRead =>
       \A h \in Host : cache'[h] # None /\ NotAfter[cache'[h]] < now =>
         Pending(h)' \/ h \in late']_vars

\* The steps that are left to a call of get().
Stage == [idle |-> 0, done |-> 1, push |-> 2, insert |-> 3, load |-> 4, lookup |-> 5]
Rank(g) ==
  Stage[pc[g]] + (IF pc[g] \in {"lookup", "load"} /\ key[g] = want[g] THEN 5 ELSE 0)

\* Each step of a call leads on, to its first lookup, its second, or its end, and
\* no step of another call, of the sweeper or of the disk leads it back.
GetsRunOut ==
  [][\A g \in Getter : pc[g] # "idle" =>
       Rank(g)' < Rank(g) \/ UNCHANGED <<pc[g], want[g], key[g], cert[g]>>]_vars

(***************************************************************************)
(* What the repository says and the code does not do.                      *)
(***************************************************************************)
\* rm_expired(2) of cert_loader/mod.rs:52,59: what a sweep removes has expired, or
\* expires within two days.
PurgesOnlyExpiring ==
  [][SweepRead => \A h \in Host :
       (cache[h] # None /\ cache'[h] = None) => NotAfter[cache[h]] < now + RmDays]_vars
=============================================================================
