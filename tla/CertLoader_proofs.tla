-------------------------- MODULE CertLoader_proofs --------------------------
(***************************************************************************)
(* Any hosts, certificates, handshakes and days: what get() answers, and   *)
(* what a sweep does to the cache.                                         *)
(***************************************************************************)
EXTENDS CertLoader, TLAPS

\* The files of a host are made out to it; a call looks up the host it was asked
\* for or the sub_host of that, and what it holds names the host it looked up.
LookedUp ==
  /\ \A h \in Host : disk[h] # None => h \in Names[disk[h]]
  /\ \A g \in Getter : pc[g] # "idle" =>
       want[g] \in Host /\ key[g] \in Host /\ key[g] \in {want[g], SubHost[want[g]]}
  /\ \A g \in Getter : (pc[g] # "idle" /\ cert[g] # None) => key[g] \in Names[cert[g]]
  /\ \A g \in Getter : pc[g] \in {"lookup", "load"} => cert[g] = None

\* A certificate whose key is about to be removed has a push to come, or had it
\* in the window.
Known ==
  \A h \in Host : cache[h] # None =>
    \/ Tracked(h) /\ (sweep = "purge" => NotAfter[cache[h]] \notin toRm)
    \/ Pending(h)
    \/ h \in late

IInv == TypeOK /\ CachedByShortest /\ LookedUp /\ Known

LEMMA InitIInv == Init => IInv
<1> SUFFICES ASSUME Init PROVE IInv
  OBVIOUS
<1>1. disk \in [Host -> Cert \cup {None}] /\ \A h \in Host : disk[h] # None => h \in Names[disk[h]]
  BY DEF Init
<1>2. TypeOK
  BY <1>1, CertAssumption DEF Init, TypeOK, GetState
<1>3. CachedByShortest /\ LookedUp /\ Known
  BY <1>1, CertAssumption DEF Init, CachedByShortest, LookedUp, Known
<1> QED
  BY <1>2, <1>3 DEF IInv

LEMMA StepTypeOK == IInv /\ [Next]_vars => TypeOK'
<1> SUFFICES ASSUME IInv, [Next]_vars PROVE TypeOK'
  OBVIOUS
<1> USE CertAssumption DEF IInv, TypeOK, GetState
<1>1. ASSUME NEW h \in Host, NEW c \in Cert \cup {None}, Renew(h, c) PROVE TypeOK'
  BY <1>1 DEF Renew, sweepVars, getVars, LookedUp, Tracks
<1>2. CASE NextDay
  <2>1. now' \in Nat
    BY <1>2 DEF NextDay
  <2> QED
    BY <1>2, <2>1 DEF NextDay, sweepVars, getVars, Tracks
<1>3. ASSUME NEW g \in Getter, NEW h \in Host, Ask(g, h) PROVE TypeOK'
  BY <1>3 DEF Ask, sweepVars, LookedUp, Tracks
<1>4. ASSUME NEW g \in Getter, Hit(g) PROVE TypeOK'
  BY <1>4 DEF Hit, sweepVars, LookedUp, Tracks
<1>5. ASSUME NEW g \in Getter, Miss(g) PROVE TypeOK'
  BY <1>5 DEF Miss, sweepVars, LookedUp, Tracks
<1>6. ASSUME NEW g \in Getter, Load(g) PROVE TypeOK'
  BY <1>6 DEF Load, sweepVars, LookedUp, Tracks
<1>7. ASSUME NEW g \in Getter, LoadNone(g) PROVE TypeOK'
  BY <1>7 DEF LoadNone, sweepVars, LookedUp, Tracks
<1>8. ASSUME NEW g \in Getter, LoadFails(g) PROVE TypeOK'
  BY <1>8 DEF LoadFails, sweepVars, LookedUp, Tracks
<1>9. ASSUME NEW g \in Getter, Insert(g) PROVE TypeOK'
  BY <1>9 DEF Insert, sweepVars, LookedUp, Tracks
<1>10. ASSUME NEW g \in Getter, Push(g) PROVE TypeOK'
  BY <1>10 DEF Push, sweepVars, LookedUp, Tracks
<1>11. ASSUME NEW g \in Getter, Return(g) PROVE TypeOK'
  BY <1>11 DEF Return, sweepVars, LookedUp, Tracks
<1>12. CASE SweepRead
  BY <1>12 DEF SweepRead, getVars, LookedUp, Tracks
<1>13. CASE SweepWrite
  BY <1>13 DEF SweepWrite, getVars, LookedUp, Tracks
<1>14. CASE UNCHANGED vars
  BY <1>14 DEF vars
<1> QED
  BY <1>1, <1>2, <1>3, <1>4, <1>5, <1>6, <1>7, <1>8, <1>9, <1>10, <1>11, <1>12, <1>13, <1>14
  DEF Next, CertByHost

\* Only an insert fills the cache, and it does so under the shortest name.
LEMMA StepCached == IInv /\ [Next]_vars => CachedByShortest'
<1> SUFFICES ASSUME IInv, [Next]_vars PROVE CachedByShortest'
  OBVIOUS
<1>1. CASE cache' = cache
  BY <1>1 DEF IInv, CachedByShortest
<1>2. ASSUME NEW g \in Getter, Insert(g) PROVE CachedByShortest'
  BY <1>2 DEF Insert, IInv, TypeOK, CachedByShortest
<1>3. CASE SweepRead
  BY <1>3 DEF SweepRead, IInv, TypeOK, CachedByShortest
<1> QED
  BY <1>1, <1>2, <1>3
  DEF Next, Renew, NextDay, Ask, CertByHost, Hit, Miss, Load, LoadNone, LoadFails, Push, Return,
      SweepWrite, vars

\* A file, a cache entry and a call always fit the host they are for.
LEMMA StepLookedUp == IInv /\ [Next]_vars => LookedUp'
<1> SUFFICES ASSUME IInv, [Next]_vars PROVE LookedUp'
  OBVIOUS
<1> USE CertAssumption DEF IInv, LookedUp
<1>1. ASSUME NEW h \in Host, NEW c \in Cert \cup {None}, Renew(h, c) PROVE LookedUp'
  BY <1>1 DEF Renew, sweepVars, getVars, TypeOK, CachedByShortest
<1>2. CASE NextDay
  BY <1>2 DEF NextDay, sweepVars, getVars, TypeOK, CachedByShortest
<1>3. ASSUME NEW g \in Getter, NEW h \in Host, Ask(g, h) PROVE LookedUp'
  BY <1>3 DEF Ask, sweepVars, TypeOK, CachedByShortest
<1>4. ASSUME NEW g \in Getter, Hit(g) PROVE LookedUp'
  BY <1>4 DEF Hit, sweepVars, TypeOK, CachedByShortest
<1>5. ASSUME NEW g \in Getter, Miss(g) PROVE LookedUp'
  BY <1>5 DEF Miss, sweepVars, TypeOK, CachedByShortest
<1>6. ASSUME NEW g \in Getter, Load(g) PROVE LookedUp'
  BY <1>6 DEF Load, sweepVars, TypeOK, CachedByShortest
<1>7. ASSUME NEW g \in Getter, LoadNone(g) PROVE LookedUp'
  BY <1>7 DEF LoadNone, sweepVars, TypeOK, CachedByShortest
<1>8. ASSUME NEW g \in Getter, LoadFails(g) PROVE LookedUp'
  BY <1>8 DEF LoadFails, sweepVars, TypeOK, CachedByShortest
<1>9. ASSUME NEW g \in Getter, Insert(g) PROVE LookedUp'
  BY <1>9 DEF Insert, sweepVars, TypeOK, CachedByShortest
<1>10. ASSUME NEW g \in Getter, Push(g) PROVE LookedUp'
  BY <1>10 DEF Push, sweepVars, TypeOK, CachedByShortest
<1>11. ASSUME NEW g \in Getter, Return(g) PROVE LookedUp'
  BY <1>11 DEF Return, sweepVars, TypeOK, CachedByShortest
<1>12. CASE SweepRead
  BY <1>12 DEF SweepRead, getVars, TypeOK, CachedByShortest
<1>13. CASE SweepWrite
  BY <1>13 DEF SweepWrite, getVars, TypeOK, CachedByShortest
<1>14. CASE UNCHANGED vars
  BY <1>14 DEF vars
<1> QED
  BY <1>1, <1>2, <1>3, <1>4, <1>5, <1>6, <1>7, <1>8, <1>9, <1>10, <1>11, <1>12, <1>13, <1>14
  DEF Next, CertByHost

\* An insert is followed by its push, a push outside the window leaves its key
\* where the next sweep finds it, and a sweep removes no key from under a host
\* that it left in the cache.
LEMMA StepKnown == IInv /\ [Next]_vars => Known'
<1> SUFFICES ASSUME IInv, [Next]_vars PROVE Known'
  OBVIOUS
<1> USE DEF IInv, TypeOK
<1>1. CASE UNCHANGED <<cache, expire, sweep, toRm, late>>
            /\ \A g \in Getter : pc[g] = "push" => pc'[g] = "push" /\ cert'[g] = cert[g]
  BY <1>1 DEF Known, Tracked, Pending
<1>2. ASSUME NEW g \in Getter, Insert(g) PROVE Known'
  <2> SUFFICES ASSUME NEW h \in Host, cache'[h] # None
               PROVE  \/ Tracked(h)' /\ (sweep' = "purge" => NotAfter[cache'[h]] \notin toRm')
                      \/ Pending(h)' \/ h \in late'
    BY DEF Known
  <2>1. CASE h = Shortest[cert[g]]
    <3>1. cache'[h] = cert[g] /\ pc'[g] = "push" /\ cert'[g] = cert[g]
      BY <1>2, <2>1, CertAssumption DEF Insert
    <3> QED
      BY <3>1 DEF Pending
  <2>2. CASE h # Shortest[cert[g]]
    <3>1. cache'[h] = cache[h] /\ (h \in late => h \in late')
      BY <1>2, <2>2 DEF Insert
    <3>2. Pending(h) => Pending(h)'
      BY <1>2, <3>1 DEF Insert, Pending
    <3>3. UNCHANGED <<expire, sweep, toRm>>
      BY <1>2 DEF Insert
    <3> QED
      BY <3>1, <3>2, <3>3 DEF Known, Tracked
  <2> QED
    BY <2>1, <2>2
<1>3. ASSUME NEW g \in Getter, Push(g) PROVE Known'
  <2> SUFFICES ASSUME NEW h \in Host, cache'[h] # None
               PROVE  \/ Tracked(h)' /\ (sweep' = "purge" => NotAfter[cache'[h]] \notin toRm')
                      \/ Pending(h)' \/ h \in late'
    BY DEF Known
  <2>1. UNCHANGED <<cache, sweep, toRm>> /\ expire \subseteq expire' /\ late \subseteq late'
    BY <1>3 DEF Push
  <2>2. CASE cert[g] = cache[h]
    <3>1. Shortest[cert[g]] = h
      BY <2>1, <2>2 DEF CachedByShortest
    <3>2. CASE sweep = "purge"
      BY <1>3, <3>1, <3>2 DEF Push
    <3>3. CASE sweep # "purge"
      BY <1>3, <2>1, <2>2, <3>1, <3>3 DEF Push, Tracked
    <3> QED
      BY <3>2, <3>3
  <2>3. CASE cert[g] # cache[h]
    <3>1. Pending(h) => Pending(h)'
      BY <1>3, <2>1, <2>3 DEF Push, Pending
    <3>2. Tracked(h) => Tracked(h)'
      BY <2>1 DEF Tracked
    <3> QED
      BY <2>1, <3>1, <3>2 DEF Known
  <2> QED
    BY <2>2, <2>3
<1>4. CASE SweepRead
  <2> SUFFICES ASSUME NEW h \in Host, cache'[h] # None
               PROVE  \/ Tracked(h)' /\ NotAfter[cache'[h]] \notin toRm'
                      \/ Pending(h)' \/ h \in late'
    BY DEF Known
  <2>1. cache'[h] = cache[h] /\ \A p \in expire : p[2] = h => ~Due(p[1])
    BY <1>4 DEF SweepRead
  <2>2. UNCHANGED <<expire, late>> /\ (Pending(h) => Pending(h)')
    BY <1>4, <2>1 DEF SweepRead, getVars, Pending
  <2>3. ASSUME Tracked(h) PROVE Tracked(h)' /\ NotAfter[cache'[h]] \notin toRm'
    <3>1. ~Due(NotAfter[cache[h]])
      BY <2>1, <2>3 DEF Tracked
    <3> QED
      BY <1>4, <2>1, <2>2, <2>3, <3>1 DEF SweepRead, Tracked
  <2> QED
    BY <2>1, <2>2, <2>3 DEF Known
<1>5. CASE SweepWrite
  <2>1. UNCHANGED <<cache, late>> /\ sweep = "purge" /\ sweep' = "idle"
    BY <1>5 DEF SweepWrite
  <2>2. \A h \in Host : Pending(h) => Pending(h)'
    BY <1>5 DEF SweepWrite, getVars, Pending
  <2>3. \A h \in Host : Tracked(h) /\ NotAfter[cache[h]] \notin toRm => Tracked(h)'
    BY <1>5 DEF SweepWrite, Tracked
  <2> QED
    BY <2>1, <2>2, <2>3 DEF Known
<1> QED
  BY <1>1, <1>2, <1>3, <1>4, <1>5
  DEF Next, Renew, NextDay, Ask, CertByHost, Hit, Miss, Load, LoadNone, LoadFails, Return,
      sweepVars, getVars, vars

LEMMA StepIInv == IInv /\ [Next]_vars => IInv'
  BY StepTypeOK, StepCached, StepLookedUp, StepKnown DEF IInv

LEMMA Invariance == Spec => []IInv
  BY InitIInv, StepIInv, PTL DEF Spec

\* Cache, calls and sweeper keep their types.
THEOREM TypeSafe == Spec => []TypeOK
<1>1. IInv => TypeOK
  BY DEF IInv
<1> QED
  BY <1>1, Invariance, PTL

\* A certificate is only ever cached under its shortest name.
THEOREM CachedUnderOwnName == Spec => []CachedByShortest
<1>1. IInv => CachedByShortest
  BY DEF IInv
<1> QED
  BY <1>1, Invariance, PTL

\* No interleaving of handshakes, renewals and sweeps makes get() answer with a
\* certificate for another host.
THEOREM AnswerFits == Spec => []AnswerCovers
<1>1. IInv => AnswerCovers
  BY DEF IInv, LookedUp, AnswerCovers
<1> QED
  BY <1>1, Invariance, PTL

\* Whatever the sweeps and the handshakes do between each other's locks, a cached
\* certificate has its key in expire, or one to come, or had it in the window.
THEOREM EscapesAreLate == Spec => []EscapesOnlyInWindow
<1>1. IInv => EscapesOnlyInWindow
  BY DEF IInv, Known, EscapesOnlyInWindow
<1> QED
  BY <1>1, Invariance, PTL

\* A sweep takes every expired certificate out of the cache, whatever was loaded,
\* renewed and swept before it, but for those that escape through the window.
THEOREM ExpiredAreTaken == Spec => SweepTakesExpired
<1>1. IInv /\ SweepRead =>
        \A h \in Host : cache'[h] # None /\ NotAfter[cache'[h]] < now =>
          Pending(h)' \/ h \in late'
  <2> SUFFICES ASSUME IInv, SweepRead, NEW h \in Host,
                      cache'[h] # None, NotAfter[cache'[h]] < now
               PROVE  Pending(h)' \/ h \in late'
    OBVIOUS
  <2>1. cache'[h] = cache[h] /\ \A p \in expire : p[2] = h => ~Due(p[1])
    BY DEF SweepRead
  <2>2. cache[h] \in Cert /\ NotAfter[cache[h]] \in Nat /\ now \in Nat
    BY <2>1, CertAssumption DEF IInv, TypeOK
  <2>3. Due(NotAfter[cache[h]])
    BY <2>1, <2>2 DEF Due, Day, RmDays
  <2>4. ~Tracked(h)
    BY <2>1, <2>3 DEF Tracked
  <2>5. UNCHANGED <<late, pc, cert>>
    BY DEF SweepRead, getVars
  <2> QED
    BY <2>1, <2>4, <2>5 DEF IInv, Known, Pending
<1> QED
  BY <1>1, Invariance, PTL DEF Spec, SweepTakesExpired
-----------------------------------------------------------------------------
(***************************************************************************)
(* get() ends.  That each call takes its next step is fairness; that there *)
(* are only finitely many of them, whatever the others do, is safety.      *)
(***************************************************************************)
\* A call of get() has fewer steps left after each step that it takes: it asks
\* for the sub_host() once at most.
THEOREM GetEnds == Spec => GetsRunOut
<1>1. IInv /\ [Next]_vars =>
        \A g \in Getter : pc[g] # "idle" =>
          Rank(g)' < Rank(g) \/ UNCHANGED <<pc[g], want[g], key[g], cert[g]>>
  <2> SUFFICES ASSUME IInv, [Next]_vars, NEW g \in Getter, pc[g] # "idle"
               PROVE  Rank(g)' < Rank(g) \/ UNCHANGED <<pc[g], want[g], key[g], cert[g]>>
    OBVIOUS
  <2> USE DEF IInv, TypeOK, GetState, Rank, Stage
  <2>1. CASE UNCHANGED getVars
    BY <2>1 DEF getVars
  <2>2. ASSUME NEW f \in Getter, NEW h \in Host, Ask(f, h)
        PROVE  UNCHANGED <<pc[g], want[g], key[g], cert[g]>>
    BY <2>2 DEF Ask
  <2>3. ASSUME NEW f \in Getter, f # g, CertByHost(f) \/ Return(f)
        PROVE  UNCHANGED <<pc[g], want[g], key[g], cert[g]>>
    BY <2>3 DEF CertByHost, Hit, Miss, Load, LoadNone, LoadFails, Insert, Push, Return
  <2>4. CASE Hit(g) \/ Miss(g) \/ Load(g) \/ LoadFails(g)
    BY <2>4 DEF Hit, Miss, Load, LoadFails
  <2>5. CASE LoadNone(g)
    BY <2>5, CertAssumption DEF LoadNone, LookedUp
  <2>6. CASE Insert(g) \/ Push(g) \/ Return(g)
    BY <2>6 DEF Insert, Push, Return
  <2> QED
    BY <2>1, <2>2, <2>3, <2>4, <2>5, <2>6
    DEF Next, CertByHost, Renew, NextDay, SweepRead, SweepWrite, vars, getVars
<1> QED
  BY <1>1, Invariance, PTL DEF Spec, GetsRunOut
=============================================================================
