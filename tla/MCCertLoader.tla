----------------------------- MODULE MCCertLoader -----------------------------
(***************************************************************************)
(* An instance of CertLoader for TLC: a domain and its www host; a         *)
(* certificate for both and the one that renews it, one for www alone, and *)
(* one for the domain without a DNS name in its SAN, which is not cached.  *)
(* The days are real ones (20000 days after the epoch), since what a sweep *)
(* does depends on the size of the numbers.                                *)
(***************************************************************************)
EXTENDS CertLoader, TLC

MCHost == {"apex", "www"}
MCSubHost == [apex |-> None, www |-> "apex"]
MCCert == {"old", "renewed", "other", "bare"}
MCNames == [old |-> MCHost, renewed |-> MCHost, other |-> {"www"}, bare |-> {"apex"}]
MCShortest == [old |-> "apex", renewed |-> "apex", other |-> "www", bare |-> None]
MCNotAfter == [old |-> 20000, renewed |-> 20090, other |-> 20000,
               bare |-> 20090]

Symmetry == Permutations(Getter)
=============================================================================
