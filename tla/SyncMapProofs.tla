--------------------------- MODULE SyncMapProofs ---------------------------
(* Facts about the search of a sync_map, for every word and map size. *)
EXTENDS SyncMap, TLAPS, WellFoundedInduction

\* Least of a nonempty set of naturals is in it and bounds it (ctzll of a
\* nonzero word).
LEMMA LeastProperty ==
    ASSUME NEW S, S \subseteq Nat, S # {}
    PROVE  Least(S) \in S /\ \A j \in S : Least(S) <= j
<1>1. \E i \in S : \A j \in S : ~ (<<j, i>> \in OpToRel(<, Nat))
  BY NatLessThanWellFounded, WFMin, Zenon
<1>2. PICK i \in S : \A j \in S : ~ (<<j, i>> \in OpToRel(<, Nat))
  BY <1>1
<1>3. \A j \in S : i <= j
  <2> SUFFICES ASSUME NEW j \in S PROVE i <= j
    OBVIOUS
  <2>1. ~ (j < i)
    BY <1>2 DEF OpToRel
  <2> QED BY <2>1
<1> HIDE <1>1
<1> QED BY <1>3, Zenon DEF Least

\* A load of sync_map_sig_first that hits chooses a clear bit of the range.
LEMMA SigHit ==
    ASSUME NEW bits, NEW q \in Nat, NEW from \in Nat, NEW to \in Nat,
           Hits(SigCandidates(bits, q, from), to)
    PROVE  LET i == Least(SigCandidates(bits, q, from))
           IN  i \in QuadSpan(q) /\ from <= i /\ i < to /\ i \notin bits
<1> DEFINE C == SigCandidates(bits, q, from)
<1>1. C \subseteq Nat
  BY SyncMapAssumption DEF SigCandidates, MaskFrom, QuadSpan
<1>2. Least(C) \in C
  <2>1. C # {} BY DEF Hits
  <2> QED BY <1>1, <2>1, LeastProperty
<1> QED BY <1>2 DEF SigCandidates, MaskFrom, Hits

\* A load of sync_map_unsig_first that hits chooses a signaled bit of the range.
LEMMA UnsigHit ==
    ASSUME NEW bits, NEW q \in Nat, NEW from \in Nat, NEW to \in Nat,
           Hits(UnsigCandidates(bits, q, from), to)
    PROVE  LET i == Least(UnsigCandidates(bits, q, from))
           IN  i \in QuadSpan(q) /\ from <= i /\ i < to /\ i \in bits
<1> DEFINE C == UnsigCandidates(bits, q, from)
<1>1. C \subseteq Nat
  BY SyncMapAssumption DEF UnsigCandidates, MaskFrom, QuadSpan
<1>2. Least(C) \in C
  <2>1. C # {} BY DEF Hits
  <2> QED BY <1>1, <2>1, LeastProperty
<1> QED BY <1>2 DEF UnsigCandidates, MaskFrom, Hits
=============================================================================
