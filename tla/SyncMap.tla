------------------------------ MODULE SyncMap ------------------------------
(***************************************************************************)
(* The search of pipe/sync_map.c over an atomic bitmap.  The map is the    *)
(* set of its signaled bit indices.  A search visits the map quad by quad; *)
(* each visit is one atomic load, so this module gives the outcome of ONE  *)
(* load, and the read-modify-write that follows is a step of the caller.   *)
(***************************************************************************)
EXTENDS Integers

CONSTANTS
    QuadBits,   \* bits in one atomic word (64 in the code)
    Quads       \* sync_map_desc.size, the number of words of the map

ASSUME SyncMapAssumption == QuadBits \in Nat \ {0} /\ Quads \in Nat \ {0}

\* The indices the words of the map can hold.
MapBits == 0 .. QuadBits * Quads - 1

\* sync_map_ind2quad
QuadOf(i) == i \div QuadBits

\* Bits of quad q, and those of them a search that started at `from` looks at.
\* (On the first quad this is from_mask; later quads are looked at whole.)
QuadSpan(q) == q * QuadBits .. (q + 1) * QuadBits - 1
MaskFrom(q, from) == {i \in QuadSpan(q) : i >= from}

\* __builtin_ctzll
Least(S) == CHOOSE i \in S : \A j \in S : i <= j

\* Wrong forms: the first quad is not masked; a quad without signaled bits is
\* skipped as sync_map_unsig_first skips one without clear bits.
SigCandidatesUnmasked(bits, q, from) == QuadSpan(q) \ bits
SigCandidatesSkipping(bits, q, from) ==
    IF MaskFrom(q, from) \cap bits = {} THEN {} ELSE MaskFrom(q, from) \ bits

\* The bits of quad q that sync_map_sig_first may take: the clear ones.
SigCandidates(bits, q, from) == MaskFrom(q, from) \ bits

\* The bits of quad q that sync_map_unsig_first may take: the signaled ones,
\* except that a first quad whose masked part is signaled throughout is skipped.
UnsigCandidates(bits, q, from) ==
    IF q = QuadOf(from) /\ MaskFrom(q, from) \subseteq bits
    THEN {}
    ELSE MaskFrom(q, from) \cap bits

\* The three outcomes of the load of one quad with candidates C.
Passes(C) == C = {}                             \* nothing here, next quad
HitsUnbounded(C, to) == C # {}                  \* wrong: `to` is ignored
Hits(C, to) == C # {} /\ Least(C) < to          \* bit Least(C) is taken
OutOfRange(C, to) == C # {} /\ Least(C) >= to   \* return false

\* A whole search on a map nobody else touches: the quads are visited in
\* ascending order up to the first with a candidate. The result is the set of
\* the index found (empty when the search returns false).
Search(Candidates(_), from, to) ==
    LET live == {q \in QuadOf(from) .. Quads - 1 : Candidates(q) # {}}
    IN  IF live = {} THEN {}
        ELSE LET C == Candidates(Least(live))
             IN  IF Hits(C, to) THEN {Least(C)} ELSE {}

SigFirst(bits, from, to) ==
    Search(LAMBDA q : SigCandidates(bits, q, from), from, to)

UnsigFirst(bits, from, to) ==
    Search(LAMBDA q : UnsigCandidates(bits, q, from), from, to)
=============================================================================
