---------------------------- MODULE BitpoolProofs ----------------------------
(***************************************************************************)
(* Proofs about the queue, for every finite set of producers, every set of *)
(* payloads, every word size and every preset bitpool_create can use.      *)
(***************************************************************************)
EXTENDS Bitpool, SyncMapProofs, FiniteSetTheorems, TLAPS

-----------------------------------------------------------------------------
(* The ranges *)

\* A range has a natural number of buckets.
LEMMA BitNType == \A i \in Classes : BitN(i) \in Nat
<1> SUFFICES ASSUME NEW i \in Classes PROVE BitN(i) \in Nat
  OBVIOUS
<1>1. QuadBits * Quads \in Nat
  BY SyncMapAssumption, BitpoolAssumption
<1>2. Perc[i] \in Nat
  BY BitpoolAssumption
<1>3. Perc[i] * (QuadBits * Quads) \in Nat
  BY <1>1, <1>2
<1>4. 2 * Perc[i] * (QuadBits * Quads) + 100 \in Nat
  BY <1>1, <1>2, <1>3
<1> QED BY <1>4 DEF BitN, BucketCount

\* The ranges lie in the map, one above the other, real on top.
LEMMA RangeLayout ==
    /\ \A i \in Classes : BitI(i) \in Nat /\ BitN(i) \in Nat \ {0}
    /\ \A i \in Classes : RangeOf(i) \subseteq MapBits
    /\ \A i, j \in Classes : i < j => RangeEnd(j) <= BitI(i)
<1>1. BucketCount \in Nat /\ BucketCount = QuadBits
  BY SyncMapAssumption, BitpoolAssumption DEF BucketCount
<1>2. /\ BitN(0) \in Nat \ {0} /\ BitN(1) \in Nat \ {0}
      /\ BitN(2) \in Nat \ {0} /\ BitN(3) \in Nat \ {0}
  BY BitNType, BitpoolAssumption DEF Classes
<1>3. BitN(0) + BitN(1) + BitN(2) + BitN(3) <= BucketCount
  BY BitpoolAssumption
<1>4. /\ BitI(0) = BucketCount - BitN(0)
      /\ BitI(1) = BucketCount - BitN(0) - BitN(1)
      /\ BitI(2) = BucketCount - BitN(0) - BitN(1) - BitN(2)
      /\ BitI(3) = BucketCount - BitN(0) - BitN(1) - BitN(2) - BitN(3)
  BY DEF BitI
<1>5. \A i \in Classes : i = 0 \/ i = 1 \/ i = 2 \/ i = 3
  BY DEF Classes
<1>6. \A i \in Classes : BitI(i) \in Nat /\ BitN(i) \in Nat \ {0} /\ RangeEnd(i) <= BucketCount
  BY <1>1, <1>2, <1>3, <1>4, <1>5 DEF RangeEnd
<1>7. \A i \in Classes : RangeOf(i) \subseteq MapBits
  BY <1>1, <1>6 DEF RangeOf, MapBits, RangeEnd, BucketCount
<1>8. \A i, j \in Classes : i < j => RangeEnd(j) <= BitI(i)
  BY <1>1, <1>2, <1>3, <1>4, <1>5 DEF RangeEnd
<1> QED BY <1>6, <1>7, <1>8

\* _bitpool_index_to_presence finds the range an index lies in, so that a pop
\* is discounted from the counter its push was counted in.
THEOREM IndexToPresenceIsInverse ==
    \A i \in Classes : \A index \in RangeOf(i) : IndexToPresence(index) = i
<1> SUFFICES ASSUME NEW i \in Classes, NEW index \in RangeOf(i)
             PROVE  IndexToPresence(index) = i
  OBVIOUS
<1> DEFINE S == {j \in Classes : BitN(j) > 0 /\ index >= BitI(j)}
<1>1. index \in Nat /\ BitI(i) <= index /\ index < RangeEnd(i)
  BY RangeLayout DEF RangeOf, RangeEnd
<1>2. i \in S
  BY <1>1, RangeLayout
<1>3. \A j \in S : i <= j
  <2> SUFFICES ASSUME NEW j \in S, j < i PROVE FALSE
    BY DEF Classes
  <2>1. RangeEnd(i) <= BitI(j) /\ BitI(j) \in Nat /\ RangeEnd(i) \in Nat
    BY RangeLayout DEF RangeEnd
  <2> QED BY <1>1, <2>1
<1>4. S \subseteq Nat /\ S # {}
  BY <1>2 DEF Classes
<1>5. Least(S) \in S /\ \A j \in S : Least(S) <= j
  BY <1>4, LeastProperty
<1>6. Least(S) = i
  BY <1>2, <1>3, <1>4, <1>5
<1> QED BY <1>6 DEF IndexToPresence

\* Ranges do not overlap.
LEMMA RangesDisjoint ==
    \A i, j \in Classes : i # j => RangeOf(i) \cap RangeOf(j) = {}
<1> SUFFICES ASSUME NEW i \in Classes, NEW j \in Classes, i # j,
                    NEW x, x \in RangeOf(i), x \in RangeOf(j)
             PROVE  FALSE
  OBVIOUS
<1> QED BY IndexToPresenceIsInverse

\* A range above low has a positive disposition, so that the scan stops at it
\* whenever it is present.
LEMMA DispositionPositive == \A i \in Classes : i < 3 => BitDisp(i) > 0
<1> SUFFICES ASSUME NEW i \in Classes, i < 3 PROVE BitDisp(i) > 0
  OBVIOUS
<1>1. BucketCount \in Nat
  BY SyncMapAssumption, BitpoolAssumption DEF BucketCount
<1>2. Perc[i] \in Nat /\ Perc[3] \in Nat /\ Perc[i] <= Perc[3]
  BY BitpoolAssumption DEF Classes
<1>3. Perc[i] * BucketCount <= Perc[3] * BucketCount
      /\ Perc[i] * BucketCount \in Nat /\ Perc[3] * BucketCount \in Nat
  BY <1>1, <1>2
<1>4. BitN(i) <= BitN(3)
  <2> DEFINE a == Perc[i] * BucketCount
             b == Perc[3] * BucketCount
  <2>1. BitN(i) = (2 * a + 100) \div 200 /\ BitN(3) = (2 * b + 100) \div 200
    BY <1>1, <1>2 DEF BitN
  <2>2. \A x, y \in Nat : x <= y => (2 * x + 100) \div 200 <= (2 * y + 100) \div 200
    OBVIOUS
  <2> QED BY <1>3, <2>1, <2>2
<1>5. BitN(i) \in Nat \ {0} /\ BitN(3) \in Nat
  BY RangeLayout DEF Classes
<1>6. \A x, y \in Nat : x > 0 /\ x <= y => y \div x > 0
  OBVIOUS
<1>7. BitN(3) \div BitN(i) > 0
  BY <1>4, <1>5, <1>6
<1> QED BY <1>7 DEF BitDisp

-----------------------------------------------------------------------------
(* The turn of the scheduler *)

\* What a turn knows: before a range is chosen, some range it has not passed is
\* present; afterwards the chosen range is, and the index lies in it.
TurnInv ==
    /\ cpc = "scan" => \E i \in Classes : i >= crange /\ presence[i] > 0
    /\ cpc \in {"unsig", "clear"} \/ InPop => presence[crange] > 0
    /\ cpc = "clear" \/ InPop => cidx \in RangeOf(crange)
    /\ cpc = "clear" => cidx \in bits

\* What a push knows.
PushInv ==
    \A p \in Producers :
        /\ ppc[p] # "idle" => pload[p] \in Payloads
        /\ ppc[p] \in {"claim", "copy", "count"} =>
              pidx[p] \in RangeOf(ClassOf[pload[p]])

QueueInv == QueueTypeOK /\ TurnInv /\ PushInv

\* A step of a push.
LEMMA PushKeeps ==
    ASSUME QueueInv, NEW p \in Producers,
           ProducerStep(p) \/ \E x \in Payloads : Push(p, x)
    PROVE  QueueInv'
<1> USE BitpoolAssumption
    DEF QueueInv, QueueTypeOK, TurnInv, PushInv, InPop, Go, consVars, ProducerPCs
<1>1. ASSUME NEW x \in Payloads, Push(p, x) PROVE QueueInv'
  BY <1>1 DEF Push
<1>2. CASE FindBit(p)
  <2> DEFINE i == ClassOf[pload[p]]
  <2>1. i \in Classes
    BY <1>2 DEF FindBit
  <2>2. BitI(i) \in Nat /\ BitN(i) \in Nat /\ RangeEnd(i) \in Nat /\ RangeOf(i) \subseteq MapBits
    BY <2>1, RangeLayout DEF RangeEnd
  <2>3. pidx'[p] \in QuadSpan(0) /\ BitI(i) <= pidx'[p] /\ pidx'[p] < RangeEnd(i)
    BY <1>2, <2>2, SigHit DEF FindBit
  <2>4. pidx'[p] \in RangeOf(i)
    BY <2>2, <2>3, SyncMapAssumption DEF RangeOf, QuadSpan
  <2> QED BY <1>2, <2>1, <2>2, <2>4 DEF FindBit
<1>3. CASE ClaimBit(p)
  <2>1. pidx[p] \in MapBits
    OBVIOUS
  <2> QED BY <1>3, <2>1 DEF ClaimBit
<1>4. CASE CopyPayload(p)
  BY <1>4 DEF CopyPayload
<1>5. CASE CountPresence(p)
  <2>1. ClassOf[pload[p]] \in Classes
    BY <1>5 DEF CountPresence
  <2>2. presence' \in [Classes -> Nat] /\ \A i \in Classes : presence'[i] >= presence[i]
    BY <1>5, <2>1 DEF CountPresence
  <2>3. 0 \in MapBits
    BY SyncMapAssumption DEF MapBits
  <2> QED BY <1>5, <2>1, <2>2, <2>3 DEF CountPresence
<1> QED BY <1>1, <1>2, <1>3, <1>4, <1>5 DEF ProducerStep

\* A step of the scheduler's turn. The counter of the chosen range cannot drop
\* in between: only the scheduler discounts.
LEMMA TurnKeeps == ASSUME QueueInv, ConsumerStep PROVE QueueInv'
<1> USE BitpoolAssumption
    DEF QueueInv, QueueTypeOK, TurnInv, PushInv, InPop, CGo, prodVars, ConsumerPCs
<1>1. CASE Turn \/ PresenceNone \/ VrowsTaken
  BY <1>1 DEF Turn, PresenceNone, VrowsTaken
<1>2. CASE PresenceAny
  BY <1>2 DEF PresenceAny, Classes
<1>3. CASE ScanRange
  <2>1. PICK i \in Classes : i >= crange /\ presence[i] > 0
    BY <1>3 DEF ScanRange
  <2>2. CASE crange < 3 /\ ~ScanStops
    <3>1. ~ (presence[crange] > 0)
      BY <2>2, DispositionPositive DEF ScanStops
    <3>2. crange' = crange + 1 /\ cpc' = cpc /\ crange' \in Classes /\ i >= crange'
      BY <1>3, <2>1, <2>2, <3>1 DEF ScanRange, Classes
    <3> QED BY <1>3, <2>1, <3>2 DEF ScanRange
  <2>3. CASE crange < 3 /\ ScanStops
    BY <1>3, <2>3 DEF ScanRange, ScanStops
  <2>4. CASE ~ (crange < 3)
    <3>1. i = crange
      BY <2>1, <2>4 DEF Classes
    <3> QED BY <1>3, <2>1, <2>4, <3>1 DEF ScanRange
  <2> QED BY <2>2, <2>3, <2>4
<1>4. CASE ChooseBit
  <2>1. BitI(crange) \in Nat /\ RangeEnd(crange) \in Nat /\ RangeOf(crange) \subseteq MapBits
    BY RangeLayout DEF RangeEnd
  <2>2. cidx' \in QuadSpan(0) /\ BitI(crange) <= cidx' /\ cidx' < RangeEnd(crange)
        /\ cidx' \in bits
    BY <1>4, <2>1, UnsigHit DEF ChooseBit, UnsigSet
  <2>3. cidx' \in RangeOf(crange)
    BY <2>1, <2>2, SyncMapAssumption DEF RangeOf, QuadSpan
  <2> QED BY <1>4, <2>1, <2>2, <2>3 DEF ChooseBit
<1>5. CASE ChooseFails
  BY <1>5 DEF ChooseFails, Classes
<1>6. CASE ClearBit \/ FreeBit
  BY <1>6 DEF ClearBit, FreeBit
<1>7. CASE ReadBucket \/ Loaded
  BY <1>7 DEF ReadBucket, Loaded
<1>8. CASE DiscountPresence
  <2>1. IndexToPresence(cidx) = crange
    BY <1>8, IndexToPresenceIsInverse DEF DiscountPresence
  <2>2. presence' \in [Classes -> Nat]
    BY <1>8, <2>1 DEF DiscountPresence
  <2>3. 0 \in MapBits /\ 0 \in Classes
    BY SyncMapAssumption DEF MapBits, Classes
  <2> QED BY <1>8, <2>1, <2>2, <2>3 DEF DiscountPresence
<1> QED
  BY <1>1, <1>2, <1>3, <1>4, <1>5, <1>6, <1>7, <1>8 DEF ConsumerStep

LEMMA QueueInvStep == QueueInv /\ [QueueNext]_queueVars => QueueInv'
<1> SUFFICES ASSUME QueueInv, [QueueNext]_queueVars PROVE QueueInv'
  OBVIOUS
<1>1. CASE QueueNext
  BY <1>1, PushKeeps, TurnKeeps DEF QueueNext
<1>2. CASE UNCHANGED queueVars
  BY <1>2 DEF queueVars, prodVars, consVars, QueueInv, QueueTypeOK, TurnInv,
              PushInv, InPop
<1> QED BY <1>1, <1>2

LEMMA QueueInvInit == QueueInit => QueueInv
BY SyncMapAssumption, BitpoolAssumption
DEF QueueInit, QueueInv, QueueTypeOK, TurnInv, PushInv, InPop, ProducerPCs,
    ConsumerPCs, MapBits, Classes

\* The queue's variables always have their types; in particular the counters
\* are never negative.
THEOREM QueueTypes == QueueSpec => []QueueTypeOK
<1>1. QueueInv => QueueTypeOK
  BY DEF QueueInv
<1> QED BY <1>1, QueueInvInit, QueueInvStep, PTL DEF QueueSpec

\* What the invariant gives.
LEMMA QueueInvGives ==
    QueueInv => PresenceNeverUnderflows /\ PopsFromItsRange
<1> SUFFICES ASSUME QueueInv PROVE PresenceNeverUnderflows /\ PopsFromItsRange
  OBVIOUS
<1>1. InPop => IndexToPresence(cidx) = crange /\ presence[crange] > 0
  BY IndexToPresenceIsInverse DEF QueueInv, QueueTypeOK, TurnInv
<1>2. ASSUME NEW p \in Producers, ppc[p] \in {"claim", "copy", "count"}
      PROVE  IndexToPresence(pidx[p]) = ClassOf[pload[p]]
  <2>1. pload[p] \in Payloads /\ pidx[p] \in RangeOf(ClassOf[pload[p]])
    BY <1>2 DEF QueueInv, PushInv
  <2> QED BY <2>1, IndexToPresenceIsInverse, BitpoolAssumption
<1> QED BY <1>1, <1>2 DEF PresenceNeverUnderflows, PopsFromItsRange, InPop

\* No presence counter is decremented at zero, for any number of producers and
\* any interleaving of their pushes with the scheduler's turns.
THEOREM PresenceNeverUnderflowsHolds == QueueSpec => []PresenceNeverUnderflows
<1>1. QueueInv => PresenceNeverUnderflows
  BY QueueInvGives
<1> QED BY <1>1, QueueInvInit, QueueInvStep, PTL DEF QueueSpec

\* Pushes and pops use buckets of the range their priority belongs to.
THEOREM PopsFromItsRangeHolds == QueueSpec => []PopsFromItsRange
<1>1. QueueInv => PopsFromItsRange
  BY QueueInvGives
<1> QED BY <1>1, QueueInvInit, QueueInvStep, PTL DEF QueueSpec
-----------------------------------------------------------------------------
(* No bit is forgotten *)

\* What the counting argument counts is finite.
LEMMA CountsAreFinite ==
    ASSUME QueueInv, NEW i \in Classes
    PROVE  /\ IsFiniteSet(SetBits(i)) /\ Cardinality(SetBits(i)) \in Nat
           /\ IsFiniteSet(Loading(i)) /\ Cardinality(Loading(i)) \in Nat
           /\ presence[i] \in Nat /\ BeingPopped(i) \in {0, 1}
<1>1. RangeEnd(i) - 1 \in Int /\ BitI(i) \in Int
  BY RangeLayout DEF RangeEnd
<1>2. IsFiniteSet(RangeOf(i))
  BY <1>1, FS_Interval DEF RangeOf
<1>3. SetBits(i) \subseteq RangeOf(i) /\ Loading(i) \subseteq Producers
  BY DEF SetBits, Loading
<1>4. IsFiniteSet(SetBits(i)) /\ IsFiniteSet(Loading(i))
  BY <1>2, <1>3, FS_Subset, BitpoolAssumption
<1> QED BY <1>4, FS_CardinalityType DEF QueueInv, QueueTypeOK, BeingPopped

\* A push: the bit it claims is one of its own range, and so is its count.
LEMMA PushCounts ==
    ASSUME QueueInv, NoForgottenBit, NEW p \in Producers,
           ProducerStep(p) \/ \E x \in Payloads : Push(p, x)
    PROVE  NoForgottenBit'
<1> SUFFICES ASSUME NEW i \in Classes
             PROVE  (Cardinality(SetBits(i)) + BeingPopped(i)
                        <= presence[i] + Cardinality(Loading(i)))'
  BY DEF NoForgottenBit
<1>0. Cardinality(SetBits(i)) + BeingPopped(i) <= presence[i] + Cardinality(Loading(i))
  BY DEF NoForgottenBit
<1> USE DEF Go, consVars
<1>1. BeingPopped(i)' = BeingPopped(i)
  BY DEF ProducerStep, Push, FindBit, ClaimBit, CopyPayload, CountPresence,
         BeingPopped, InPop
<1>2. CASE FindBit(p) \/ CopyPayload(p) \/ \E x \in Payloads : Push(p, x)
  <2>1. SetBits(i)' = SetBits(i) /\ presence' = presence
    BY <1>2 DEF FindBit, CopyPayload, Push, SetBits
  <2>2. Loading(i)' = Loading(i)
    BY <1>2 DEF FindBit, CopyPayload, Push, Loading, QueueInv, QueueTypeOK
  <2> QED BY <1>0, <1>1, <2>1, <2>2
<1>3. CASE ClaimBit(p)
  <2>1. presence' = presence
    BY <1>3 DEF ClaimBit
  <2>2. CASE ClassOf[pload[p]] = i
    <3>1. SetBits(i)' \subseteq SetBits(i) \cup {pidx[p]} /\ SetBits(i) \subseteq SetBits(i)'
      BY <1>3 DEF ClaimBit, SetBits
    <3>2. SetBits(i)' = SetBits(i) \/ SetBits(i)' = SetBits(i) \cup {pidx[p]}
      BY <3>1
    <3>3. /\ Cardinality(SetBits(i)') <= Cardinality(SetBits(i)) + 1
          /\ Cardinality(SetBits(i)') \in Nat
      <4>1. /\ IsFiniteSet(SetBits(i)) /\ Cardinality(SetBits(i)) \in Nat
        BY CountsAreFinite
      <4>2. \/ Cardinality(SetBits(i)') = Cardinality(SetBits(i))
            \/ Cardinality(SetBits(i)') = Cardinality(SetBits(i)) + 1
        BY <3>2, <4>1, FS_AddElement
      <4> QED BY <4>1, <4>2
    <3>4. Loading(i)' = Loading(i) \cup {p} /\ p \notin Loading(i)
      BY <1>3, <2>2 DEF ClaimBit, Loading, QueueInv, QueueTypeOK
    <3>5. Cardinality(Loading(i)') = Cardinality(Loading(i)) + 1
      BY <3>4, CountsAreFinite, FS_AddElement
    <3> QED BY <1>0, <1>1, <2>1, <3>3, <3>5, CountsAreFinite
  <2>3. CASE ClassOf[pload[p]] # i
    <3>1. pload[p] \in Payloads /\ pidx[p] \in RangeOf(ClassOf[pload[p]])
      BY <1>3 DEF ClaimBit, QueueInv, PushInv
    <3>2. pidx[p] \notin RangeOf(i)
      BY <2>3, <3>1, RangesDisjoint, BitpoolAssumption
    <3>3. SetBits(i)' = SetBits(i)
      BY <1>3, <3>2 DEF ClaimBit, SetBits
    <3>4. Loading(i)' = Loading(i)
      BY <1>3, <2>3 DEF ClaimBit, Loading, QueueInv, QueueTypeOK
    <3> QED BY <1>0, <1>1, <2>1, <3>3, <3>4
  <2> QED BY <2>2, <2>3
<1>4. CASE CountPresence(p)
  <2>1. SetBits(i)' = SetBits(i)
    BY <1>4 DEF CountPresence, SetBits
  <2>2. CASE ClassOf[pload[p]] = i
    <3>1. Loading(i)' = Loading(i) \ {p} /\ p \in Loading(i)
      BY <1>4, <2>2 DEF CountPresence, Loading, QueueInv, QueueTypeOK
    <3>2. Cardinality(Loading(i)') = Cardinality(Loading(i)) - 1
      BY <3>1, CountsAreFinite, FS_RemoveElement
    <3>3. presence'[i] = presence[i] + 1
      BY <1>4, <2>2 DEF CountPresence, QueueInv, QueueTypeOK
    <3> QED BY <1>0, <1>1, <2>1, <3>2, <3>3, CountsAreFinite
  <2>3. CASE ClassOf[pload[p]] # i
    <3>1. Loading(i)' = Loading(i)
      BY <1>4, <2>3 DEF CountPresence, Loading, QueueInv, QueueTypeOK
    <3>2. presence'[i] = presence[i]
      BY <1>4, <2>3 DEF CountPresence, QueueInv, QueueTypeOK
    <3> QED BY <1>0, <1>1, <2>1, <3>1, <3>2
  <2> QED BY <2>2, <2>3
<1> QED BY <1>2, <1>3, <1>4 DEF ProducerStep

\* A turn: the bit it clears is of the range it discounts at its end.
LEMMA TurnCounts ==
    ASSUME QueueInv, NoForgottenBit, ConsumerStep PROVE NoForgottenBit'
<1> SUFFICES ASSUME NEW i \in Classes
             PROVE  (Cardinality(SetBits(i)) + BeingPopped(i)
                        <= presence[i] + Cardinality(Loading(i)))'
  BY DEF NoForgottenBit
<1>0. Cardinality(SetBits(i)) + BeingPopped(i) <= presence[i] + Cardinality(Loading(i))
  BY DEF NoForgottenBit
<1> USE DEF CGo, prodVars
<1>1. Loading(i)' = Loading(i)
  BY DEF ConsumerStep, Turn, PresenceNone, PresenceAny, VrowsTaken, ScanRange, ChooseBit,
         ChooseFails, ClearBit, ReadBucket, Loaded, FreeBit, DiscountPresence, Loading
<1>2. CASE Turn \/ PresenceNone \/ PresenceAny \/ VrowsTaken \/ ScanRange \/ ChooseBit
           \/ ChooseFails \/ ReadBucket \/ Loaded
  <2>1. SetBits(i)' = SetBits(i) /\ presence' = presence
    BY <1>2
    DEF Turn, PresenceNone, PresenceAny, VrowsTaken, ScanRange, ChooseBit, ChooseFails,
        ReadBucket, Loaded, SetBits
  <2>2. BeingPopped(i)' = BeingPopped(i)
    BY <1>2
    DEF Turn, PresenceNone, PresenceAny, VrowsTaken, ScanRange, ChooseBit, ChooseFails,
        ReadBucket, Loaded, BeingPopped, InPop
  <2> QED BY <1>0, <1>1, <2>1, <2>2
<1>3. CASE ClearBit
  <2>1. SetBits(i)' = SetBits(i) \ {cidx} /\ presence' = presence
    BY <1>3 DEF ClearBit, SetBits
  <2>2. cidx \in SetBits(crange) /\ crange \in Classes
    BY <1>3 DEF ClearBit, QueueInv, QueueTypeOK, TurnInv, SetBits
  <2>3. CASE crange = i
    <3>1. Cardinality(SetBits(i)') = Cardinality(SetBits(i)) - 1
      BY <2>1, <2>2, <2>3, CountsAreFinite, FS_RemoveElement
    <3>2. BeingPopped(i) = 0 /\ BeingPopped(i)' = 1
      BY <1>3, <2>3 DEF ClearBit, BeingPopped, InPop
    <3> QED BY <1>0, <1>1, <2>1, <3>1, <3>2, CountsAreFinite
  <2>4. CASE crange # i
    <3>1. SetBits(i)' = SetBits(i)
      BY <2>1, <2>2, <2>4, RangesDisjoint DEF SetBits
    <3>2. BeingPopped(i)' = 0 /\ BeingPopped(i) = 0
      BY <1>3, <2>4 DEF ClearBit, BeingPopped
    <3> QED BY <1>0, <1>1, <2>1, <3>1, <3>2
  <2> QED BY <2>3, <2>4
<1>4. CASE FreeBit
  <2>1. SetBits(i)' = SetBits(i) \ {cidx} /\ presence' = presence
    BY <1>4 DEF FreeBit, SetBits
  <2>2. /\ Cardinality(SetBits(i)') <= Cardinality(SetBits(i))
        /\ Cardinality(SetBits(i)') \in Nat
    BY <2>1, CountsAreFinite, FS_RemoveElement, FS_CardinalityType
  <2>3. BeingPopped(i)' = BeingPopped(i)
    BY <1>4 DEF FreeBit, BeingPopped, InPop
  <2> QED BY <1>0, <1>1, <2>1, <2>2, <2>3, CountsAreFinite
<1>5. CASE DiscountPresence
  <2>1. SetBits(i)' = SetBits(i) /\ BeingPopped(i)' = 0
    BY <1>5 DEF DiscountPresence, SetBits, BeingPopped, InPop
  <2>2. IndexToPresence(cidx) = crange /\ crange \in Classes
    BY <1>5, IndexToPresenceIsInverse
    DEF DiscountPresence, InPop, QueueInv, QueueTypeOK, TurnInv
  <2>3. BeingPopped(i) = (IF crange = i THEN 1 ELSE 0)
    BY <1>5 DEF DiscountPresence, BeingPopped, InPop
  <2>4. presence'[i] = presence[i] - BeingPopped(i)
    BY <1>5, <2>2, <2>3, CountsAreFinite DEF DiscountPresence, QueueInv, QueueTypeOK
  <2> QED BY <1>0, <1>1, <2>1, <2>3, <2>4, CountsAreFinite
<1> QED BY <1>2, <1>3, <1>4, <1>5 DEF ConsumerStep

LEMMA NoForgottenBitStep ==
    QueueInv /\ NoForgottenBit /\ [QueueNext]_queueVars => NoForgottenBit'
<1> SUFFICES ASSUME QueueInv, NoForgottenBit, [QueueNext]_queueVars
             PROVE  NoForgottenBit'
  OBVIOUS
<1>1. CASE QueueNext
  BY <1>1, PushCounts, TurnCounts DEF QueueNext
<1>2. CASE UNCHANGED queueVars
  BY <1>2
  DEF queueVars, prodVars, consVars, NoForgottenBit, SetBits, BeingPopped, InPop, Loading
<1> QED BY <1>1, <1>2

LEMMA NoForgottenBitInit == QueueInit => NoForgottenBit
<1> SUFFICES ASSUME QueueInit, NEW i \in Classes
             PROVE  Cardinality(SetBits(i)) + BeingPopped(i)
                        <= presence[i] + Cardinality(Loading(i))
  BY DEF NoForgottenBit
<1>1. SetBits(i) = {} /\ Loading(i) = {} /\ BeingPopped(i) = 0 /\ presence[i] = 0
  BY DEF QueueInit, SetBits, Loading, BeingPopped, InPop
<1> QED BY <1>1, FS_EmptySet

\* Every set bit is counted or about to be, for any number of producers: a full
\* bucket is never left behind by a scheduler that sees no presence.
THEOREM NoForgottenBitHolds == QueueSpec => []NoForgottenBit
<1> QED
  BY QueueInvInit, QueueInvStep, NoForgottenBitInit, NoForgottenBitStep, PTL DEF QueueSpec

-----------------------------------------------------------------------------
(* The counters count pushes *)

\* Who holds which payload: a client that is not in sched_push holds none, one
\* that is holds a payload whose push has begun, and no two hold the same.
HoldInv ==
    /\ IsFiniteSet(pushed)
    /\ \A p \in Producers : ppc[p] = "idle" => pload[p] = NoPayload
    /\ \A p \in Producers : ppc[p] # "idle" => pload[p] \in pushed
    /\ \A p, q \in Producers :
          ppc[p] # "idle" /\ ppc[q] # "idle" /\ pload[p] = pload[q] => p = q

CountInv == QueueInv /\ HoldInv /\ PresenceWithinPushes

LEMMA HoldInvStep == QueueInv /\ HoldInv /\ [QueueNext]_queueVars => HoldInv'
<1> SUFFICES ASSUME QueueInv, HoldInv, [QueueNext]_queueVars PROVE HoldInv'
  OBVIOUS
<1> USE DEF HoldInv, QueueInv, QueueTypeOK, Go, prodVars
<1>1. ASSUME NEW p \in Producers, NEW x \in Payloads, Push(p, x) PROVE HoldInv'
  <2>1. IsFiniteSet(pushed')
    BY <1>1, FS_AddElement DEF Push
  <2>2. \A q \in Producers : pload[q] # x
    BY <1>1, PayloadAssumption DEF Push
  <2>3. pload' = [pload EXCEPT ![p] = x] /\ ppc' = [ppc EXCEPT ![p] = "find"]
        /\ pushed' = pushed \cup {x}
    BY <1>1 DEF Push
  <2> QED BY <2>1, <2>2, <2>3
<1>2. ASSUME NEW p \in Producers, FindBit(p) \/ ClaimBit(p) \/ CopyPayload(p)
      PROVE  HoldInv'
  <2>1. UNCHANGED <<pload, pushed>> /\ ppc[p] # "idle"
        /\ \E to \in {"claim", "copy", "count"} : ppc' = [ppc EXCEPT ![p] = to]
    BY <1>2 DEF FindBit, ClaimBit, CopyPayload
  <2> QED BY <2>1
<1>3. ASSUME NEW p \in Producers, CountPresence(p) PROVE HoldInv'
  BY <1>3 DEF CountPresence
<1>4. CASE ConsumerStep
  <2>1. UNCHANGED prodVars
    BY <1>4
    DEF ConsumerStep, Turn, PresenceNone, PresenceAny, VrowsTaken, ScanRange, ChooseBit,
        ChooseFails, ClearBit, ReadBucket, Loaded, FreeBit, DiscountPresence
  <2> QED BY <2>1
<1>5. CASE UNCHANGED queueVars
  BY <1>5 DEF queueVars
<1> QED BY <1>1, <1>2, <1>3, <1>4, <1>5 DEF QueueNext, ProducerStep

\* The pushes counted are finitely many.
LEMMA PushesDoneFinite ==
    ASSUME HoldInv, NEW i \in Classes
    PROVE  IsFiniteSet(PushesDone(i)) /\ Cardinality(PushesDone(i)) \in Nat
BY FS_Subset, FS_CardinalityType DEF HoldInv, PushesDone

LEMMA PresenceWithinPushesStep == CountInv /\ [QueueNext]_queueVars => CountInv'
<1> SUFFICES ASSUME CountInv, [QueueNext]_queueVars PROVE CountInv'
  OBVIOUS
<1>1. QueueInv' /\ HoldInv'
  BY QueueInvStep, HoldInvStep DEF CountInv
<1> SUFFICES ASSUME NEW i \in Classes
             PROVE  presence'[i] <= Cardinality(PushesDone(i)')
  BY <1>1, PushesDoneFinite DEF PresenceWithinPushes, CountInv, QueueInv, QueueTypeOK
<1> USE DEF CountInv
<1>2. /\ presence[i] <= Cardinality(PushesDone(i))
      /\ presence[i] \in Nat /\ Cardinality(PushesDone(i)) \in Nat
      /\ IsFiniteSet(PushesDone(i))
  BY PushesDoneFinite DEF PresenceWithinPushes, QueueInv, QueueTypeOK
<1>3. ASSUME NEW p \in Producers, NEW x \in Payloads, Push(p, x)
      PROVE  presence'[i] <= Cardinality(PushesDone(i)')
  <2>1. PushesDone(i)' = PushesDone(i) /\ presence' = presence
    <3>1. /\ pload' = [pload EXCEPT ![p] = x] /\ pushed' = pushed \cup {x}
          /\ pload[p] = NoPayload /\ presence' = presence
      BY <1>3 DEF Push, Go, HoldInv
    <3>2. pload'[p] = x /\ \A q \in Producers : q # p => pload'[q] = pload[q]
      BY <3>1 DEF QueueInv, QueueTypeOK
    <3>3. \A y \in pushed : y # NoPayload /\ y # x
      BY <1>3, PayloadAssumption DEF Push, QueueInv, QueueTypeOK
    <3> QED BY <3>1, <3>2, <3>3 DEF PushesDone
  <2> QED BY <1>2, <2>1
<1>4. ASSUME NEW p \in Producers, FindBit(p) \/ ClaimBit(p) \/ CopyPayload(p)
      PROVE  presence'[i] <= Cardinality(PushesDone(i)')
  <2>1. PushesDone(i)' = PushesDone(i) /\ presence' = presence
    BY <1>4 DEF FindBit, ClaimBit, CopyPayload, PushesDone
  <2> QED BY <1>2, <2>1
<1>5. ASSUME NEW p \in Producers, CountPresence(p)
      PROVE  presence'[i] <= Cardinality(PushesDone(i)')
  <2> DEFINE x == pload[p]
  <2>1. /\ ppc[p] = "count" /\ x \in pushed /\ x \in Payloads /\ x # NoPayload
        /\ \A q \in Producers : q # p => pload[q] # x
    BY <1>5, PayloadAssumption DEF CountPresence, Go, HoldInv, QueueInv, QueueTypeOK, PushInv
  <2>2. pushed' = pushed /\ pload'[p] = NoPayload
        /\ \A q \in Producers : q # p => pload'[q] = pload[q]
    BY <1>5 DEF CountPresence, QueueInv, QueueTypeOK
  <2>3. \A y \in pushed : y # NoPayload
    BY PayloadAssumption DEF QueueInv, QueueTypeOK
  <2>4. CASE ClassOf[x] = i
    <3>1. PushesDone(i)' = PushesDone(i) \cup {x} /\ x \notin PushesDone(i)
      BY <2>1, <2>2, <2>3, <2>4 DEF PushesDone
    <3>2. Cardinality(PushesDone(i)') = Cardinality(PushesDone(i)) + 1
      BY <1>2, <3>1, FS_AddElement
    <3>3. presence'[i] = presence[i] + 1
      BY <1>5, <2>4 DEF CountPresence, QueueInv, QueueTypeOK
    <3> QED BY <1>2, <3>2, <3>3
  <2>5. CASE ClassOf[x] # i
    <3>1. PushesDone(i)' = PushesDone(i)
      BY <2>1, <2>2, <2>3, <2>5 DEF PushesDone
    <3>2. presence'[i] = presence[i]
      BY <1>5, <2>5 DEF CountPresence, QueueInv, QueueTypeOK
    <3> QED BY <1>2, <3>1, <3>2
  <2> QED BY <2>4, <2>5
<1>6. CASE ConsumerStep
  <2>1. UNCHANGED prodVars
    BY <1>6
    DEF ConsumerStep, Turn, PresenceNone, PresenceAny, VrowsTaken, ScanRange, ChooseBit,
        ChooseFails, ClearBit, ReadBucket, Loaded, FreeBit, DiscountPresence
  <2>2. PushesDone(i)' = PushesDone(i)
    BY <2>1 DEF prodVars, PushesDone
  <2>3. presence'[i] <= presence[i] /\ presence'[i] \in Nat
    <3>1. CASE DiscountPresence
      <4>1. presence' = [presence EXCEPT ![IndexToPresence(cidx)] = @ - 1]
        BY <3>1 DEF DiscountPresence
      <4>2. presence'[i] = presence[i] - 1 \/ presence'[i] = presence[i]
        BY <4>1 DEF QueueInv, QueueTypeOK
      <4> QED BY <1>1, <1>2, <4>2 DEF QueueInv, QueueTypeOK
    <3>2. CASE ~ DiscountPresence
      BY <1>2, <1>6, <3>2
      DEF ConsumerStep, Turn, PresenceNone, PresenceAny, VrowsTaken, ScanRange, ChooseBit,
          ChooseFails, ClearBit, ReadBucket, Loaded, FreeBit
    <3> QED BY <3>1, <3>2
  <2> QED BY <1>2, <2>2, <2>3
<1>7. CASE UNCHANGED queueVars
  BY <1>2, <1>7 DEF queueVars, prodVars, PushesDone
<1> QED BY <1>3, <1>4, <1>5, <1>6, <1>7 DEF QueueNext, ProducerStep

LEMMA CountInvInit == QueueInit => CountInv
<1> SUFFICES ASSUME QueueInit PROVE HoldInv /\ PresenceWithinPushes
  BY QueueInvInit DEF CountInv
<1>1. HoldInv
  BY FS_EmptySet DEF QueueInit, HoldInv
<1>2. \A i \in Classes : Cardinality(PushesDone(i)) \in Nat /\ presence[i] = 0
  BY <1>1, PushesDoneFinite DEF QueueInit
<1> QED BY <1>1, <1>2 DEF PresenceWithinPushes

\* A range never shows more payloads than pushes into it have returned: the
\* counter trails the clients, whatever the scheduler has popped or lost.
THEOREM PresenceWithinPushesHolds == QueueSpec => []PresenceWithinPushes
<1>1. CountInv => PresenceWithinPushes
  BY DEF CountInv
<1> QED BY <1>1, CountInvInit, PresenceWithinPushesStep, PTL DEF QueueSpec
=============================================================================
