------------------------- MODULE SyncMapCallsProofs -------------------------
(***************************************************************************)
(* What a search of sync_map.c promises while other threads change the     *)
(* map, for any number of threads, any ranges and any size of the map.     *)
(***************************************************************************)
EXTENDS SyncMapCalls, SyncMapProofs

\* Words lie one after the other, and an index lies in the word QuadOf names.
LEMMA QuadLayout ==
    ASSUME NEW q \in Nat
    PROVE  /\ q * QuadBits \in Nat
           /\ (q + 1) * QuadBits = q * QuadBits + QuadBits
           /\ q < Quads => (q + 1) * QuadBits <= QuadBits * Quads
<1> USE SyncMapAssumption
<1>1. q * QuadBits \in Nat /\ (q + 1) * QuadBits = q * QuadBits + QuadBits
  OBVIOUS
<1>2. ASSUME q < Quads PROVE (q + 1) * QuadBits <= QuadBits * Quads
  <2>1. PICK d \in Nat : Quads = q + 1 + d
    <3>1. Quads - (q + 1) \in Nat /\ Quads = q + 1 + (Quads - (q + 1))
      BY <1>2
    <3> QED BY <3>1
  <2>2. QuadBits * Quads = (q + 1) * QuadBits + d * QuadBits
    BY <2>1
  <2>3. d * QuadBits \in Nat
    OBVIOUS
  <2> QED BY <1>1, <2>2, <2>3
<1> QED BY <1>1, <1>2

LEMMA QuadOfIndex ==
    ASSUME NEW i \in Nat
    PROVE  QuadOf(i) \in Nat /\ QuadOf(i) * QuadBits <= i /\ i < (QuadOf(i) + 1) * QuadBits
BY SyncMapAssumption, SMTT(30) DEF QuadOf

\* A load of sync_map_sig_first never walks over a bit that is clear: a bit at
\* or after the start of the quad looked at lies in a later quad when the load
\* finds nothing, and no lower than the bit found when it finds one.
LEMMA SigMissesNothing ==
    ASSUME NEW B, NEW q \in Nat, NEW from \in Nat, NEW i \in Nat,
           i \notin B, from <= i, q * QuadBits <= i
    PROVE  /\ SigCandidates(B, q, from) = {} => (q + 1) * QuadBits <= i
           /\ SigCandidates(B, q, from) # {} => Least(SigCandidates(B, q, from)) <= i
<1> USE SyncMapAssumption
<1> DEFINE C == SigCandidates(B, q, from)
<1>1. q * QuadBits \in Nat /\ (q + 1) * QuadBits = q * QuadBits + QuadBits
  BY QuadLayout
<1>2. i < (q + 1) * QuadBits => i \in C
  BY <1>1 DEF SigCandidates, MaskFrom, QuadSpan
<1>3. \A j \in C : j \in Nat /\ j < (q + 1) * QuadBits
  BY <1>1 DEF SigCandidates, MaskFrom, QuadSpan
<1>4. C = {} => (q + 1) * QuadBits <= i
  BY <1>1, <1>2
<1>5. ASSUME C # {} PROVE Least(C) <= i
  <2>1. Least(C) \in C /\ \A j \in C : Least(C) <= j
    BY <1>3, <1>5, LeastProperty
  <2> QED BY <1>1, <1>2, <1>3, <2>1
<1> QED BY <1>4, <1>5

-----------------------------------------------------------------------------
(* The type invariant *)

\* The candidates of a load are bits of the quad it looks at, so that a hit is
\* an index of the map and of the range.
LEMMA HitInMap ==
    ASSUME TypeOK, NEW t \in Threads, Hits(Candidates(t), range[t][2])
    PROVE  /\ Least(Candidates(t)) \in MapBits
           /\ range[t][1] <= Least(Candidates(t))
           /\ Least(Candidates(t)) < range[t][2]
<1> USE SyncMapAssumption
<1>1. range[t][1] \in Nat /\ range[t][2] \in Nat /\ quad[t] \in Nat /\ quad[t] < Quads
  BY RangesAssumption DEF TypeOK
<1>2. Least(Candidates(t)) \in QuadSpan(quad[t])
      /\ range[t][1] <= Least(Candidates(t)) /\ Least(Candidates(t)) < range[t][2]
  <2>1. CASE op[t] = "sig"
    BY <1>1, <2>1, SigHit DEF Candidates
  <2>2. CASE op[t] # "sig"
    BY <1>1, <2>2, UnsigHit DEF Candidates
  <2> QED BY <2>1, <2>2
<1>3. /\ quad[t] * QuadBits \in Nat
      /\ (quad[t] + 1) * QuadBits <= QuadBits * Quads
      /\ (quad[t] + 1) * QuadBits \in Nat /\ QuadBits * Quads \in Nat
  BY <1>1, QuadLayout
<1>4. Least(Candidates(t)) \in MapBits
  BY <1>2, <1>3 DEF QuadSpan, MapBits
<1> QED BY <1>2, <1>4

LEMMA TypeInit ==
    Init => TypeOK
<1> SUFFICES ASSUME Init PROVE TypeOK
  OBVIOUS
<1>1. NoRange \in Ranges
  BY RangesAssumption, Zenon DEF NoRange
<1>2. QuadBits * Quads \in Nat \ {0}
  BY SyncMapAssumption
<1>3. 0 \in MapBits /\ 0 \in 0 .. Quads - 1
  BY <1>2, SyncMapAssumption DEF MapBits
<1> QED BY <1>1, <1>3 DEF Init, TypeOK, Ops

LEMMA TypeStep ==
    TypeOK /\ [Next]_vars => TypeOK'
<1> SUFFICES ASSUME TypeOK, [Next]_vars PROVE TypeOK'
  OBVIOUS
<1> USE SyncMapAssumption
<1>0. NoRange \in Ranges /\ 0 \in MapBits /\ 0 \in 0 .. Quads - 1
  <2>1. NoRange \in Ranges
    BY RangesAssumption, Zenon DEF NoRange
  <2>2. QuadBits * Quads \in Nat \ {0}
    OBVIOUS
  <2> QED BY <2>1, <2>2 DEF MapBits
<1>k. ASSUME NEW B, B \subseteq MapBits, NEW s \in Threads
      PROVE  KeepSteady(s, B) \in SUBSET MapBits
  BY DEF TypeOK, KeepSteady
<1> USE DEF TypeOK
<1>r. ASSUME NEW t \in Threads, Return(t)
      PROVE  /\ pc' \in [Threads -> {"idle", "look", "rmw"}]
             /\ op' \in [Threads -> Ops]
             /\ range' \in [Threads -> Ranges]
             /\ quad' \in [Threads -> 0 .. Quads - 1]
             /\ hit' \in [Threads -> MapBits]
  BY <1>0, <1>r DEF Return, Ops
<1>1. ASSUME NEW t \in Threads, NEW o \in Ops, NEW r \in Ranges, Call(t, o, r)
      PROVE  TypeOK'
  <2>1. QuadOf(r[1]) \in 0 .. Quads - 1
    BY <1>1, RangesAssumption, QuadOfIndex DEF Call
  <2>2. steady' \in [Threads -> SUBSET MapBits]
    BY <1>1 DEF Call, InRange
  <2> QED BY <1>1, <2>1, <2>2 DEF Call
<1>2. ASSUME NEW t \in Threads, LookOn(t) PROVE TypeOK'
  <2>1. quad[t] + 1 \in 0 .. Quads - 1
    BY <1>2 DEF LookOn
  <2> QED BY <1>2, <2>1 DEF LookOn
<1>3. ASSUME NEW t \in Threads, LookFail(t) PROVE TypeOK'
  BY <1>3, <1>r DEF LookFail
<1>4. ASSUME NEW t \in Threads, LookHit(t) PROVE TypeOK'
  BY <1>4, HitInMap DEF LookHit
<1>5. ASSUME NEW t \in Threads, Rmw(t) PROVE TypeOK'
  <2>1. bits' \subseteq MapBits
    BY <1>5 DEF Rmw
  <2>2. steady' \in [Threads -> SUBSET MapBits]
    BY <1>5, <1>k, <2>1 DEF Rmw
  <2>3. owned' \in [Threads -> SUBSET MapBits]
    BY <1>5 DEF Rmw
  <2> QED BY <1>5, <1>r, <2>1, <2>2, <2>3 DEF Rmw
<1>6. ASSUME NEW t \in Threads, NEW i \in MapBits, SigOff(t, i) \/ SigOn(t, i)
      PROVE  TypeOK'
  <2>1. bits' \subseteq MapBits
    BY <1>6 DEF SigOff, SigOn
  <2>2. steady' \in [Threads -> SUBSET MapBits]
    BY <1>6, <1>k, <2>1 DEF SigOff, SigOn
  <2> QED BY <1>6, <2>1, <2>2 DEF SigOff, SigOn
<1>7. CASE UNCHANGED vars
  BY <1>7 DEF vars
<1> QED BY <1>1, <1>2, <1>3, <1>4, <1>5, <1>6, <1>7 DEF Next, Step

\* TypeOK is an invariant: above all, a search never indexes a word past the
\* map and never settles on a bit the map does not have.
THEOREM TypeCorrect == Spec => []TypeOK
BY TypeInit, TypeStep, PTL DEF Spec

-----------------------------------------------------------------------------
(* The walk over the quads *)

\* What a search of sync_map_sig_first that is under way has already ruled out:
\* the bits it still has to find are clear and lie in quads not yet passed.
WalkInv ==
    \A t \in Threads :
        (pc[t] = "look" /\ op[t] = "sig") =>
            /\ steady[t] \subseteq InRange(range[t]) \ bits
            /\ \A i \in steady[t] : quad[t] * QuadBits <= i

\* WalkInv is what HitIsFirst lacks to be inductive.
SearchInv == TypeOK /\ WalkInv /\ HitIsFirst

\* What the walk invariant says of one bit that a search still has to find.
LEMMA SteadyBit ==
    ASSUME TypeOK, WalkInv, NEW t \in Threads, pc[t] = "look", op[t] = "sig",
           NEW i \in steady[t]
    PROVE  /\ i \in Nat /\ i \in MapBits /\ i \notin bits
           /\ range[t][1] \in Nat /\ range[t][1] <= i /\ i < range[t][2]
           /\ quad[t] \in Nat /\ quad[t] * QuadBits <= i
           /\ Candidates(t) = SigCandidates(bits, quad[t], range[t][1])
<1>1. i \in InRange(range[t]) \ bits /\ quad[t] * QuadBits <= i
  BY DEF WalkInv
<1>2. MapBits \subseteq Nat
  BY SyncMapAssumption DEF MapBits
<1> QED BY <1>1, <1>2, RangesAssumption, SyncMapAssumption DEF TypeOK, InRange, Candidates

\* A search that gives up has nothing left to find.
LEMMA GivesUpEmpty ==
    ASSUME TypeOK, WalkInv, NEW t \in Threads, pc[t] = "look", op[t] = "sig",
           GivesUp(t)
    PROVE  steady[t] = {}
<1> SUFFICES ASSUME NEW i \in steady[t] PROVE FALSE
  OBVIOUS
<1> DEFINE C == SigCandidates(bits, quad[t], range[t][1])
<1>1. /\ i \in Nat /\ i \in MapBits /\ i \notin bits
      /\ range[t][1] \in Nat /\ range[t][1] <= i /\ i < range[t][2]
      /\ quad[t] \in Nat /\ quad[t] * QuadBits <= i
      /\ Candidates(t) = C
  BY SteadyBit
<1>2. (C = {} => (quad[t] + 1) * QuadBits <= i) /\ (C # {} => Least(C) <= i)
  BY <1>1, SigMissesNothing
<1>3. CASE Passes(C) /\ quad[t] + 1 = Quads
  <2>1. Quads * QuadBits <= i
    BY <1>2, <1>3 DEF Passes
  <2>2. i < Quads * QuadBits
    BY <1>1, SyncMapAssumption DEF MapBits
  <2>3. Quads * QuadBits \in Nat
    BY SyncMapAssumption
  <2> QED BY <1>1, <2>1, <2>2, <2>3
<1>4. CASE OutOfRange(C, range[t][2])
  <2>1. C # {} /\ C \subseteq Nat
    BY <1>1, <1>4, QuadLayout, SyncMapAssumption
       DEF OutOfRange, SigCandidates, MaskFrom, QuadSpan
  <2>2. Least(C) \in Nat
    BY <2>1, LeastProperty
  <2>3. range[t][2] \in Nat
    BY RangesAssumption DEF TypeOK
  <2> QED BY <1>1, <1>2, <1>4, <2>1, <2>2, <2>3 DEF OutOfRange
<1> QED BY <1>1, <1>3, <1>4 DEF GivesUp

\* A step that changes the map from one thread leaves the walks of the others.
LEMMA WalkKept ==
    ASSUME TypeOK, WalkInv, NEW t \in Threads,
           pc'[t] = pc[t], op'[t] = op[t], range'[t] = range[t], quad'[t] = quad[t],
           steady'[t] = KeepSteady(t, bits'),
           pc[t] = "look", op[t] = "sig"
    PROVE  /\ steady'[t] \subseteq InRange(range'[t]) \ bits'
           /\ \A i \in steady'[t] : quad'[t] * QuadBits <= i
BY DEF WalkInv, KeepSteady

LEMMA WalkStep ==
    TypeOK /\ WalkInv /\ [Next]_vars => WalkInv'
<1> SUFFICES ASSUME TypeOK, WalkInv, [Next]_vars, NEW s \in Threads,
                    pc'[s] = "look", op'[s] = "sig"
             PROVE  /\ steady'[s] \subseteq InRange(range'[s]) \ bits'
                    /\ \A i \in steady'[s] : quad'[s] * QuadBits <= i
  BY DEF WalkInv
<1>a. ASSUME UNCHANGED <<pc[s], op[s], range[s], quad[s], steady[s], bits>>
      PROVE  /\ steady'[s] \subseteq InRange(range'[s]) \ bits'
             /\ \A i \in steady'[s] : quad'[s] * QuadBits <= i
  BY <1>a DEF WalkInv
<1>1. ASSUME NEW t \in Threads, NEW o \in Ops, NEW r \in Ranges, Call(t, o, r)
      PROVE  /\ steady'[s] \subseteq InRange(range'[s]) \ bits'
             /\ \A i \in steady'[s] : quad'[s] * QuadBits <= i
  <2>1. CASE s = t
    <3>1. /\ range'[s] = r /\ quad'[s] = QuadOf(r[1]) /\ o = "sig" /\ bits' = bits
          /\ steady'[s] = InRange(r) \ bits
      BY <1>1, <2>1 DEF Call, TypeOK
    <3>2. ASSUME NEW i \in InRange(r) PROVE QuadOf(r[1]) * QuadBits <= i
      <4>1. r[1] \in Nat /\ i \in Nat /\ r[1] <= i
        BY <3>2, RangesAssumption, SyncMapAssumption DEF InRange, MapBits
      <4>2. QuadOf(r[1]) * QuadBits <= r[1] /\ QuadOf(r[1]) * QuadBits \in Nat
        BY <4>1, QuadOfIndex, QuadLayout
      <4> QED BY <4>1, <4>2
    <3> QED BY <3>1, <3>2
  <2>2. CASE s # t
    BY <1>1, <1>a, <2>2 DEF Call, TypeOK
  <2> QED BY <2>1, <2>2
<1>2. ASSUME NEW t \in Threads, LookOn(t)
      PROVE  /\ steady'[s] \subseteq InRange(range'[s]) \ bits'
             /\ \A i \in steady'[s] : quad'[s] * QuadBits <= i
  <2>1. CASE s = t
    <3>1. /\ pc[s] = "look" /\ op[s] = "sig" /\ quad'[s] = quad[s] + 1
          /\ UNCHANGED <<bits, range, steady>>
      BY <1>2, <2>1 DEF LookOn, TypeOK
    <3>2. ASSUME NEW i \in steady[s] PROVE (quad[s] + 1) * QuadBits <= i
      <4>1. Candidates(s) = {}
        BY <1>2, <2>1 DEF LookOn, Passes
      <4> QED BY <3>1, <4>1, SteadyBit, SigMissesNothing
    <3> QED BY <3>1, <3>2 DEF WalkInv
  <2>2. CASE s # t
    BY <1>2, <1>a, <2>2 DEF LookOn, TypeOK
  <2> QED BY <2>1, <2>2
<1>3. ASSUME NEW t \in Threads, LookFail(t)
      PROVE  /\ steady'[s] \subseteq InRange(range'[s]) \ bits'
             /\ \A i \in steady'[s] : quad'[s] * QuadBits <= i
  BY <1>3, <1>a DEF LookFail, Return, TypeOK
<1>4. ASSUME NEW t \in Threads, LookHit(t)
      PROVE  /\ steady'[s] \subseteq InRange(range'[s]) \ bits'
             /\ \A i \in steady'[s] : quad'[s] * QuadBits <= i
  BY <1>4, <1>a DEF LookHit, TypeOK
<1>5. ASSUME NEW t \in Threads, Rmw(t)
      PROVE  /\ steady'[s] \subseteq InRange(range'[s]) \ bits'
             /\ \A i \in steady'[s] : quad'[s] * QuadBits <= i
  <2>1. s # t
    BY <1>5 DEF Rmw, Return, TypeOK
  <2>2. /\ UNCHANGED <<pc[s], op[s], range[s], quad[s]>>
        /\ steady'[s] = KeepSteady(s, bits')
    BY <1>5, <2>1 DEF Rmw, Return, TypeOK
  <2> QED BY <2>2, WalkKept
<1>6. ASSUME NEW t \in Threads, NEW j \in MapBits, SigOff(t, j) \/ SigOn(t, j)
      PROVE  /\ steady'[s] \subseteq InRange(range'[s]) \ bits'
             /\ \A i \in steady'[s] : quad'[s] * QuadBits <= i
  <2>1. /\ UNCHANGED <<pc[s], op[s], range[s], quad[s]>>
        /\ steady'[s] = KeepSteady(s, bits')
    BY <1>6 DEF SigOff, SigOn, TypeOK
  <2> QED BY <2>1, WalkKept
<1>7. CASE UNCHANGED vars
  BY <1>7, <1>a DEF vars
<1> QED BY <1>1, <1>2, <1>3, <1>4, <1>5, <1>6, <1>7 DEF Next, Step

LEMMA FirstStep ==
    SearchInv /\ [Next]_vars => HitIsFirst'
<1> SUFFICES ASSUME TypeOK, WalkInv, HitIsFirst, [Next]_vars, NEW s \in Threads,
                    pc'[s] = "rmw"
             PROVE  /\ range'[s][1] <= hit'[s] /\ hit'[s] < range'[s][2]
                    /\ \A i \in steady'[s] : op'[s] = "sig" => i >= hit'[s]
  BY DEF HitIsFirst, SearchInv
<1>a. ASSUME UNCHANGED <<pc[s], op[s], range[s], hit[s], steady[s]>>
      PROVE  /\ range'[s][1] <= hit'[s] /\ hit'[s] < range'[s][2]
             /\ \A i \in steady'[s] : op'[s] = "sig" => i >= hit'[s]
  BY <1>a DEF HitIsFirst
<1>1. ASSUME NEW t \in Threads, LookHit(t)
      PROVE  /\ range'[s][1] <= hit'[s] /\ hit'[s] < range'[s][2]
             /\ \A i \in steady'[s] : op'[s] = "sig" => i >= hit'[s]
  <2>1. CASE s = t
    <3>1. /\ UNCHANGED <<op, range, steady>> /\ hit'[s] = Least(Candidates(s))
          /\ pc[s] = "look" /\ Hits(Candidates(s), range[s][2])
      BY <1>1, <2>1 DEF LookHit, TypeOK
    <3>2. /\ Least(Candidates(s)) \in MapBits
          /\ range[s][1] <= hit'[s] /\ hit'[s] < range[s][2]
      BY <3>1, HitInMap
    <3>3. ASSUME NEW i \in steady[s], op[s] = "sig" PROVE i >= Least(Candidates(s))
      <4>1. Candidates(s) # {}
        BY <3>1 DEF Hits
      <4>2. Least(Candidates(s)) <= i
        BY <3>1, <3>3, <4>1, SteadyBit, SigMissesNothing
      <4> QED BY <4>2
    <3> QED BY <3>1, <3>2, <3>3
  <2>2. CASE s # t
    BY <1>1, <1>a, <2>2 DEF LookHit, TypeOK
  <2> QED BY <2>1, <2>2
<1>2. ASSUME NEW t \in Threads,
             \/ \E o \in Ops, r \in Ranges : Call(t, o, r)
             \/ LookOn(t) \/ LookFail(t)
      PROVE  UNCHANGED <<pc[s], op[s], range[s], hit[s], steady[s]>>
  BY <1>2 DEF Call, LookOn, LookFail, Return, TypeOK
<1>3. ASSUME NEW t \in Threads,
             Rmw(t) \/ \E j \in MapBits : SigOff(t, j) \/ SigOn(t, j)
      PROVE  UNCHANGED <<pc[s], op[s], range[s], hit[s], steady[s]>>
  BY <1>3 DEF Rmw, Return, SigOff, SigOn, TypeOK, KeepSteady
<1>4. CASE UNCHANGED vars
  BY <1>4, <1>a DEF vars
<1> QED BY <1>a, <1>1, <1>2, <1>3, <1>4 DEF Next, Step

LEMMA SearchInvHolds == Spec => []SearchInv
<1>1. Init => SearchInv
  <2> SUFFICES ASSUME Init PROVE WalkInv /\ HitIsFirst
    BY TypeInit DEF SearchInv
  <2> QED BY DEF Init, WalkInv, HitIsFirst
<1>2. SearchInv /\ [Next]_vars => SearchInv'
  BY TypeStep, WalkStep, FirstStep DEF SearchInv
<1> QED BY <1>1, <1>2, PTL DEF Spec

\* "first": the index a search settles on lies in its range, and no lower index
\* of the range was clear during the whole call, however many threads signal
\* bits on and off in the quads it has passed.
THEOREM HitIsFirstHolds == Spec => []HitIsFirst
BY SearchInvHolds, PTL DEF SearchInv

\* sync_map_sig_first returns false under concurrency only if no bit of its
\* range was clear from the call to the return.
THEOREM SigFailsOnlyWhenFullHolds == Spec => SigFailsOnlyWhenFull
<1>1. SearchInv => \A t \in Threads : (op[t] = "sig" /\ LookFail(t)) => steady[t] = {}
  BY GivesUpEmpty DEF SearchInv, LookFail
<1>2. SearchInv =>
        [\A t \in Threads : (op[t] = "sig" /\ LookFail(t)) => steady[t] = {}]_vars
  BY <1>1
<1> QED BY <1>2, SearchInvHolds, PTL DEF SigFailsOnlyWhenFull

-----------------------------------------------------------------------------
(* A search on a map nobody else touches *)

\* SigFirst is the least clear index of the range, or nothing, for every
\* content of the map and every range.
LEMMA SigFirstIsLeast ==
    ASSUME NEW B, NEW from \in Nat, NEW to \in Nat
    PROVE  LET free == InRange(<<from, to>>) \ B
           IN  SigFirst(B, from, to) = IF free = {} THEN {} ELSE {Least(free)}
<1> USE SyncMapAssumption
<1> DEFINE free == InRange(<<from, to>>) \ B
           Cand(q) == SigCandidates(B, q, from)
           live == {q \in QuadOf(from) .. Quads - 1 : Cand(q) # {}}
           C == Cand(Least(live))
<1>0. SigFirst(B, from, to) =
        IF live = {} THEN {} ELSE IF Hits(C, to) THEN {Least(C)} ELSE {}
  BY DEF SigFirst, Search
<1>1. QuadOf(from) \in Nat /\ QuadOf(from) * QuadBits <= from
  BY QuadOfIndex
<1>2. free \subseteq Nat /\ live \subseteq Nat
  BY <1>1 DEF InRange, MapBits
<1>3. ASSUME NEW i \in free
      PROVE  QuadOf(i) \in live /\ i \in Cand(QuadOf(i))
  <2>1. i \in Nat /\ i < QuadBits * Quads /\ from <= i /\ i < to /\ i \notin B
    BY <1>3 DEF InRange, MapBits
  <2>2. QuadOf(i) \in Nat /\ QuadOf(i) * QuadBits <= i /\ i < (QuadOf(i) + 1) * QuadBits
    BY <2>1, QuadOfIndex
  <2>3. QuadOf(i) * QuadBits \in Nat /\ (QuadOf(i) + 1) * QuadBits = QuadOf(i) * QuadBits + QuadBits
    BY <2>2, QuadLayout
  <2>4. i \in Cand(QuadOf(i))
    BY <2>1, <2>2, <2>3 DEF SigCandidates, MaskFrom, QuadSpan
  <2>5. QuadOf(i) < Quads
    BY <2>1 DEF QuadOf
  <2>6. QuadOf(from) <= QuadOf(i)
    BY <2>1 DEF QuadOf
  <2> QED BY <1>1, <2>2, <2>4, <2>5, <2>6
<1>4. CASE live = {}
  BY <1>0, <1>3, <1>4
<1>5. CASE live # {}
  <2>1. Least(live) \in live /\ \A q \in live : Least(live) <= q
    BY <1>2, <1>5, LeastProperty
  <2> DEFINE m == Least(live)
  <2>2. m \in Nat /\ m < Quads /\ C # {}
    <3>1. \A q \in live : q \in Nat /\ q < Quads /\ Cand(q) # {}
      BY <1>1
    <3> HIDE DEF live, Cand
    <3> QED BY <2>1, <3>1
  <2> HIDE DEF m, live
  <2>3. m * QuadBits \in Nat /\ (m + 1) * QuadBits = m * QuadBits + QuadBits
        /\ (m + 1) * QuadBits <= QuadBits * Quads /\ QuadBits * Quads \in Nat
    BY <2>2, QuadLayout
  <2>4. \A j \in C : j \in MapBits /\ j \in Nat /\ from <= j /\ j \notin B
    BY <2>2, <2>3 DEF SigCandidates, MaskFrom, QuadSpan, MapBits, m
  <2>5. Least(C) \in C /\ \A j \in C : Least(C) <= j
    BY <2>2, <2>4, LeastProperty
  <2>6. \A i \in free : Least(C) <= i
    <3> SUFFICES ASSUME NEW i \in free PROVE Least(C) <= i
      OBVIOUS
    <3>1. i \in Nat /\ from <= i /\ i \notin B
      BY <1>2 DEF InRange
    <3>2. m * QuadBits <= i
      <4>1. m <= QuadOf(i)
        BY <1>3, <2>1 DEF m
      <4>2. QuadOf(i) \in Nat /\ QuadOf(i) * QuadBits <= i
        BY <3>1, QuadOfIndex
      <4>3. m * QuadBits <= QuadOf(i) * QuadBits
        BY <2>2, <4>1, <4>2
      <4>4. QuadOf(i) * QuadBits \in Nat
        BY <4>2
      <4> QED BY <2>3, <3>1, <4>2, <4>3, <4>4
    <3> QED BY <2>2, <3>1, <3>2, SigMissesNothing DEF m
  <2>7. CASE Least(C) < to
    <3>1. Least(C) \in free
      BY <2>4, <2>5, <2>7 DEF InRange
    <3>2. Least(free) = Least(C)
      <4>1. Least(free) \in free /\ \A j \in free : Least(free) <= j
        BY <1>2, <3>1, LeastProperty
      <4>2. Least(free) <= Least(C) /\ Least(C) <= Least(free)
        BY <2>6, <3>1, <4>1
      <4> QED BY <1>2, <3>1, <4>1, <4>2
    <3> QED BY <1>0, <1>5, <2>2, <2>7, <3>1, <3>2 DEF Hits
  <2>8. CASE ~ (Least(C) < to)
    <3>1. free = {}
      <4> SUFFICES ASSUME NEW i \in free PROVE FALSE
        OBVIOUS
      <4>1. i \in Nat /\ i < to
        BY <1>2 DEF InRange
      <4>2. Least(C) <= i /\ Least(C) \in Nat
        BY <2>4, <2>5, <2>6
      <4> QED BY <2>8, <4>1, <4>2
    <3> QED BY <1>0, <1>5, <2>8, <3>1 DEF Hits
  <2> QED BY <2>7, <2>8
<1> QED BY <1>4, <1>5

\* With nobody else on the map, sync_map_sig_first returns exactly the lowest
\* clear index of its range and fails exactly when the range is full: for every
\* content of the map, and ranges across words and past the end of the map too.
THEOREM SequentialSearchIsLeastHolds == Spec => []SequentialSearchIsLeast
<1>1. SequentialSearchIsLeast
  <2> SUFFICES ASSUME NEW r \in Ranges
               PROVE  LET free == InRange(r) \ bits
                      IN  SigFirst(bits, r[1], r[2]) =
                            IF free = {} THEN {} ELSE {Least(free)}
    BY DEF SequentialSearchIsLeast
  <2>1. r[1] \in Nat /\ r[2] \in Nat
    BY RangesAssumption
  <2>2. InRange(r) = InRange(<<r[1], r[2]>>)
    BY DEF InRange
  <2>3. LET free == InRange(<<r[1], r[2]>>) \ bits
        IN  SigFirst(bits, r[1], r[2]) = IF free = {} THEN {} ELSE {Least(free)}
    BY <2>1, SigFirstIsLeast
  <2> QED BY <2>2, <2>3
<1> QED BY <1>1, PTL
=============================================================================
