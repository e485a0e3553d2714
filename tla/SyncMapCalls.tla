---------------------------- MODULE SyncMapCalls ----------------------------
(***************************************************************************)
(* Threads calling sync_map_sig_first, sync_map_unsig_first and the        *)
(* sync_map_sigoff / sync_map_sigon macros on one shared map.  A search is *)
(* a loop of atomic loads; the bit a load chose is then set or cleared by  *)
(* a separate atomic read-modify-write whose old value is discarded, so    *)
(* other threads' steps may come in between.                               *)
(***************************************************************************)
EXTENDS SyncMap, FiniteSets

CONSTANTS
    Threads,    \* the threads that use the map
    Ranges,     \* the <<from, to>> pairs passed to the searches
    MaxOwned    \* bound: indices a thread keeps before it stops claiming

ASSUME RangesAssumption ==
    Ranges # {} /\ \A r \in Ranges : r[1] \in Nat /\ r[2] \in Nat

VARIABLES
    bits,       \* sync_map_desc.map: the signaled indices
    pc,         \* where each thread is in its call
    op,         \* the search it is in, "sig" or "unsig"
    range,      \* the <<from, to>> of its call
    quad,       \* from_quad: the quad it looks at
    hit,        \* desi: the index its last load chose
    steady,     \* history: bits of its range that the search has wanted to
                \* find ever since it was called
    owned       \* history: indices a thread was given by sig_first and has
                \* not signaled off yet

vars == <<bits, pc, op, range, quad, hit, steady, owned>>

Ops == {"sig", "unsig"}

NoRange == CHOOSE r \in Ranges : TRUE

InRange(r) == {i \in MapBits : r[1] <= i /\ i < r[2]}

TypeOK ==
    /\ bits \subseteq MapBits
    /\ pc \in [Threads -> {"idle", "look", "rmw"}]
    /\ op \in [Threads -> Ops]
    /\ range \in [Threads -> Ranges]
    /\ quad \in [Threads -> 0 .. Quads - 1]
    /\ hit \in [Threads -> MapBits]
    /\ steady \in [Threads -> SUBSET MapBits]
    /\ owned \in [Threads -> SUBSET MapBits]

\* The word array comes from axmalloc with nothing signaled (sync_map_init).
Init ==
    /\ bits = {}
    /\ pc = [t \in Threads |-> "idle"]
    /\ op = [t \in Threads |-> "sig"]
    /\ range = [t \in Threads |-> NoRange]
    /\ quad = [t \in Threads |-> 0]
    /\ hit = [t \in Threads |-> 0]
    /\ steady = [t \in Threads |-> {}]
    /\ owned = [t \in Threads |-> {}]

\* A bit stays steady for a search as long as no step makes it unwanted.
KeepSteady(t, newBits) ==
    IF pc[t] # "look" THEN steady[t]
    ELSE IF op[t] = "sig" THEN steady[t] \ newBits
    ELSE steady[t] \cap newBits

\* Entry: the bounds check on from_quad, then the first quad. A call that the
\* check refuses returns false at once and changes nothing, a step of stuttering
\* that has no action here.
Call(t, o, r) ==
    /\ pc[t] = "idle"
    /\ QuadOf(r[1]) < Quads
    /\ o = "sig" => Cardinality(owned[t]) < MaxOwned
    /\ range' = [range EXCEPT ![t] = r]
    /\ quad' = [quad EXCEPT ![t] = QuadOf(r[1])]
    /\ pc' = [pc EXCEPT ![t] = "look"]
    /\ op' = [op EXCEPT ![t] = o]
    /\ steady' = [steady EXCEPT ![t] =
                    IF o = "sig" THEN InRange(r) \ bits ELSE InRange(r) \cap bits]
    /\ UNCHANGED <<bits, hit, owned>>

Candidates(t) ==
    IF op[t] = "sig" THEN SigCandidates(bits, quad[t], range[t][1])
                        ELSE UnsigCandidates(bits, quad[t], range[t][1])

\* Wrong forms: the loop runs up to the size; the quad is not incremented.
LookOnPastEnd(t) ==
    /\ pc[t] = "look"
    /\ Passes(Candidates(t)) /\ quad[t] + 1 <= Quads
    /\ quad' = [quad EXCEPT ![t] = @ + 1]
    /\ UNCHANGED <<bits, pc, op, range, hit, steady, owned>>
LookOnStays(t) ==
    /\ pc[t] = "look"
    /\ Passes(Candidates(t)) /\ quad[t] + 1 < Quads
    /\ UNCHANGED vars

\* The load of one quad finds nothing and a quad is left: `while(++from_quad ...)`.
LookOn(t) ==
    /\ pc[t] = "look"
    /\ Passes(Candidates(t)) /\ quad[t] + 1 < Quads
    /\ quad' = [quad EXCEPT ![t] = @ + 1]
    /\ UNCHANGED <<bits, pc, op, range, hit, steady, owned>>

\* Return to the caller; the locals of the call are gone.
Return(t) ==
    /\ pc' = [pc EXCEPT ![t] = "idle"]
    /\ op' = [op EXCEPT ![t] = "sig"]
    /\ range' = [range EXCEPT ![t] = NoRange]
    /\ quad' = [quad EXCEPT ![t] = 0]
    /\ hit' = [hit EXCEPT ![t] = 0]

\* The search returns false: no quad is left, or the bit is past the range.
GivesUp(t) ==
    \/ Passes(Candidates(t)) /\ quad[t] + 1 = Quads
    \/ OutOfRange(Candidates(t), range[t][2])

LookFail(t) ==
    /\ pc[t] = "look"
    /\ GivesUp(t)
    /\ Return(t)
    /\ steady' = [steady EXCEPT ![t] = {}]
    /\ UNCHANGED <<bits, owned>>

\* The load chooses a bit; nothing is reserved yet.
LookHit(t) ==
    /\ pc[t] = "look"
    /\ Hits(Candidates(t), range[t][2])
    /\ hit' = [hit EXCEPT ![t] = Least(Candidates(t))]
    /\ pc' = [pc EXCEPT ![t] = "rmw"]
    /\ UNCHANGED <<bits, op, range, quad, steady, owned>>

\* atomic_fetch_or / atomic_fetch_and of the chosen bit, then return true.
Rmw(t) ==
    /\ pc[t] = "rmw"
    /\ bits' = IF op[t] = "sig" THEN bits \cup {hit[t]} ELSE bits \ {hit[t]}
    /\ owned' = IF op[t] = "sig"
                THEN [owned EXCEPT ![t] = @ \cup {hit[t]}] ELSE owned
    /\ steady' = [s \in Threads |-> IF s = t THEN {} ELSE KeepSteady(s, bits')]
    /\ Return(t)

\* sync_map_sigoff by the thread that was given the bit.
SigOff(t, i) ==
    /\ pc[t] = "idle" /\ i \in owned[t]
    /\ bits' = bits \ {i}
    /\ owned' = [owned EXCEPT ![t] = @ \ {i}]
    /\ steady' = [s \in Threads |-> KeepSteady(s, bits')]
    /\ UNCHANGED <<pc, op, range, quad, hit>>

\* sync_map_sigon by the thread that was given the bit.
SigOn(t, i) ==
    /\ pc[t] = "idle" /\ i \in owned[t]
    /\ bits' = bits \cup {i}
    /\ steady' = [s \in Threads |-> KeepSteady(s, bits')]
    /\ UNCHANGED <<pc, op, range, quad, hit, owned>>

Step(t) ==
    \/ \E o \in Ops, r \in Ranges : Call(t, o, r)
    \/ LookOn(t) \/ LookFail(t) \/ LookHit(t) \/ Rmw(t)
    \/ \E i \in MapBits : SigOff(t, i) \/ SigOn(t, i)

Next == \E t \in Threads : Step(t)

\* A search in progress is not abandoned.
Fairness == \A t \in Threads : WF_vars(LookOn(t) \/ LookFail(t) \/ LookHit(t) \/ Rmw(t))

Spec == Init /\ [][Next]_vars /\ Fairness
-----------------------------------------------------------------------------
(* Properties *)

\* sync_map_sig_first may fail under concurrency only if no bit of its range
\* was clear from the call to the return: a bit that is free all the time is
\* never missed, whatever the other threads do to the quads already visited.
SigFailsOnlyWhenFull ==
    [][\A t \in Threads :
         (op[t] = "sig" /\ LookFail(t)) => steady[t] = {}]_vars

\* The index a search settles on lies in the range asked for, and no lower
\* index of the range was available during the whole call ("first").
HitIsFirst ==
    \A t \in Threads :
        pc[t] = "rmw" =>
            /\ range[t][1] <= hit[t] /\ hit[t] < range[t][2]
            /\ \A i \in steady[t] : op[t] = "sig" => i >= hit[t]

\* Every call returns: the walk over the quads ends although the map changes.
CallsReturn == \A t \in Threads : pc[t] # "idle" ~> pc[t] = "idle"

\* With nobody else on the map, sync_map_sig_first returns exactly the lowest
\* clear index of its range, across word boundaries, and fails exactly when
\* the range is full.
SequentialSearchIsLeast ==
    \A r \in Ranges :
        LET free == InRange(r) \ bits
        IN  SigFirst(bits, r[1], r[2]) = IF free = {} THEN {} ELSE {Least(free)}
=============================================================================
