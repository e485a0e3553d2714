------------------------------ MODULE Bitpool ------------------------------
(***************************************************************************)
(* The priority queue of the scheduler: pipe/bitpool.c as sched_push and   *)
(* sched_main use it.  A bitpool is an array of buckets, one bit per       *)
(* bucket, four ranges of indices (0 real, 1 high, 2 med, 3 low) and a     *)
(* counter of loaded buckets per range, the presence.                      *)
(*                                                                         *)
(* Any number of producers run bitpool_prior_load; one consumer, the       *)
(* scheduler thread, runs bitpool_presence_any, bitpool_prior_unload_disp, *)
(* reads the bucket and runs bitpool_prior_unload.  Every action is one    *)
(* atomic access to the shared bitpool.  The bitpool has one word of bits  *)
(* (sched_create asks for 64 buckets), so a search is one load.            *)
(***************************************************************************)
EXTENDS Pipe

CONSTANTS
    Producers,      \* threads that call sched_push
    ClassOf,        \* the range a payload's priority maps to
    Perc            \* bitpool_perc_desc: per cent of the buckets per range

Classes == 0 .. 3

-----------------------------------------------------------------------------
(* bitpool_range_populate *)

BucketCount == QuadBits * Quads

\* round(perc / 100 * n); with n a multiple of 64 no product ends in .5.
BitN(i) == (2 * Perc[i] * BucketCount + 100) \div 200

\* Ranges are handed out from the top of the map downwards.
BitI(i) ==
    CASE i = 0 -> BucketCount - BitN(0)
      [] i = 1 -> BucketCount - BitN(0) - BitN(1)
      [] i = 2 -> BucketCount - BitN(0) - BitN(1) - BitN(2)
      [] i = 3 -> BucketCount - BitN(0) - BitN(1) - BitN(2) - BitN(3)

\* Disposition: buckets of range i to unload per bucket of the low range.
BitDisp(i) == IF i = 3 THEN 1 ELSE BitN(3) \div BitN(i)

RangeEnd(i) == BitI(i) + BitN(i)
RangeOf(i) == BitI(i) .. RangeEnd(i) - 1

\* What the presets with four nonempty ranges have: bitpool_range_populate
\* accepts them, and rounding does not hand out more buckets than there are.
ASSUME BitpoolAssumption ==
    /\ Quads = 1
    /\ IsFiniteSet(Producers)
    /\ ClassOf \in [Payloads -> Classes]
    /\ Perc \in [Classes -> 0 .. 100]
    /\ \A i \in Classes : Perc[i] <= Perc[3]
    /\ \A i \in Classes : BitN(i) > 0
    /\ BitN(0) + BitN(1) + BitN(2) + BitN(3) <= BucketCount

\* Wrong form: the first index of a range is not counted to it.
IndexToPresenceAbove(index) ==
    Least({i \in Classes : BitN(i) > 0 /\ index > BitI(i)} \cup {3})

\* _bitpool_index_to_presence: the first range that starts at or below index.
IndexToPresence(index) ==
    Least({i \in Classes : BitN(i) > 0 /\ index >= BitI(i)})
-----------------------------------------------------------------------------
VARIABLES
    bits,           \* smap_desc: bit set for a bucket
    bucket,         \* the bucket array
    presence,       \* presence[4]
    ppc, pload, pidx,   \* producers: program counter, payload, index
    pushed,         \* payloads whose push has begun
    cpc,            \* the scheduler thread's program counter in the queue
    crange,         \* i: the range bitpool_prior_unload_disp looks at
    cidx,           \* res.bucket_i
    cload           \* the payload it read from the bucket

prodVars == <<ppc, pload, pidx, pushed>>
consVars == <<cpc, crange, cidx, cload>>
queueVars == <<bits, bucket, presence, prodVars, consVars>>

ProducerPCs == {"idle", "find", "claim", "copy", "count"}
ConsumerPCs == {"top", "any", "scan", "unsig", "clear", "read", "held", "free", "discount"}

QueueTypeOK ==
    /\ bits \subseteq MapBits
    /\ bucket \in [MapBits -> Payloads \cup {NoPayload}]
    /\ presence \in [Classes -> Nat]
    /\ ppc \in [Producers -> ProducerPCs]
    /\ pload \in [Producers -> Payloads \cup {NoPayload}]
    /\ pidx \in [Producers -> MapBits]
    /\ pushed \subseteq Payloads
    /\ cpc \in ConsumerPCs
    /\ crange \in Classes
    /\ cidx \in MapBits
    /\ cload \in Payloads \cup {NoPayload}

QueueInit ==
    /\ bits = {}
    /\ bucket = [i \in MapBits |-> NoPayload]
    /\ presence = [i \in Classes |-> 0]
    /\ ppc = [p \in Producers |-> "idle"]
    /\ pload = [p \in Producers |-> NoPayload]
    /\ pidx = [p \in Producers |-> 0]
    /\ pushed = {}
    /\ cpc = "top"
    /\ crange = 0
    /\ cidx = 0
    /\ cload = NoPayload
-----------------------------------------------------------------------------
(* bitpool_prior_load, run by producer p *)

Go(p, from, to) == ppc[p] = from /\ ppc' = [ppc EXCEPT ![p] = to]

\* sched_push is called; a range without buckets is refused (AX_INV_DATA).
Push(p, x) ==
    /\ x \notin pushed
    /\ BitN(ClassOf[x]) > 0
    /\ Go(p, "idle", "find")
    /\ pload' = [pload EXCEPT ![p] = x]
    /\ pushed' = pushed \cup {x}
    /\ UNCHANGED <<bits, bucket, presence, pidx, consVars>>

\* The load of sync_map_sig_first over the range; a full range is retried, so
\* that the action has no step then.
FindBit(p) ==
    LET i == ClassOf[pload[p]]
        C == SigCandidates(bits, 0, BitI(i))
    IN  /\ Go(p, "find", "claim")
        /\ Hits(C, RangeEnd(i))
        /\ pidx' = [pidx EXCEPT ![p] = Least(C)]
        /\ UNCHANGED <<bits, bucket, presence, pload, pushed, consVars>>

\* Wrong form: the payload is counted before it is loaded.
ClaimBitCounts(p) ==
    /\ Go(p, "claim", "copy")
    /\ bits' = bits \cup {pidx[p]}
    /\ presence' = [presence EXCEPT ![ClassOf[pload[p]]] = @ + 1]
    /\ UNCHANGED <<bucket, pload, pidx, pushed, consVars>>

\* Its atomic_fetch_or, which does not look at the old value.
ClaimBit(p) ==
    /\ Go(p, "claim", "copy")
    /\ bits' = bits \cup {pidx[p]}
    /\ UNCHANGED <<bucket, presence, pload, pidx, pushed, consVars>>

\* Wrong form: the bucket is addressed by the index within the range.
CopyPayloadRelative(p) ==
    /\ Go(p, "copy", "count")
    /\ bucket' = [bucket EXCEPT ![pidx[p] - BitI(ClassOf[pload[p]])] = pload[p]]
    /\ UNCHANGED <<bits, presence, pload, pidx, pushed, consVars>>

\* qload: one 64-byte store into the bucket.
CopyPayload(p) ==
    /\ Go(p, "copy", "count")
    /\ bucket' = [bucket EXCEPT ![pidx[p]] = pload[p]]
    /\ UNCHANGED <<bits, presence, pload, pidx, pushed, consVars>>

\* presence[_bitpool_prior_to_presence(prior)] += 1, and sched_push returns.
CountPresence(p) ==
    /\ Go(p, "count", "idle")
    /\ presence' = [presence EXCEPT ![ClassOf[pload[p]]] = @ + 1]
    /\ pload' = [pload EXCEPT ![p] = NoPayload]
    /\ pidx' = [pidx EXCEPT ![p] = 0]
    /\ UNCHANGED <<bits, bucket, pushed, consVars>>

ProducerStep(p) ==
    FindBit(p) \/ ClaimBit(p) \/ CopyPayload(p) \/ CountPresence(p)
-----------------------------------------------------------------------------
(* The queue side of one turn of sched_main *)

CGo(from, to) == cpc = from /\ cpc' = to

\* The scheduler is not closed: another turn of its loop.
Turn ==
    /\ CGo("top", "any")
    /\ UNCHANGED <<bits, bucket, presence, prodVars, crange, cidx, cload>>

\* bitpool_presence_any: one 16-byte load of the four counters.
PresenceNone ==
    /\ CGo("any", "top")
    /\ \A i \in Classes : presence[i] = 0
    /\ UNCHANGED <<bits, bucket, presence, prodVars, crange, cidx, cload>>

\* Wrong form: the queue is taken for nonempty.
PresenceAnyUnchecked ==
    /\ CGo("any", "scan")
    /\ crange' = 0
    /\ UNCHANGED <<bits, bucket, presence, prodVars, cidx, cload>>

PresenceAny ==
    /\ CGo("any", "scan")
    /\ \E i \in Classes : presence[i] > 0
    /\ crange' = 0
    /\ UNCHANGED <<bits, bucket, presence, prodVars, cidx, cload>>

\* All vrows are taken: continue, before the queue is looked at.
VrowsTaken ==
    /\ CGo("scan", "top") /\ crange = 0
    /\ UNCHANGED <<bits, bucket, presence, prodVars, crange, cidx, cload>>

\* bitpool_prior_unload_disp, the loop over ranges 0..2, one load per turn.
\* disp_presence is only ever reset, so it is zero at each comparison.
ScanStops == presence[crange] > 0 /\ 0 < BitDisp(crange)

\* Wrong forms: presence is compared with the disposition, up to i <= 3; the
\* loop ends before i = 2.
ScanRangeLong ==
    /\ cpc = "scan"
    /\ IF crange <= 3 /\ presence[crange] <= BitDisp(crange)
       THEN crange' = crange + 1 /\ UNCHANGED cpc
       ELSE cpc' = "unsig" /\ UNCHANGED crange
    /\ UNCHANGED <<bits, bucket, presence, prodVars, cidx, cload>>
ScanRangeShort ==
    /\ cpc = "scan"
    /\ IF crange < 2 /\ ~ScanStops
       THEN crange' = crange + 1 /\ UNCHANGED cpc
       ELSE cpc' = "unsig" /\ UNCHANGED crange
    /\ UNCHANGED <<bits, bucket, presence, prodVars, cidx, cload>>

ScanRange ==
    /\ cpc = "scan"
    /\ IF crange < 3 /\ ~ScanStops
       THEN crange' = crange + 1 /\ UNCHANGED cpc
       ELSE cpc' = "unsig" /\ UNCHANGED crange
    /\ UNCHANGED <<bits, bucket, presence, prodVars, cidx, cload>>

\* The load of sync_map_unsig_first over the range chosen.
UnsigSet == UnsigCandidates(bits, 0, BitI(crange))

ChooseBit ==
    /\ CGo("unsig", "clear")
    /\ Hits(UnsigSet, RangeEnd(crange))
    /\ cidx' = Least(UnsigSet)
    /\ UNCHANGED <<bits, bucket, presence, prodVars, crange, cload>>

\* It found no bit: the turn ends (sched_main gives its vrow back).
ChooseFails ==
    /\ CGo("unsig", "top")
    /\ ~Hits(UnsigSet, RangeEnd(crange))
    /\ crange' = 0
    /\ UNCHANGED <<bits, bucket, presence, prodVars, cidx, cload>>

\* Wrong form: the bit chosen is not cleared.
ClearBitNot ==
    /\ CGo("clear", "read")
    /\ UNCHANGED <<bits, bucket, presence, prodVars, crange, cidx, cload>>

\* Its atomic_fetch_and.
ClearBit ==
    /\ CGo("clear", "read")
    /\ bits' = bits \ {cidx}
    /\ UNCHANGED <<bucket, presence, prodVars, crange, cidx, cload>>

\* sched_pop passes the bucket by value to vrow_bank_load.
ReadBucket ==
    /\ CGo("read", "held")
    /\ cload' = bucket[cidx]
    /\ UNCHANGED <<bits, bucket, presence, prodVars, crange, cidx>>

\* vrow_bank_load has returned.
Loaded ==
    /\ CGo("held", "free")
    /\ UNCHANGED <<bits, bucket, presence, prodVars, crange, cidx, cload>>

\* bitpool_prior_unload: sync_map_sigoff of the index, once more.
FreeBit ==
    /\ CGo("free", "discount")
    /\ bits' = bits \ {cidx}
    /\ UNCHANGED <<bucket, presence, prodVars, crange, cidx, cload>>

\* presence[_bitpool_index_to_presence(index)] -= 1.
DiscountPresence ==
    /\ CGo("discount", "top")
    /\ presence' = [presence EXCEPT ![IndexToPresence(cidx)] = @ - 1]
    /\ crange' = 0 /\ cidx' = 0 /\ cload' = NoPayload
    /\ UNCHANGED <<bits, bucket, prodVars>>

ConsumerStep ==
    \/ Turn \/ PresenceNone \/ PresenceAny \/ VrowsTaken \/ ScanRange \/ ChooseBit \/ ChooseFails \/ ClearBit
    \/ ReadBucket \/ Loaded \/ FreeBit \/ DiscountPresence

QueueNext ==
    \/ \E p \in Producers, x \in Payloads : Push(p, x)
    \/ \E p \in Producers : ProducerStep(p)
    \/ ConsumerStep

QueueFairness ==
    /\ \A p \in Producers : WF_queueVars(ProducerStep(p))
    /\ WF_queueVars(ConsumerStep)

QueueSpec == QueueInit /\ [][QueueNext]_queueVars /\ QueueFairness
-----------------------------------------------------------------------------
(* Properties *)

InPop == cpc \in {"read", "held", "free", "discount"}
Loading(i) == {p \in Producers : ppc[p] \in {"copy", "count"} /\ ClassOf[pload[p]] = i}

SetBits(i) == bits \cap RangeOf(i)
BeingPopped(i) == IF InPop /\ crange = i THEN 1 ELSE 0

\* Payloads of range i whose sched_push has returned.
PushesDone(i) ==
    {x \in pushed : ClassOf[x] = i /\ \A p \in Producers : pload[p] # x}

\* The unsigned counters never wrap: the range that is discounted at the end
\* of a pop still has the payload the turn began with, although the range is
\* chosen by loads made before and found again from the bucket index.
PresenceNeverUnderflows ==
    cpc = "discount" => presence[IndexToPresence(cidx)] > 0

\* The counters count: no range shows more than the pushes that have returned.
PresenceWithinPushes ==
    \A i \in Classes : presence[i] \in 0 .. Cardinality(PushesDone(i))

\* No set bit is forgotten: each one belongs to a payload that is counted or
\* to a push that will count it, so that the scheduler will look for it. (The
\* pop in progress still counts the payload whose bit it has cleared.)
NoForgottenBit ==
    \A i \in Classes :
        Cardinality(SetBits(i)) + BeingPopped(i) <= presence[i] + Cardinality(Loading(i))

\* The bucket a pop reads is of the range it was chosen for, and a push loads
\* a bucket of its payload's own range.
PopsFromItsRange ==
    /\ InPop => IndexToPresence(cidx) = crange
    /\ \A p \in Producers :
          ppc[p] \in {"claim", "copy", "count"} =>
              IndexToPresence(pidx[p]) = ClassOf[pload[p]]

\* bitpool.c:243 "Get the first active payload in range": when the range a turn
\* settled on has set bits, the search finds one of them.
ActivePayloadIsFound ==
    cpc = "unsig" /\ bits \cap RangeOf(crange) # {} =>
        Hits(UnsigSet, RangeEnd(crange))
=============================================================================
