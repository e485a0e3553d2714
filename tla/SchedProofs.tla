----------------------------- MODULE SchedProofs -----------------------------
(***************************************************************************)
(* Proofs about the composed scheduler: it is a queue and a set of vrows   *)
(* working side by side, so that what is proved of each holds of it, its   *)
(* deletion leaves no thread behind, and clients that space their pushes   *)
(* have each payload processed once.                                       *)
(***************************************************************************)
EXTENDS Sched, BitpoolProofs, VrowProofs

-----------------------------------------------------------------------------
(* The parts *)

\* Each step is a step of the queue, or leaves it alone.
LEMMA QueueStep == [SchedNext]_schedVars => [QueueNext]_queueVars
<1> SUFFICES ASSUME [SchedNext]_schedVars PROVE [QueueNext]_queueVars
  OBVIOUS
<1>1. CASE UNCHANGED schedVars
  BY <1>1 DEF schedVars
<1>2. ASSUME NEW p \in Producers, NEW x \in Payloads, PushBegins(p, x)
      PROVE  QueueNext
  BY <1>2 DEF PushBegins, QueueNext
<1>3. ASSUME NEW p \in Producers, PushGoesOn(p) PROVE QueueNext
  BY <1>3 DEF PushGoesOn, QueueNext
<1>4. ASSUME NEW v \in Vrows, VrowGoesOn(v) PROVE UNCHANGED queueVars
  BY <1>4 DEF VrowGoesOn
<1>5. CASE OwnerGoesOn
  BY <1>5 DEF OwnerGoesOn
<1>6. CASE MainGoesOn
  <2>1. ConsumerStep \/ UNCHANGED queueVars
    BY <1>6
    DEF MainGoesOn, LoopBegins, CheckPresence, ReserveVrow, ChooseBucket, Reverse, Pop,
        QueueOnly, VrowOnly, ConsumerStep
  <2> QED BY <2>1 DEF QueueNext
<1> QED BY <1>1, <1>2, <1>3, <1>4, <1>5, <1>6 DEF SchedNext

\* Each step is a step of the vrows, their loader or their owner, or leaves
\* them alone: a bucket holds something a vrow may be loaded with.
LEMMA VrowStep ==
    QueueTypeOK /\ [SchedNext]_schedVars => [VrowNext]_vrowVars
<1> SUFFICES ASSUME QueueTypeOK, [SchedNext]_schedVars PROVE [VrowNext]_vrowVars
  OBVIOUS
<1>1. CASE UNCHANGED schedVars
  BY <1>1 DEF schedVars
<1>2. ASSUME NEW p \in Producers, NEW x \in Payloads, PushBegins(p, x)
      PROVE  UNCHANGED vrowVars
  BY <1>2 DEF PushBegins
<1>3. ASSUME NEW p \in Producers, PushGoesOn(p) PROVE UNCHANGED vrowVars
  BY <1>3 DEF PushGoesOn
<1>4. ASSUME NEW v \in Vrows, VrowGoesOn(v) PROVE VrowNext
  BY <1>4 DEF VrowGoesOn, VrowNext
<1>5. CASE OwnerGoesOn
  BY <1>5 DEF OwnerGoesOn, VrowNext
<1>6. CASE MainGoesOn
  <2>1. CASE ReadBucket /\ BeginLoad(bucket[cidx])
    <3>1. BeginLoad(bucket[cidx]) /\ bucket[cidx] \in Loads
      BY <2>1, SchedAssumption DEF QueueTypeOK
    <3> QED BY <3>1 DEF LoaderStep, VrowNext
  <2> QED
    BY <1>6, <2>1
    DEF MainGoesOn, LoopBegins, CheckPresence, ReserveVrow, ChooseBucket, Reverse, Pop,
        QueueOnly, VrowOnly, LoaderStep, VrowNext
<1> QED BY <1>1, <1>2, <1>3, <1>4, <1>5, <1>6 DEF SchedNext

\* The composed system uses the queue as module Bitpool says.
THEOREM QueueAloneHolds == SchedSpec => QueueAlone
<1>1. SchedInit => QueueInit
  BY DEF SchedInit
<1> QED BY <1>1, QueueStep, PTL DEF SchedSpec, QueueAlone

\* What is inductive in the queue alone holds of the composed system.
LEMMA QueueInvHolds == SchedSpec => []QueueInv
<1> QED BY QueueAloneHolds, QueueInvInit, QueueInvStep, PTL DEF QueueAlone

\* The composed system uses the vrows as module Vrow says.
THEOREM VrowsAloneHolds == SchedSpec => VrowsAlone
<1>1. SchedInit => VrowInit
  BY DEF SchedInit
<1>2. QueueInv => QueueTypeOK
  BY DEF QueueInv
<1> QED BY <1>1, <1>2, QueueInvHolds, VrowStep, PTL DEF SchedSpec, VrowsAlone

\* What is inductive in the vrows alone holds of the composed system.
LEMMA WorkInvHolds == SchedSpec => []WorkInv
<1> QED BY VrowsAloneHolds, WorkInvInit, WorkInvStep, PTL DEF VrowsAlone

LEMMA NoForgottenBitToo == SchedSpec => []NoForgottenBit
<1> QED
  BY QueueAloneHolds, QueueInvInit, QueueInvStep, NoForgottenBitInit, NoForgottenBitStep,
     PTL DEF QueueAlone

LEMMA CountInvHolds == SchedSpec => []CountInv
<1> QED BY QueueAloneHolds, CountInvInit, PresenceWithinPushesStep, PTL DEF QueueAlone

\* The safety of the parts holds of the whole scheduler: no counter of the
\* queue wraps or runs ahead of the pushes, no set bit is forgotten, no vrow is
\* loaded while it works, none is used after it is freed, and its status byte is
\* not empty while its thread runs.
THEOREM PartsHold ==
    SchedSpec => [](/\ PresenceNeverUnderflows /\ PopsFromItsRange /\ NoForgottenBit
                    /\ PresenceWithinPushes
                    /\ RunningIsNotEmpty /\ NoUseAfterFree /\ BankZeroExclusive
                    /\ BusyIsTaken /\ OneJobAtATime /\ LoadSpinsOnlyOnFailure)
<1>1. QueueInv => PresenceNeverUnderflows /\ PopsFromItsRange
  BY QueueInvGives
<1>2. WorkInv => StateInv
  BY DEF WorkInv
<1>3. CountInv => PresenceWithinPushes
  BY DEF CountInv
<1> QED
  BY <1>1, <1>2, <1>3, StateInvGives, WorkInvGives, QueueInvHolds, WorkInvHolds,
     CountInvHolds, NoForgottenBitToo, PTL

\* The vrows of the composed scheduler take the steps of the worker pool: what
\* sched_main believes of them when it hands out the next payload is so.
THEOREM SchedVrowsArePool ==
    SchedSpec => Pool!PoolInit /\ [][Pool!PoolNext]_(Pool!poolVars)
<1> QED
  BY VrowsAloneHolds, PoolStart, PoolInvInit, PoolInvStep, PoolStepOfVrows, PTL DEF VrowsAlone

-----------------------------------------------------------------------------
(* Deletion *)

\* Where the two halves of the scheduler thread can be together.
MainInv ==
    <<lpc, cpc>> \in ({"none", "stop"} \X {"top"})
                 \cup ({"top"} \X {"top", "free", "discount"})
                 \cup ({"find"} \X {"any", "scan"})
                 \cup ({"or"} \X {"scan"})
                 \cup ({"held"} \X {"top", "scan", "unsig", "clear", "read"})
                 \cup ({"wait", "store", "fill"} \X {"held"})

\* The scheduler thread starts last, pushes happen while it is open only, and the vrows are freed in
\* the order of their indices.
EndInv ==
    /\ opc = "create" => lpc = "none"
    /\ opc # "run" => \A p \in Producers : ppc[p] = "idle"
    /\ opc \in {"close", "drain"} => 0 .. oidx - 1 \subseteq freed
    /\ opc = "done" => Vrows \subseteq freed

RunsInv == runs \in [Payloads -> Nat]

WholeInv == MainInv /\ EndInv /\ RunsInv

LEMMA WholeInvInit == SchedInit => WholeInv
BY VrowAssumption
DEF SchedInit, QueueInit, VrowInit, WholeInv, MainInv, EndInv, RunsInv

\* Pushes, vrow threads and the owner.
LEMMA OthersKeep ==
    ASSUME QueueTypeOK, VrowTypeOK, WholeInv, SchedNext, ~ MainGoesOn
    PROVE  WholeInv'
<1> USE VrowAssumption DEF QueueTypeOK, VrowTypeOK, WholeInv, MainInv, EndInv, RunsInv
<1>1. ASSUME NEW p \in Producers, NEW x \in Payloads, PushBegins(p, x)
      PROVE  WholeInv'
  BY <1>1 DEF PushBegins, Push, Go, consVars, vrowVars
<1>2. ASSUME NEW p \in Producers, PushGoesOn(p) PROVE WholeInv'
  BY <1>2
  DEF PushGoesOn, ProducerStep, FindBit, ClaimBit, CopyPayload, CountPresence, Go,
      consVars, vrowVars
<1>3. ASSUME NEW v \in Vrows, VrowGoesOn(v) PROVE WholeInv'
  <2>1. UNCHANGED <<lpc, lidx, lload, opc, oidx, freed>>
    BY <1>3
    DEF VrowGoesOn, ThreadStep, Start, LoopTest, Poll, ToggleStep, CopyStep,
        SignalBusy, Bank0, FailOff, FinishOff, FlushBanks, FlushStates, CopyBank,
        loadVars, ownVars
  <2> QED BY <1>3, <2>1 DEF VrowGoesOn, queueVars, consVars, prodVars
<1>4. CASE OwnerGoesOn
  <2> USE <1>4 DEF OwnerGoesOn, queueVars, consVars, prodVars, OGo, loadVars, Vrows
  <2>1. CASE CreateVrow
    BY <2>1 DEF CreateVrow
  <2>5. CASE CreateFails
    <3>1. oidx' = 0 /\ 0 .. oidx' - 1 = {}
      BY <2>5 DEF CreateFails
    <3> QED BY <2>5, <3>1 DEF CreateFails
  <2>6. CASE StartLoader
    BY <2>6 DEF StartLoader
  <2>2. CASE CloseSched \/ CloseVrow
    BY <2>2 DEF CloseSched, CloseVrow
  <2>3. CASE FreeVrow
    <3>1. 0 .. oidx' - 1 \subseteq freed'
      BY <2>3 DEF FreeVrow
    <3> QED BY <2>3, <3>1 DEF FreeVrow
  <2>4. CASE FinishDelete
    BY <2>4 DEF FinishDelete
  <2> QED BY <2>1, <2>2, <2>3, <2>4, <2>5, <2>6 DEF OwnerStep
<1> QED BY <1>1, <1>2, <1>3, <1>4 DEF SchedNext

\* The scheduler thread.
LEMMA MainKeeps ==
    ASSUME QueueTypeOK, VrowTypeOK, WholeInv, MainGoesOn
    PROVE  WholeInv'
<1>1. UNCHANGED <<ppc, opc, oidx, freed, runs>> /\ lpc # "none"
  BY DEF MainGoesOn, LoopBegins, CheckPresence, ReserveVrow, ChooseBucket, Reverse, Pop,
         QueueOnly, VrowOnly, queueVars, vrowVars, prodVars, ownVars,
         EnterTurn, StopLoader, EndTurn, FindVrow, TakeVrow, GiveBack, BeginLoad,
         WaitEmpty, StoreBank, FillBank,
         Turn, PresenceNone, PresenceAny, VrowsTaken, ScanRange, ChooseBit, ChooseFails,
         ClearBit, ReadBucket, Loaded, FreeBit, DiscountPresence,
         WholeInv, MainInv, LGo, CGo
<1> USE DEF WholeInv, MainInv, LGo, CGo, QueueOnly, VrowOnly, queueVars, vrowVars, consVars
<1>2. CASE LoopBegins \/ CheckPresence
  BY <1>1, <1>2
  DEF EndInv, RunsInv, LoopBegins, CheckPresence, Turn, EnterTurn, StopLoader,
      PresenceNone, PresenceAny, EndTurn
<1>3. CASE ReserveVrow
  BY <1>1, <1>3
  DEF EndInv, RunsInv, ReserveVrow, FindVrow, TakeVrow, VrowsTaken, EndTurn
<1>4. CASE ChooseBucket
  BY <1>1, <1>4
  DEF EndInv, RunsInv, ChooseBucket, ScanRange, ChooseBit, ClearBit, ChooseFails
<1>5. CASE Reverse
  BY <1>1, <1>5 DEF EndInv, RunsInv, Reverse, GiveBack
<1>6. CASE Pop
  BY <1>1, <1>6
  DEF EndInv, RunsInv, Pop, ReadBucket, BeginLoad, WaitEmpty, StoreBank, Loaded,
      FillBank, FreeBit, DiscountPresence
<1> QED BY <1>2, <1>3, <1>4, <1>5, <1>6 DEF MainGoesOn

LEMMA WholeInvStep ==
    QueueTypeOK /\ VrowTypeOK /\ WholeInv /\ [SchedNext]_schedVars => WholeInv'
<1> SUFFICES ASSUME QueueTypeOK, VrowTypeOK, WholeInv, [SchedNext]_schedVars
             PROVE  WholeInv'
  OBVIOUS
<1>1. CASE UNCHANGED schedVars
  BY <1>1
  DEF schedVars, queueVars, vrowVars, prodVars, consVars, WholeInv, MainInv, EndInv, RunsInv
<1> QED BY <1>1, OthersKeep, MainKeeps

LEMMA WholeInvHolds == SchedSpec => []WholeInv
<1>1. QueueInv => QueueTypeOK
  BY DEF QueueInv
<1>2. WorkInv => VrowTypeOK
  BY DEF WorkInv, StateInv
<1> QED
  BY <1>1, <1>2, QueueInvHolds, WorkInvHolds, WholeInvInit, WholeInvStep, PTL DEF SchedSpec

\* The types, and the two halves of the scheduler thread at places of one loop.
THEOREM SchedTypes == SchedSpec => []SchedTypeOK
<1>1. QueueInv /\ WorkInv /\ WholeInv => SchedTypeOK
  BY DEF QueueInv, WorkInv, StateInv, WholeInv, MainInv, RunsInv, SchedTypeOK
<1> QED BY <1>1, QueueInvHolds, WorkInvHolds, WholeInvHolds, PTL

\* sched_delete frees the queue and the scheduler when every thread has left
\* them, for every number of clients and vrows.
THEOREM QuietAtTheEndHolds == SchedSpec => []QuietAtTheEnd
<1>1. WorkInv /\ WholeInv => QuietAtTheEnd
  BY DEF WorkInv, StateInv, LifeInv, WholeInv, MainInv, EndInv, QuietAtTheEnd
<1> QED BY <1>1, WorkInvHolds, WholeInvHolds, PTL
-----------------------------------------------------------------------------
(***************************************************************************)
(* When the scheduler neither loses nor repeats a payload.  Pushes that    *)
(* meet in one range do both (runs queue_full_range and                    *)
(* sched_lost_payload), so this needs a discipline of the clients; under   *)
(* it, each payload is converted at most once, for any number of clients,  *)
(* payloads and vrows and with all the failures of module Vrow.            *)
(***************************************************************************)

-----------------------------------------------------------------------------
(* The discipline and the invariants *)

\* Nothing is on its way through range i: no payload is counted, and no push is
\* under way.
RangeQuiet(i) ==
    /\ presence[i] = 0
    /\ \A p \in Producers : ppc[p] # "idle" => ClassOf[pload[p]] # i

\* The discipline of the clients: a payload is pushed into a range through which
\* no other is on its way. Ranges are independent of each other.
SpacedPush == \A p \in Producers, x \in Payloads : Push(p, x) => RangeQuiet(ClassOf[x])

\* One range under the discipline: what its counter, its bits, its buckets and
\* the pushes into it say of the one payload that may be in it.
RangeInv(i) ==
    /\ presence[i] <= 1
    /\ \A p \in Producers :
          ppc[p] # "idle" /\ ClassOf[pload[p]] = i =>
              /\ presence[i] = 0
              /\ SetBits(i) = IF ppc[p] \in {"copy", "count"} THEN {pidx[p]} ELSE {}
              /\ ppc[p] = "count" => bucket[pidx[p]] = pload[p]
              /\ \A q \in Producers : ppc[q] # "idle" /\ ClassOf[pload[q]] = i => q = p
    /\ RangeQuiet(i) => SetBits(i) = {}
    /\ presence[i] = 1 /\ ~ (InPop /\ crange = i) =>
          \E b \in RangeOf(i) :
              SetBits(i) = {b} /\ bucket[b] \in pushed /\ ClassOf[bucket[b]] = i
    /\ InPop /\ crange = i => SetBits(i) = {}
    /\ cpc = "read" /\ crange = i => bucket[cidx] \in pushed /\ ClassOf[bucket[cidx]] = i

\* Where a payload is before bank 0 has converted it: with a client that pushes
\* it, in a bucket that is counted or about to be read; in the hand of the
\* scheduler; in a vrow.
InQueue(x) ==
    \/ \E p \in Producers : ppc[p] # "idle" /\ pload[p] = x
    \/ \E b \in SetBits(ClassOf[x]) : bucket[b] = x /\ presence[ClassOf[x]] = 1
    \/ cpc = "read" /\ bucket[cidx] = x

InHand(x) == lpc \in {"wait", "store", "fill"} /\ lload = x

PastBank0 == (Working \ {"sigon", "proc0"}) \cup {"fail"}
InVrow(v, x) == job[v] = x /\ tpc[v] \notin PastBank0

\* A payload is at one of these places at most, and has been converted at none.
PlaceOf(x) ==
    /\ InQueue(x) => x \in pushed /\ runs[x] = 0 /\ ~ InHand(x)
                     /\ \A v \in Vrows : ~ InVrow(v, x)
    /\ InHand(x) => x \in pushed /\ runs[x] = 0 /\ \A v \in Vrows : ~ InVrow(v, x)
    /\ \A v \in Vrows : InVrow(v, x) =>
          x \in pushed /\ runs[x] = 0 /\ \A w \in Vrows : InVrow(w, x) => w = v
    /\ runs[x] <= IF x \in pushed THEN 1 ELSE 0

RangesInv == \A i \in Classes : RangeInv(i)
-----------------------------------------------------------------------------
(* One payload per range *)

\* A step elsewhere: it may use other ranges, and push other payloads.
LEMMA RangeKept ==
    ASSUME QueueInv, NEW i \in Classes, RangeInv(i),
           presence'[i] = presence[i], SetBits(i)' = SetBits(i), pushed \subseteq pushed',
           \A b \in RangeOf(i) : bucket'[b] = bucket[b],
           \A q \in Producers :
              \/ UNCHANGED <<ppc[q], pload[q], pidx[q]>>
              \/ ~ (ppc[q] # "idle" /\ ClassOf[pload[q]] = i)
                 /\ ~ (ppc'[q] # "idle" /\ ClassOf[pload'[q]] = i),
           \/ UNCHANGED <<cpc, crange, cidx>>
           \/ ~ ((InPop \/ cpc = "clear") /\ crange = i) /\ ~ (InPop' /\ crange' = i)
    PROVE  RangeInv(i)'
<1>1. \A p \in Producers : ppc[p] = "count" /\ ClassOf[pload[p]] = i => pidx[p] \in RangeOf(i)
  BY DEF QueueInv, PushInv
<1>2. cpc = "read" /\ crange = i => cidx \in RangeOf(i)
  BY DEF QueueInv, TurnInv, InPop
<1>3. RangeQuiet(i)' <=> RangeQuiet(i)
  BY DEF RangeQuiet
<1>4. InPop' /\ crange' = i <=> InPop /\ crange = i
  BY DEF InPop
<1>5. cpc' = "read" /\ crange' = i => cpc = "read" /\ crange = i /\ cidx' = cidx
  BY DEF InPop
<1>6. (\A p \in Producers :
          ppc[p] # "idle" /\ ClassOf[pload[p]] = i =>
              /\ presence[i] = 0
              /\ SetBits(i) = IF ppc[p] \in {"copy", "count"} THEN {pidx[p]} ELSE {}
              /\ ppc[p] = "count" => bucket[pidx[p]] = pload[p]
              /\ \A q \in Producers : ppc[q] # "idle" /\ ClassOf[pload[q]] = i => q = p)'
  BY <1>1 DEF RangeInv
<1>7. (presence[i] = 1 /\ ~ (InPop /\ crange = i) =>
          \E b \in RangeOf(i) :
              SetBits(i) = {b} /\ bucket[b] \in pushed /\ ClassOf[bucket[b]] = i)'
  BY <1>4 DEF RangeInv, RangeOf, RangeEnd
<1>8. (cpc = "read" /\ crange = i => bucket[cidx] \in pushed /\ ClassOf[bucket[cidx]] = i)'
  BY <1>2, <1>5 DEF RangeInv
<1> QED BY <1>3, <1>4, <1>6, <1>7, <1>8 DEF RangeInv

\* A push, into its own range and seen from the others.
LEMMA PushRange ==
    ASSUME QueueInv, HoldInv, RangesInv, SpacedPush, NEW p \in Producers,
           ProducerStep(p) \/ \E x \in Payloads : Push(p, x)
    PROVE  RangesInv'
<1> SUFFICES ASSUME NEW i \in Classes PROVE RangeInv(i)'
  BY DEF RangesInv
<1>i. RangeInv(i)
  BY DEF RangesInv
<1> USE DEF Go, consVars
<1>t. /\ ppc \in [Producers -> ProducerPCs] /\ pidx \in [Producers -> MapBits]
      /\ pload \in [Producers -> Payloads \cup {NoPayload}]
      /\ bucket \in [MapBits -> Payloads \cup {NoPayload}] /\ presence \in [Classes -> Nat]
  BY DEF QueueInv, QueueTypeOK
<1>o. \A q \in Producers : q # p => UNCHANGED <<ppc[q], pload[q], pidx[q]>>
  BY <1>t DEF ProducerStep, FindBit, ClaimBit, CopyPayload, CountPresence, Push
<1>c. UNCHANGED <<cpc, crange, cidx>> /\ pushed \subseteq pushed'
  BY DEF ProducerStep, FindBit, ClaimBit, CopyPayload, CountPresence, Push
<1>n. presence[i] = 0 => ~ (InPop /\ crange = i)
  BY DEF QueueInv, TurnInv
<1>1. ASSUME NEW x \in Payloads, Push(p, x) PROVE RangeInv(i)'
  <2>1. /\ ppc' = [ppc EXCEPT ![p] = "find"] /\ ppc[p] = "idle"
        /\ pload' = [pload EXCEPT ![p] = x]
        /\ UNCHANGED <<bits, bucket, presence, pidx>>
    BY <1>1 DEF Push
  <2>2. ppc'[p] = "find" /\ pload'[p] = x
    BY <1>t, <2>1
  <2>3. SetBits(i)' = SetBits(i)
    BY <2>1 DEF SetBits
  <2>4. CASE ClassOf[x] # i
    BY <1>i, <1>o, <1>c, <2>1, <2>2, <2>3, <2>4, RangeKept
  <2>5. CASE ClassOf[x] = i
    <3>1. RangeQuiet(i)
      BY <1>1, <2>5 DEF SpacedPush
    <3>2. presence[i] = 0 /\ SetBits(i) = {}
          /\ \A q \in Producers : ppc[q] # "idle" => ClassOf[pload[q]] # i
      BY <1>i, <3>1 DEF RangeInv, RangeQuiet
    <3>3. InPop' = InPop
      BY <1>c DEF InPop
    <3>4. cpc = "read" /\ crange = i => FALSE
      BY <1>n, <3>2 DEF InPop
    <3> QED BY <1>o, <1>c, <1>n, <2>1, <2>2, <2>3, <2>5, <3>2, <3>3, <3>4
            DEF RangeInv, RangeQuiet
  <2> QED BY <2>4, <2>5
<1>2. ASSUME ProducerStep(p) PROVE RangeInv(i)'
  <2> DEFINE k == ClassOf[pload[p]]
  <2>1. ppc[p] # "idle" /\ pload[p] \in pushed /\ pload[p] \in Payloads /\ k \in Classes
    BY <1>2, BitpoolAssumption
    DEF ProducerStep, FindBit, ClaimBit, CopyPayload, CountPresence, HoldInv, QueueInv, PushInv
  <2>2. ppc[p] \in {"claim", "copy", "count"} => pidx[p] \in RangeOf(k)
    BY DEF QueueInv, PushInv
  <2>p. presence'[i] = presence[i] \/ (CountPresence(p) /\ k = i)
    BY <1>2, <1>t DEF ProducerStep, FindBit, ClaimBit, CopyPayload, CountPresence
  <2>3. CASE k # i
    <3>1. pidx[p] \in RangeOf(k) => pidx[p] \notin RangeOf(i)
      BY <2>1, <2>3, RangesDisjoint
    <3>2. SetBits(i)' = SetBits(i)
      BY <1>2, <2>2, <3>1
      DEF ProducerStep, FindBit, ClaimBit, CopyPayload, CountPresence, SetBits
    <3>3. \A b \in RangeOf(i) : bucket'[b] = bucket[b]
      <4>1. RangeOf(i) \subseteq MapBits
        BY RangeLayout
      <4> QED BY <1>2, <1>t, <2>2, <3>1, <4>1
              DEF ProducerStep, FindBit, ClaimBit, CopyPayload, CountPresence
    <3>4. /\ ~ (ppc[p] # "idle" /\ ClassOf[pload[p]] = i)
          /\ ~ (ppc'[p] # "idle" /\ ClassOf[pload'[p]] = i)
      BY <1>2, <1>t, <2>3 DEF ProducerStep, FindBit, ClaimBit, CopyPayload, CountPresence
    <3> QED BY <1>i, <1>o, <1>c, <2>p, <2>3, <3>2, <3>3, <3>4, RangeKept
  <2>4. CASE k = i
    <3>1. /\ presence[i] = 0
          /\ SetBits(i) = IF ppc[p] \in {"copy", "count"} THEN {pidx[p]} ELSE {}
          /\ ppc[p] = "count" => bucket[pidx[p]] = pload[p]
          /\ \A q \in Producers : ppc[q] # "idle" /\ ClassOf[pload[q]] = i => q = p
      BY <1>i, <2>1, <2>4 DEF RangeInv
    <3>2. InPop' = InPop /\ ~ (InPop /\ crange = i)
      BY <1>c, <1>n, <3>1 DEF InPop
    <3>3. cpc = "read" /\ crange = i => FALSE
      BY <3>2 DEF InPop
    <3>4. CASE FindBit(p)
      <4>1. ppc[p] = "find" /\ ppc'[p] = "claim" /\ pload' = pload /\ presence' = presence
            /\ SetBits(i)' = SetBits(i)
        BY <1>t, <3>4 DEF FindBit, SetBits
      <4> QED BY <1>o, <1>c, <2>1, <2>4, <3>1, <3>2, <3>3, <4>1 DEF RangeInv, RangeQuiet
    <3>5. CASE ClaimBit(p)
      <4>1. ppc[p] = "claim" /\ ppc'[p] = "copy" /\ pload' = pload /\ presence' = presence
            /\ pidx' = pidx /\ bits' = bits \cup {pidx[p]}
        BY <1>t, <3>5 DEF ClaimBit
      <4>2. SetBits(i)' = {pidx[p]}
        BY <2>2, <2>4, <3>1, <4>1 DEF SetBits
      <4> QED BY <1>o, <1>c, <2>1, <2>4, <3>1, <3>2, <3>3, <4>1, <4>2 DEF RangeInv, RangeQuiet
    <3>6. CASE CopyPayload(p)
      <4>1. ppc[p] = "copy" /\ ppc'[p] = "count" /\ pload' = pload /\ presence' = presence
            /\ pidx' = pidx /\ SetBits(i)' = SetBits(i) /\ bucket'[pidx[p]] = pload[p]
        BY <1>t, <3>6 DEF CopyPayload, SetBits
      <4> QED BY <1>o, <1>c, <2>1, <2>4, <3>1, <3>2, <3>3, <4>1 DEF RangeInv, RangeQuiet
    <3>7. CASE CountPresence(p)
      <4>1. ppc[p] = "count" /\ ppc'[p] = "idle" /\ presence'[i] = 1
            /\ pushed' = pushed /\ bucket' = bucket /\ SetBits(i)' = SetBits(i)
        BY <1>t, <2>4, <3>1, <3>7 DEF CountPresence, SetBits
      <4>2. pidx[p] \in RangeOf(i) /\ SetBits(i) = {pidx[p]} /\ bucket[pidx[p]] = pload[p]
        BY <2>2, <2>4, <3>1, <4>1
      <4> QED BY <1>o, <1>c, <2>1, <2>4, <3>1, <3>2, <3>3, <4>1, <4>2 DEF RangeInv, RangeQuiet
    <3> QED BY <1>2, <3>4, <3>5, <3>6, <3>7 DEF ProducerStep
  <2> QED BY <2>3, <2>4
<1> QED BY <1>1, <1>2

\* A turn of the scheduler: the bit it clears is the only one of its range.
LEMMA TurnRange ==
    ASSUME QueueInv, RangesInv, ConsumerStep
    PROVE  RangesInv'
<1> SUFFICES ASSUME NEW i \in Classes PROVE RangeInv(i)'
  BY DEF RangesInv
<1>i. RangeInv(i)
  BY DEF RangesInv
<1> USE DEF CGo, prodVars
<1>u. UNCHANGED <<ppc, pload, pidx, pushed, bucket>>
  BY DEF ConsumerStep, Turn, PresenceNone, PresenceAny, VrowsTaken, ScanRange, ChooseBit,
         ChooseFails, ClearBit, ReadBucket, Loaded, FreeBit, DiscountPresence
<1>t. crange \in Classes /\ presence \in [Classes -> Nat]
  BY DEF QueueInv, QueueTypeOK
<1>r. cpc = "clear" \/ InPop => cidx \in RangeOf(crange) /\ presence[crange] > 0
  BY DEF QueueInv, TurnInv
<1>1. CASE Turn \/ PresenceNone \/ PresenceAny \/ VrowsTaken \/ ScanRange \/ ChooseBit
           \/ ChooseFails
  <2>1. UNCHANGED <<bits, presence>> /\ cpc' \notin {"read", "held", "free", "discount"}
        /\ cpc \notin {"clear", "read", "held", "free", "discount"}
    BY <1>1 DEF Turn, PresenceNone, PresenceAny, VrowsTaken, ScanRange, ChooseBit, ChooseFails
  <2>2. SetBits(i)' = SetBits(i)
    BY <2>1 DEF SetBits
  <2> QED BY <1>i, <1>u, <2>1, <2>2, RangeKept DEF InPop
<1>2. CASE ClearBit
  <2>1. cpc = "clear" /\ cpc' = "read" /\ bits' = bits \ {cidx} /\ UNCHANGED <<presence, crange, cidx>>
    BY <1>2 DEF ClearBit
  <2>2. cidx \in bits /\ cidx \in RangeOf(crange)
    BY <1>r, <2>1 DEF QueueInv, TurnInv
  <2>3. CASE crange = i
    <3>1. presence[i] = 1
      BY <1>i, <1>r, <1>t, <2>1, <2>3 DEF RangeInv
    <3>2. PICK b \in RangeOf(i) :
             SetBits(i) = {b} /\ bucket[b] \in pushed /\ ClassOf[bucket[b]] = i
      BY <1>i, <2>1, <3>1 DEF RangeInv, InPop
    <3>3. b = cidx /\ SetBits(i)' = {}
      BY <2>1, <2>2, <2>3, <3>2 DEF SetBits
    <3>4. \A p \in Producers : ppc[p] # "idle" => ClassOf[pload[p]] # i
      BY <1>i, <3>1 DEF RangeInv
    <3> QED BY <1>u, <1>t, <2>1, <2>3, <3>1, <3>2, <3>3, <3>4 DEF RangeInv, RangeQuiet, InPop
  <2>4. CASE crange # i
    <3>1. SetBits(i)' = SetBits(i)
      BY <1>t, <2>1, <2>2, <2>4, RangesDisjoint DEF SetBits
    <3> QED BY <1>i, <1>u, <2>1, <2>4, <3>1, RangeKept
  <2> QED BY <2>3, <2>4
<1>3. CASE ReadBucket \/ Loaded \/ FreeBit
  <2>1. /\ InPop /\ InPop' /\ cpc' # "read" /\ UNCHANGED <<presence, crange, cidx>>
        /\ bits' = bits \/ bits' = bits \ {cidx}
    BY <1>3 DEF ReadBucket, Loaded, FreeBit, InPop
  <2>2. CASE crange = i
    <3>1. presence[i] = 1 /\ SetBits(i) = {}
      BY <1>i, <1>r, <1>t, <2>1, <2>2 DEF RangeInv
    <3>2. SetBits(i)' = {}
      BY <2>1, <3>1 DEF SetBits
    <3>3. \A p \in Producers : ppc[p] # "idle" => ClassOf[pload[p]] # i
      BY <1>i, <3>1 DEF RangeInv
    <3> QED BY <1>u, <2>1, <2>2, <3>1, <3>2, <3>3 DEF RangeInv, RangeQuiet
  <2>3. CASE crange # i
    <3>1. SetBits(i)' = SetBits(i)
      BY <1>r, <1>t, <2>1, <2>3, RangesDisjoint DEF SetBits
    <3> QED BY <1>i, <1>u, <2>1, <2>3, <3>1, RangeKept
  <2> QED BY <2>2, <2>3
<1>4. CASE DiscountPresence
  <2>1. /\ cpc = "discount" /\ cpc' = "top" /\ bits' = bits /\ InPop /\ ~ InPop'
        /\ presence' = [presence EXCEPT ![IndexToPresence(cidx)] = @ - 1]
    BY <1>4 DEF DiscountPresence, InPop
  <2>2. IndexToPresence(cidx) = crange
    BY <1>r, <1>t, <2>1, IndexToPresenceIsInverse
  <2>3. SetBits(i)' = SetBits(i)
    BY <2>1 DEF SetBits
  <2>4. CASE crange = i
    <3>1. presence[i] = 1 /\ SetBits(i) = {}
      BY <1>i, <1>r, <1>t, <2>1, <2>4 DEF RangeInv
    <3>2. presence'[i] = 0
      BY <1>t, <2>1, <2>2, <2>4, <3>1
    <3>3. \A p \in Producers : ppc[p] # "idle" => ClassOf[pload[p]] # i
      BY <1>i, <3>1 DEF RangeInv
    <3> QED BY <1>u, <2>1, <2>3, <3>1, <3>2, <3>3 DEF RangeInv, RangeQuiet
  <2>5. CASE crange # i
    <3>1. presence'[i] = presence[i]
      BY <1>t, <2>1, <2>2, <2>5
    <3> QED BY <1>i, <1>u, <2>1, <2>3, <2>5, <3>1, RangeKept
  <2> QED BY <2>4, <2>5
<1> QED BY <1>1, <1>2, <1>3, <1>4 DEF ConsumerStep

LEMMA RangesInvStep ==
    ASSUME QueueInv, HoldInv, RangesInv, [QueueNext]_queueVars, SpacedPush
    PROVE  RangesInv'
<1>1. CASE QueueNext
  BY <1>1, PushRange, TurnRange DEF QueueNext
<1>2. CASE UNCHANGED queueVars
  BY <1>2 DEF queueVars, prodVars, consVars, RangesInv, RangeInv, RangeQuiet, SetBits, InPop
<1> QED BY <1>1, <1>2

LEMMA RangesInvInit == QueueInit => RangesInv
BY DEF QueueInit, RangesInv, RangeInv, RangeQuiet, SetBits, InPop

-----------------------------------------------------------------------------
(* One place per payload *)

\* A payload gets into the queue by its push only; inside it moves from the
\* client to the bucket and from the bucket to the turn that reads it.
LEMMA QueueTakesPushesOnly ==
    ASSUME QueueInv, HoldInv, RangesInv, [QueueNext]_queueVars, SpacedPush,
           NEW x \in Payloads, InQueue(x)'
    PROVE  InQueue(x) \/ (x \notin pushed /\ x \in pushed')
<1> DEFINE c == ClassOf[x]
<1>c. c \in Classes /\ RangeOf(c) \subseteq MapBits
  BY BitpoolAssumption, RangeLayout
<1>t. /\ ppc \in [Producers -> ProducerPCs] /\ pidx \in [Producers -> MapBits]
      /\ pload \in [Producers -> Payloads \cup {NoPayload}]
      /\ bucket \in [MapBits -> Payloads \cup {NoPayload}] /\ presence \in [Classes -> Nat]
      /\ crange \in Classes
  BY DEF QueueInv, QueueTypeOK
<1>r. RangeInv(c)
  BY <1>c DEF RangesInv
<1> USE DEF Go, CGo, consVars, prodVars
<1>1. ASSUME NEW p \in Producers, NEW y \in Payloads, Push(p, y)
      PROVE  InQueue(x) \/ (x \notin pushed /\ x \in pushed')
  <2>1. /\ pload' = [pload EXCEPT ![p] = y] /\ pushed' = pushed \cup {y} /\ y \notin pushed
        /\ ppc' = [ppc EXCEPT ![p] = "find"]
        /\ UNCHANGED <<bits, bucket, presence, cpc, cidx>>
    BY <1>1 DEF Push
  <2>2. CASE y # x
    BY <1>t, <2>1, <2>2 DEF InQueue, SetBits
  <2> QED BY <2>1, <2>2
<1>2. ASSUME NEW p \in Producers, ProducerStep(p) PROVE InQueue(x)
  <2> DEFINE k == ClassOf[pload[p]]
  <2>1. ppc[p] # "idle" /\ pload[p] \in Payloads /\ k \in Classes
    BY <1>2, BitpoolAssumption
    DEF ProducerStep, FindBit, ClaimBit, CopyPayload, CountPresence, QueueInv, PushInv
  <2>2. ppc[p] \in {"claim", "copy", "count"} => pidx[p] \in RangeOf(k)
    BY DEF QueueInv, PushInv
  <2>3. RangeInv(k)
    BY <2>1 DEF RangesInv
  <2>4. /\ presence[k] = 0
        /\ SetBits(k) = IF ppc[p] \in {"copy", "count"} THEN {pidx[p]} ELSE {}
        /\ ppc[p] = "count" => bucket[pidx[p]] = pload[p]
    BY <2>1, <2>3 DEF RangeInv
  <2>5. CASE FindBit(p)
    BY <1>t, <2>1, <2>5 DEF FindBit, InQueue, SetBits
  <2>6. CASE ClaimBit(p)
    <3>1. /\ UNCHANGED <<bucket, presence, pload, cpc, cidx>> /\ bits' = bits \cup {pidx[p]}
          /\ ppc[p] = "claim" /\ \A q \in Producers : ppc'[q] # "idle" => ppc[q] # "idle"
      BY <1>t, <2>6 DEF ClaimBit
    <3>2. c # k => pidx[p] \notin RangeOf(c)
      BY <1>c, <2>1, <2>2, <3>1, RangesDisjoint
    <3>3. presence'[c] = 1 => SetBits(c)' = SetBits(c)
      BY <2>4, <3>1, <3>2 DEF SetBits
    <3> QED BY <3>1, <3>3 DEF InQueue
  <2>7. CASE CopyPayload(p)
    <3>1. /\ UNCHANGED <<bits, presence, pload, cpc, cidx>>
          /\ bucket' = [bucket EXCEPT ![pidx[p]] = pload[p]]
          /\ ppc[p] = "copy" /\ \A q \in Producers : ppc'[q] # "idle" => ppc[q] # "idle"
      BY <1>t, <2>7 DEF CopyPayload
    <3>2. \A b \in MapBits : b \notin RangeOf(k) => bucket'[b] = bucket[b]
      BY <1>t, <2>2, <3>1
    <3>3. c # k => \A b \in RangeOf(c) : b \notin RangeOf(k)
      BY <1>c, <2>1, RangesDisjoint
    <3>4. cpc = "read" => cidx \in MapBits /\ cidx \notin RangeOf(k)
      <4>1. cpc = "read" => cidx \in RangeOf(crange) /\ presence[crange] > 0
        BY DEF QueueInv, TurnInv, InPop
      <4> QED BY <1>t, <2>1, <2>4, <4>1, RangesDisjoint, RangeLayout
    <3>5. presence'[c] = 1 => SetBits(c)' = SetBits(c) /\ \A b \in SetBits(c) : bucket'[b] = bucket[b]
      BY <1>c, <2>4, <3>1, <3>2, <3>3 DEF SetBits
    <3> QED BY <3>1, <3>2, <3>4, <3>5 DEF InQueue
  <2>8. CASE CountPresence(p)
    <3>1. /\ UNCHANGED <<bits, bucket, cpc, cidx>> /\ ppc[p] = "count"
          /\ presence' = [presence EXCEPT ![k] = @ + 1]
          /\ \A q \in Producers : ppc'[q] # "idle" => ppc[q] # "idle" /\ pload'[q] = pload[q]
      BY <1>t, <2>8 DEF CountPresence
    <3>2. SetBits(c)' = SetBits(c)
      BY <3>1 DEF SetBits
    <3>3. CASE c = k
      BY <2>1, <2>4, <3>1, <3>2, <3>3 DEF InQueue
    <3>4. CASE c # k
      <4>1. presence'[c] = presence[c]
        BY <1>t, <1>c, <3>1, <3>4
      <4> QED BY <3>1, <3>2, <4>1 DEF InQueue
    <3> QED BY <3>3, <3>4
  <2> QED BY <1>2, <2>5, <2>6, <2>7, <2>8 DEF ProducerStep
<1>3. ASSUME ConsumerStep PROVE InQueue(x)
  <2>u. UNCHANGED <<ppc, pload, bucket>>
    BY <1>3
    DEF ConsumerStep, Turn, PresenceNone, PresenceAny, VrowsTaken, ScanRange, ChooseBit,
        ChooseFails, ClearBit, ReadBucket, Loaded, FreeBit, DiscountPresence
  <2>1. CASE ClearBit
    <3>1. cpc = "clear" /\ bits' = bits \ {cidx} /\ cidx' = cidx /\ presence' = presence
      BY <2>1 DEF ClearBit
    <3>2. SetBits(c)' \subseteq SetBits(c)
      BY <3>1 DEF SetBits
    <3>3. ASSUME bucket[cidx] = x PROVE InQueue(x)
      <4>1. cidx \in SetBits(crange) /\ presence[crange] > 0
        BY <3>1 DEF QueueInv, TurnInv, SetBits
      <4>2. RangeInv(crange)
        BY <1>t DEF RangesInv
      <4>3. presence[crange] = 1
        BY <1>t, <4>1, <4>2 DEF RangeInv
      <4>4. PICK b \in RangeOf(crange) : SetBits(crange) = {b} /\ ClassOf[bucket[b]] = crange
        BY <3>1, <4>2, <4>3 DEF RangeInv, InPop
      <4> QED BY <3>3, <4>1, <4>3, <4>4 DEF InQueue
    <3> QED BY <2>u, <3>1, <3>2, <3>3 DEF InQueue
  <2>2. CASE DiscountPresence
    <3>1. /\ cpc = "discount" /\ cpc' = "top" /\ bits' = bits
          /\ presence' = [presence EXCEPT ![IndexToPresence(cidx)] = @ - 1]
      BY <2>2 DEF DiscountPresence
    <3>2. presence'[c] = 1 => presence[c] = 1
      BY <1>t, <1>c, <1>r, <3>1 DEF RangeInv
    <3>3. SetBits(c)' = SetBits(c)
      BY <3>1 DEF SetBits
    <3> QED BY <2>u, <3>1, <3>2, <3>3 DEF InQueue
  <2>3. CASE ~ (ClearBit \/ DiscountPresence)
    <3>1. bits' \subseteq bits /\ presence' = presence /\ cpc' # "read"
      BY <1>3, <2>3
      DEF ConsumerStep, Turn, PresenceNone, PresenceAny, VrowsTaken, ScanRange, ChooseBit,
          ChooseFails, ReadBucket, Loaded, FreeBit
    <3>2. SetBits(c)' \subseteq SetBits(c)
      BY <3>1 DEF SetBits
    <3> QED BY <2>u, <3>1, <3>2 DEF InQueue
  <2> QED BY <2>1, <2>2, <2>3
<1>4. CASE UNCHANGED queueVars
  BY <1>4 DEF queueVars, InQueue, SetBits
<1> QED BY <1>1, <1>2, <1>3, <1>4 DEF QueueNext

\* What the scheduler reads from a bucket is a payload of its range, and it
\* leaves the queue with it.
LEMMA ReadLeavesQueue ==
    ASSUME QueueInv, RangesInv, ReadBucket
    PROVE  /\ bucket[cidx] \in pushed /\ ClassOf[bucket[cidx]] = crange
           /\ InQueue(bucket[cidx])
           /\ \A x \in Payloads : x = bucket[cidx] => ~ InQueue(x)'
<1>1. /\ cpc = "read" /\ cpc' = "held"
      /\ UNCHANGED <<bits, bucket, presence, ppc, pload>>
  BY DEF ReadBucket, CGo, prodVars
<1>2. crange \in Classes /\ presence[crange] \in Nat /\ presence[crange] > 0 /\ RangeInv(crange)
  BY <1>1 DEF QueueInv, QueueTypeOK, TurnInv, InPop, RangesInv
<1>3. presence[crange] = 1 /\ SetBits(crange) = {}
      /\ bucket[cidx] \in pushed /\ ClassOf[bucket[cidx]] = crange
  BY <1>1, <1>2 DEF RangeInv, InPop
<1>4. \A p \in Producers : ppc[p] # "idle" => ClassOf[pload[p]] # crange
  BY <1>2, <1>3 DEF RangeInv
<1>5. ASSUME NEW x \in Payloads, x = bucket[cidx] PROVE ~ InQueue(x)'
  <2>1. ClassOf[x] = crange
    BY <1>3, <1>5
  <2>2. SetBits(ClassOf[x])' = {}
    BY <1>1, <1>3, <2>1 DEF SetBits
  <2> QED BY <1>1, <1>4, <2>1, <2>2 DEF InQueue
<1>6. InQueue(bucket[cidx])
  BY <1>1 DEF InQueue
<1> QED BY <1>3, <1>5, <1>6

PlacesInv == \A x \in Payloads : PlaceOf(x)

\* All that a step of the scheduler needs.
OnceInv == /\ QueueInv /\ HoldInv /\ WorkInv /\ WholeInv
           /\ RangesInv /\ PlacesInv /\ LoadsWhatWasPushed

\* A payload stays where it is, or disappears unconverted.
LEMMA PlaceKept ==
    ASSUME NEW x \in Payloads, PlaceOf(x),
           InQueue(x)' => InQueue(x), InHand(x)' => InHand(x),
           \A v \in Vrows : InVrow(v, x)' => InVrow(v, x),
           runs'[x] = runs[x], pushed \subseteq pushed', x \in pushed' => x \in pushed
    PROVE  PlaceOf(x)'
BY DEF PlaceOf

\* A push begins or goes on.
LEMMA PushPlace ==
    ASSUME OnceInv, SpacedPush, NEW p \in Producers,
           PushGoesOn(p) \/ \E x \in Payloads : PushBegins(p, x)
    PROVE  PlacesInv'
<1> SUFFICES ASSUME NEW x \in Payloads PROVE PlaceOf(x)'
  BY DEF PlacesInv
<1>1. PlaceOf(x)
  BY DEF OnceInv, PlacesInv
<1>2. UNCHANGED <<vrowVars, runs>> /\ QueueNext /\ pushed \subseteq pushed'
  BY DEF PushGoesOn, PushBegins, QueueNext, ProducerStep, FindBit, ClaimBit, CopyPayload,
         CountPresence, Push
<1>3. InHand(x)' = InHand(x) /\ \A v \in Vrows : InVrow(v, x)' = InVrow(v, x)
  BY <1>2 DEF vrowVars, InHand, InVrow
<1>4. InQueue(x)' => InQueue(x) \/ (x \notin pushed /\ x \in pushed')
  BY <1>2, QueueTakesPushesOnly DEF OnceInv
<1>5. runs'[x] = runs[x]
  BY <1>2
<1>6. runs[x] \in Nat
  BY DEF OnceInv, WholeInv, RunsInv
<1> QED BY <1>1, <1>2, <1>3, <1>4, <1>5, <1>6 DEF PlaceOf

\* A vrow thread: bank 0 converts the payload of its vrow, which leaves the
\* place it was at with that.
LEMMA VrowPlace ==
    ASSUME OnceInv, NEW v \in Vrows, VrowGoesOn(v)
    PROVE  PlacesInv'
<1> SUFFICES ASSUME NEW x \in Payloads PROVE PlaceOf(x)'
  BY DEF PlacesInv
<1>1. PlaceOf(x) /\ VrowTypeOK /\ ThreadStep(v) /\ UNCHANGED queueVars /\ runs[x] \in Nat
  BY DEF OnceInv, PlacesInv, WorkInv, StateInv, VrowGoesOn, WholeInv, RunsInv
<1>2. InQueue(x)' = InQueue(x) /\ pushed' = pushed
  BY <1>1 DEF queueVars, prodVars, consVars, InQueue, SetBits
<1> USE DEF TGo
<1>3. InHand(x)' = InHand(x)
  BY <1>1
  DEF InHand, ThreadStep, Start, LoopTest, Poll, ToggleStep, CopyStep, SignalBusy, Bank0,
      FailOff, FinishOff, FlushBanks, FlushStates, loadVars
<1>4. \A w \in Vrows : w # v => InVrow(w, x)' = InVrow(w, x)
  BY <1>1
  DEF VrowTypeOK, InVrow, ThreadStep, Start, LoopTest, Poll, ToggleStep, CopyStep, SignalBusy, Bank0,
      FailOff, FinishOff, FlushBanks, FlushStates
<1>5. CASE tpc[v] # "proc0"
  <2>1. runs'[x] = runs[x]
    BY <1>5 DEF VrowGoesOn
  <2>2. InVrow(v, x)' => InVrow(v, x)
    <3>1. CASE FailOff(v) \/ FinishOff(v) \/ FlushBanks(v)
      BY <1>1, <3>1, PayloadAssumption
      DEF VrowTypeOK, InVrow, FailOff, FinishOff, FlushBanks
    <3>2. CASE tpc[v] \in PastBank0
      <4>1. FailOff(v) \/ FinishOff(v) \/ tpc'[v] \in PastBank0
        BY <1>1, <3>2
        DEF VrowTypeOK, ThreadStep, Start, LoopTest, Poll, ToggleStep, CopyStep, SignalBusy,
            Bank0, FlushBanks, FlushStates, PastBank0, Working, Moving01, Moving12
      <4> QED BY <3>1, <4>1 DEF InVrow
    <3>3. CASE tpc[v] \notin PastBank0 /\ ~ (FailOff(v) \/ FinishOff(v) \/ FlushBanks(v))
      <4>1. job' = job
        BY <1>1, <3>3
        DEF ThreadStep, Start, LoopTest, Poll, ToggleStep, CopyStep, SignalBusy, Bank0,
            FlushStates
      <4> QED BY <3>3, <4>1 DEF InVrow
    <3> QED BY <3>1, <3>2, <3>3
  <2> QED BY <1>1, <1>2, <1>3, <1>4, <2>1, <2>2, PlaceKept
<1>6. CASE tpc[v] = "proc0"
  <2>1. Bank0(v)
    BY <1>1, <1>6
    DEF ThreadStep, Start, LoopTest, Poll, ToggleStep, CopyStep, SignalBusy, FailOff,
        FinishOff, FlushBanks, FlushStates
  <2>2. bank[v][0] = job[v]
    BY <1>6
    DEF OnceInv, WorkInv, StateInv, FlagInv, FlagsOf, HasF0, JobInv, JobOf
  <2>3. tpc'[v] \in PastBank0
    BY <1>1, <2>1 DEF Bank0, VrowTypeOK, PastBank0, Working
  <2>4. result'[v] = IF job[v] \in Translates THEN job[v] ELSE NoPayload
    BY <1>1, <2>1, <2>2 DEF Bank0, VrowTypeOK
  <2>5. runs'[x] = IF x = result'[v] THEN runs[x] + 1 ELSE runs[x]
    BY <1>6 DEF VrowGoesOn
  <2>6. ~ InVrow(v, x)'
    BY <2>3 DEF InVrow, PastBank0, Working, Moving01, Moving12
  <2>7. CASE x = result'[v]
    <3>1. InVrow(v, x)
      BY <1>6, <2>4, <2>7, PayloadAssumption
      DEF InVrow, PastBank0, Working, Moving01, Moving12
    <3>2. runs[x] = 0 /\ x \in pushed /\ ~ InQueue(x) /\ ~ InHand(x)
          /\ \A w \in Vrows : InVrow(w, x) => w = v
      BY <1>1, <3>1 DEF PlaceOf
    <3> QED BY <1>2, <1>3, <1>4, <2>5, <2>6, <2>7, <3>2 DEF PlaceOf
  <2>8. CASE x # result'[v]
    BY <1>1, <1>2, <1>3, <1>4, <2>5, <2>6, <2>8, PlaceKept
  <2> QED BY <2>7, <2>8
<1> QED BY <1>5, <1>6

\* The owner creates, closes and frees vrows without moving payloads.
LEMMA OwnerPlace ==
    ASSUME OnceInv, OwnerGoesOn PROVE PlacesInv'
<1> SUFFICES ASSUME NEW x \in Payloads PROVE PlaceOf(x)'
  BY DEF PlacesInv
<1>1. PlaceOf(x) /\ VrowTypeOK /\ OwnerStep /\ UNCHANGED <<queueVars, runs>>
  BY DEF OnceInv, PlacesInv, WorkInv, StateInv, OwnerGoesOn
<1>2. InQueue(x)' = InQueue(x) /\ UNCHANGED <<pushed, runs>>
  BY <1>1 DEF queueVars, prodVars, consVars, InQueue, SetBits
<1>3. InHand(x)' => InHand(x)
  BY <1>1
  DEF InHand, OwnerStep, CreateVrow, CreateFails, StartLoader, CloseSched, CloseVrow,
      FreeVrow, FinishDelete, loadVars
<1>4. \A v \in Vrows : InVrow(v, x)' => InVrow(v, x)
  <2>1. CASE CreateVrow
    <3>1. \A v \in Vrows : job[v] = NoPayload
      BY <2>1 DEF CreateVrow, OnceInv, WorkInv, JobInv
    <3> QED BY <2>1, <3>1, PayloadAssumption DEF CreateVrow, InVrow
  <2>2. CASE ~ CreateVrow
    BY <1>1, <2>2
    DEF InVrow, OwnerStep, CreateFails, StartLoader, CloseSched, CloseVrow, FreeVrow, FinishDelete
  <2> QED BY <2>1, <2>2
<1> QED BY <1>1, <1>2, <1>3, <1>4, PlaceKept

\* The scheduler thread: from the bucket into its hand, from there into the
\* vrow it has reserved.
LEMMA MainPlace ==
    ASSUME OnceInv, SpacedPush, MainGoesOn, [QueueNext]_queueVars
    PROVE  PlacesInv' /\ LoadsWhatWasPushed'
<1>1. VrowTypeOK /\ QueueTypeOK /\ MainInv /\ UNCHANGED runs
  BY DEF OnceInv, WorkInv, StateInv, QueueInv, WholeInv, MainGoesOn
<1>2. pushed' = pushed /\ tpc' = tpc
  BY DEF MainGoesOn, LoopBegins, CheckPresence, ReserveVrow, ChooseBucket, Reverse, Pop,
         QueueOnly, VrowOnly, queueVars, vrowVars, prodVars,
         EnterTurn, StopLoader, EndTurn, FindVrow, TakeVrow, GiveBack, BeginLoad,
         WaitEmpty, StoreBank, FillBank,
         Turn, PresenceNone, PresenceAny, VrowsTaken, ScanRange, ChooseBit, ChooseFails,
         ClearBit, ReadBucket, Loaded, FreeBit, DiscountPresence
<1>3. ASSUME NEW x \in Payloads PROVE InQueue(x)' => InQueue(x)
  BY <1>2, QueueTakesPushesOnly DEF OnceInv
<1>p. \A x \in Payloads : PlaceOf(x)
  BY DEF OnceInv, PlacesInv
<1> USE DEF LGo, CGo
<1>4. CASE ReadBucket /\ BeginLoad(bucket[cidx])
  <2>1. /\ lpc = "held" /\ lpc' = "wait" /\ lload' = bucket[cidx] /\ job' = job /\ crange' = crange
    BY <1>4 DEF BeginLoad, ReadBucket
  <2>2. /\ bucket[cidx] \in pushed /\ ClassOf[bucket[cidx]] = crange /\ InQueue(bucket[cidx])
        /\ \A x \in Payloads : x = bucket[cidx] => ~ InQueue(x)'
    BY <1>4, ReadLeavesQueue DEF OnceInv
  <2>3. LoadsWhatWasPushed'
    BY <1>2, <2>1, <2>2 DEF LoadsWhatWasPushed
  <2>4. ASSUME NEW x \in Payloads PROVE PlaceOf(x)'
    <3>1. PlaceOf(x) /\ \A v \in Vrows : InVrow(v, x)' = InVrow(v, x)
      BY <1>2, <1>p, <2>1 DEF InVrow
    <3>2. CASE x = bucket[cidx]
      BY <1>1, <1>2, <2>2, <3>1, <3>2 DEF PlaceOf
    <3>3. CASE x # bucket[cidx]
      <4>1. ~ InHand(x)'
        BY <2>1, <3>3 DEF InHand
      <4> QED BY <1>1, <1>2, <1>3, <3>1, <4>1, PlaceKept
    <3> QED BY <3>2, <3>3
  <2> QED BY <2>3, <2>4 DEF PlacesInv
<1>5. CASE Loaded /\ FillBank
  <2>1. /\ lpc = "fill" /\ lpc' = "top" /\ job' = [job EXCEPT ![lidx] = lload] /\ lidx \in Vrows
    BY <1>1, <1>5 DEF FillBank, VrowTypeOK
  <2>2. LoadsWhatWasPushed'
    BY <2>1 DEF LoadsWhatWasPushed
  <2>3. ASSUME NEW x \in Payloads PROVE PlaceOf(x)'
    <3>1. PlaceOf(x) /\ ~ InHand(x)'
      BY <1>p, <2>1 DEF InHand
    <3>2. \A v \in Vrows : v # lidx => InVrow(v, x)' = InVrow(v, x)
      BY <1>1, <1>2, <2>1 DEF InVrow, VrowTypeOK
    <3>3. CASE x = lload
      <4>1. InHand(x)
        BY <2>1, <3>3 DEF InHand
      <4> QED BY <1>1, <1>2, <1>3, <3>1, <3>2, <4>1 DEF PlaceOf
    <3>4. CASE x # lload
      <4>1. \A v \in Vrows : v = lidx => ~ InVrow(v, x)'
        BY <1>1, <2>1, <3>4 DEF InVrow, VrowTypeOK
      <4> QED BY <1>1, <1>2, <1>3, <3>1, <3>2, <4>1, PlaceKept
    <3> QED BY <3>3, <3>4
  <2> QED BY <2>2, <2>3 DEF PlacesInv
<1>6. CASE cpc = "held" /\ VrowOnly(WaitEmpty \/ StoreBank)
  <2>1. /\ lpc \in {"wait", "store"} /\ lpc' \in {"store", "fill"}
        /\ UNCHANGED <<lload, job, crange>>
    BY <1>6 DEF VrowOnly, WaitEmpty, StoreBank, queueVars, consVars
  <2>2. LoadsWhatWasPushed'
    BY <1>2, <2>1 DEF LoadsWhatWasPushed, OnceInv
  <2>3. ASSUME NEW x \in Payloads PROVE PlaceOf(x)'
    <3>1. PlaceOf(x) /\ InHand(x)' = InHand(x) /\ \A v \in Vrows : InVrow(v, x)' = InVrow(v, x)
      BY <1>2, <1>p, <2>1 DEF InVrow, InHand
    <3> QED BY <1>1, <1>2, <1>3, <3>1, PlaceKept
  <2> QED BY <2>2, <2>3 DEF PlacesInv
<1>7. CASE LoopBegins \/ CheckPresence \/ ReserveVrow \/ ChooseBucket \/ Reverse
           \/ QueueOnly(FreeBit \/ DiscountPresence)
  <2>1. lpc' \notin {"wait", "store", "fill"} /\ job' = job
    BY <1>1, <1>7
    DEF MainInv, LoopBegins, CheckPresence, ReserveVrow, ChooseBucket, Reverse,
        QueueOnly, VrowOnly, vrowVars, EnterTurn, StopLoader, EndTurn, FindVrow, TakeVrow,
        GiveBack, PresenceAny, FreeBit, DiscountPresence
  <2>2. LoadsWhatWasPushed'
    BY <2>1 DEF LoadsWhatWasPushed
  <2>3. ASSUME NEW x \in Payloads PROVE PlaceOf(x)'
    <3>1. PlaceOf(x) /\ ~ InHand(x)' /\ \A v \in Vrows : InVrow(v, x)' = InVrow(v, x)
      BY <1>2, <1>p, <2>1 DEF InVrow, InHand
    <3> QED BY <1>1, <1>2, <1>3, <3>1, PlaceKept
  <2> QED BY <2>2, <2>3 DEF PlacesInv
<1> QED BY <1>4, <1>5, <1>6, <1>7 DEF MainGoesOn, Pop

\* What the scheduler thread holds is left alone by everybody else.
LEMMA HandKept ==
    ASSUME OnceInv, SchedNext, ~ MainGoesOn
    PROVE  LoadsWhatWasPushed'
<1>1. pushed \subseteq pushed' /\ crange' = crange
  BY DEF SchedNext, PushGoesOn, PushBegins, VrowGoesOn, OwnerGoesOn, queueVars, prodVars,
         consVars, ProducerStep, FindBit, ClaimBit, CopyPayload, CountPresence, Push
<1>2. UNCHANGED <<lpc, lload>> \/ lpc' \in {"top", "none"}
  BY DEF SchedNext, PushGoesOn, PushBegins, VrowGoesOn, OwnerGoesOn, vrowVars, loadVars,
         OwnerStep, CreateVrow, CreateFails, StartLoader, CloseSched, CloseVrow, FreeVrow,
         FinishDelete, ThreadStep, Start, LoopTest, Poll, ToggleStep, CopyStep, SignalBusy,
         Bank0, FailOff, FinishOff, FlushBanks, FlushStates
<1> QED BY <1>1, <1>2 DEF OnceInv, LoadsWhatWasPushed

LEMMA OnceInvStep ==
    OnceInv /\ [SchedNext]_schedVars /\ [SpacedPush]_schedVars => OnceInv'
<1> SUFFICES ASSUME OnceInv, [SchedNext]_schedVars, [SpacedPush]_schedVars PROVE OnceInv'
  OBVIOUS
<1>1. [QueueNext]_queueVars /\ [VrowNext]_vrowVars
  BY QueueStep, VrowStep DEF OnceInv, QueueInv
<1>2. QueueInv' /\ HoldInv' /\ WorkInv' /\ WholeInv'
  BY <1>1, QueueInvStep, HoldInvStep, WorkInvStep, WholeInvStep
  DEF OnceInv, QueueInv, WorkInv, StateInv
<1>3. CASE UNCHANGED schedVars
  <2>1. RangesInv'
    BY <1>3 DEF OnceInv, schedVars, queueVars, prodVars, consVars, RangesInv, RangeInv,
                RangeQuiet, SetBits, InPop
  <2>2. PlacesInv' /\ LoadsWhatWasPushed'
    BY <1>3
    DEF OnceInv, schedVars, queueVars, vrowVars, prodVars, consVars, PlacesInv, PlaceOf,
        InQueue, InHand, InVrow, SetBits, LoadsWhatWasPushed
  <2> QED BY <1>2, <2>1, <2>2 DEF OnceInv
<1>4. CASE SchedNext /\ SpacedPush
  <2>1. RangesInv'
    BY <1>1, <1>4, RangesInvStep DEF OnceInv
  <2>2. CASE MainGoesOn
    BY <1>1, <1>2, <1>4, <2>1, <2>2, MainPlace DEF OnceInv
  <2>3. CASE ~ MainGoesOn
    <3>1. PlacesInv'
      BY <1>4, <2>3, PushPlace, VrowPlace, OwnerPlace DEF SchedNext
    <3>2. LoadsWhatWasPushed'
      BY <1>4, <2>3, HandKept
    <3> QED BY <1>2, <2>1, <3>1, <3>2 DEF OnceInv
  <2> QED BY <2>2, <2>3
<1> QED BY <1>3, <1>4

LEMMA OnceInvInit == SchedInit => OnceInv
<1> SUFFICES ASSUME SchedInit PROVE OnceInv
  OBVIOUS
<1>1. QueueInv /\ HoldInv /\ WorkInv /\ WholeInv /\ RangesInv
  BY CountInvInit, WorkInvInit, WholeInvInit, RangesInvInit DEF SchedInit, CountInv
<1>2. LoadsWhatWasPushed
  BY DEF SchedInit, VrowInit, LoadsWhatWasPushed
<1>3. PlacesInv
  BY PayloadAssumption
  DEF SchedInit, QueueInit, VrowInit, PlacesInv, PlaceOf, InQueue, InHand, InVrow, SetBits
<1> QED BY <1>1, <1>2, <1>3 DEF OnceInv

\* If no two payloads are on their way through one range at the same time, no
\* payload is converted twice, by one vrow or by two, and none that was not
\* pushed is.
THEOREM RunsAtMostOnceWhenSpaced ==
    SchedSpec /\ [][SpacedPush]_schedVars => []RunsAtMostOnce
<1>1. OnceInv => RunsAtMostOnce
  BY DEF OnceInv, PlacesInv, PlaceOf, RunsAtMostOnce
<1> QED BY <1>1, OnceInvInit, OnceInvStep, PTL DEF SchedSpec

\* Under the same discipline the bucket that is passed to vrow_bank_load always
\* holds a payload some client pushed, of the range it was counted under.
THEOREM LoadsWhatWasPushedWhenSpaced ==
    SchedSpec /\ [][SpacedPush]_schedVars => []LoadsWhatWasPushed
<1>1. OnceInv => LoadsWhatWasPushed
  BY DEF OnceInv
<1> QED BY <1>1, OnceInvInit, OnceInvStep, PTL DEF SchedSpec

-----------------------------------------------------------------------------
(* One payload per range *)

\* What was never pushed into is quiet.
LEMMA UnpushedIsQuiet ==
    ASSUME CountInv, NEW i \in Classes, \A x \in pushed : ClassOf[x] # i
    PROVE  RangeQuiet(i)
<1>1. PushesDone(i) = {}
  BY DEF PushesDone
<1>2. presence[i] = 0
  BY <1>1, FS_EmptySet DEF CountInv, PresenceWithinPushes
<1> QED BY <1>2 DEF RangeQuiet, CountInv, HoldInv

\* When the payloads are of different ranges, as in the run that checks these
\* two properties, the clients keep the discipline whatever they do.
THEOREM OnePayloadPerRange ==
    ASSUME \A x, y \in Payloads : ClassOf[x] = ClassOf[y] => x = y
    PROVE  SchedSpec => [](RunsAtMostOnce /\ LoadsWhatWasPushed)
<1>1. CountInv => SpacedPush
  <2> SUFFICES ASSUME CountInv, NEW p \in Producers, NEW x \in Payloads, Push(p, x)
               PROVE  RangeQuiet(ClassOf[x])
    BY DEF SpacedPush
  <2>1. \A y \in pushed : ClassOf[y] # ClassOf[x]
    BY DEF Push, CountInv, QueueInv, QueueTypeOK
  <2> QED BY <2>1, UnpushedIsQuiet, BitpoolAssumption
<1>2. CountInv => [SpacedPush]_schedVars
  BY <1>1
<1> QED BY <1>2, CountInvHolds, RunsAtMostOnceWhenSpaced, LoadsWhatWasPushedWhenSpaced, PTL

-----------------------------------------------------------------------------
(* No payload is lost *)

\* A payload that bank 0 can convert is somewhere until it is converted, as
\* long as the scheduler is not closed.
NoPayloadLost ==
    opc \in {"create", "run"} =>
        \A x \in pushed \cap Translates :
            runs[x] = 1 \/ InQueue(x) \/ InHand(x) \/ \E v \in Vrows : InVrow(v, x)

\* A thread flushes a payload only when its vrow was closed: one that failed has
\* none, and is not loaded before it has flushed.
FlushInv == \A v \in Vrows : tpc[v] = "zero" /\ job[v] # NoPayload => closed[v]

KeepInv == OnceInv /\ FlushInv /\ NoPayloadLost

\* A payload leaves the queue only when the scheduler reads it.
LEMMA QueueKeeps ==
    ASSUME QueueInv, RangesInv, [QueueNext]_queueVars,
           NEW x \in Payloads, InQueue(x), ~ (ReadBucket /\ bucket[cidx] = x)
    PROVE  InQueue(x)'
<1> DEFINE c == ClassOf[x]
<1>c. c \in Classes /\ RangeOf(c) \subseteq MapBits /\ RangeInv(c)
  BY BitpoolAssumption, RangeLayout DEF RangesInv
<1>t. /\ ppc \in [Producers -> ProducerPCs] /\ pidx \in [Producers -> MapBits]
      /\ pload \in [Producers -> Payloads \cup {NoPayload}]
      /\ bucket \in [MapBits -> Payloads \cup {NoPayload}] /\ presence \in [Classes -> Nat]
      /\ crange \in Classes
  BY DEF QueueInv, QueueTypeOK
<1>r. cpc = "clear" \/ InPop => cidx \in RangeOf(crange) /\ presence[crange] > 0
  BY DEF QueueInv, TurnInv
<1> USE DEF Go, CGo, consVars, prodVars
<1>1. ASSUME NEW p \in Producers, NEW y \in Payloads, Push(p, y) PROVE InQueue(x)'
  <2>1. /\ pload' = [pload EXCEPT ![p] = y] /\ ppc' = [ppc EXCEPT ![p] = "find"]
        /\ ppc[p] = "idle" /\ UNCHANGED <<bits, bucket, presence, cpc, cidx>>
    BY <1>1 DEF Push
  <2> QED BY <1>t, <2>1 DEF InQueue, SetBits
<1>2. ASSUME NEW p \in Producers, ProducerStep(p) PROVE InQueue(x)'
  <2> DEFINE k == ClassOf[pload[p]]
  <2>1. ppc[p] # "idle" /\ pload[p] \in Payloads /\ k \in Classes /\ RangeInv(k)
    BY <1>2, BitpoolAssumption
    DEF ProducerStep, FindBit, ClaimBit, CopyPayload, CountPresence, QueueInv, PushInv, RangesInv
  <2>2. /\ presence[k] = 0
        /\ ppc[p] = "count" => SetBits(k) = {pidx[p]} /\ bucket[pidx[p]] = pload[p]
    BY <2>1 DEF RangeInv
  <2>3. ppc[p] \in {"claim", "copy", "count"} => pidx[p] \in RangeOf(k)
    BY DEF QueueInv, PushInv
  <2>4. \A q \in Producers : q # p => UNCHANGED <<ppc[q], pload[q]>>
    BY <1>2, <1>t DEF ProducerStep, FindBit, ClaimBit, CopyPayload, CountPresence
  <2>5. UNCHANGED <<cpc, cidx>> /\ bits \subseteq bits' /\ (k # c => presence'[c] = presence[c])
    BY <1>2, <1>c, <1>t DEF ProducerStep, FindBit, ClaimBit, CopyPayload, CountPresence
  <2>6. \A b \in MapBits : b \notin RangeOf(k) => bucket'[b] = bucket[b]
    BY <1>2, <1>t, <2>3 DEF ProducerStep, FindBit, ClaimBit, CopyPayload, CountPresence
  <2>7. CASE ppc[p] # "idle" /\ pload[p] = x
    <3>1. CASE CountPresence(p)
      <4>1. /\ ppc[p] = "count" /\ presence'[c] = 1 /\ bucket' = bucket /\ bits' = bits
        BY <1>t, <1>c, <2>2, <2>7, <3>1 DEF CountPresence
      <4>2. SetBits(c)' = {pidx[p]} /\ bucket'[pidx[p]] = x
        BY <2>2, <2>7, <4>1 DEF SetBits
      <4> QED BY <4>1, <4>2 DEF InQueue
    <3>2. CASE ~ CountPresence(p)
      <4>1. ppc'[p] # "idle" /\ pload'[p] = x
        BY <1>2, <1>t, <2>7, <3>2 DEF ProducerStep, FindBit, ClaimBit, CopyPayload
      <4> QED BY <4>1 DEF InQueue
    <3> QED BY <3>1, <3>2
  <2>8. ASSUME NEW q \in Producers, q # p, ppc[q] # "idle", pload[q] = x PROVE InQueue(x)'
    BY <2>4, <2>8 DEF InQueue
  <2>9. ASSUME NEW b \in SetBits(c), bucket[b] = x, presence[c] = 1 PROVE InQueue(x)'
    <3>1. k # c
      BY <2>2, <2>9
    <3>2. b \in MapBits /\ b \notin RangeOf(k)
      BY <1>c, <2>1, <2>9, <3>1, RangesDisjoint DEF SetBits
    <3>3. b \in SetBits(c)'
      BY <2>5, <2>9 DEF SetBits
    <3> QED BY <2>5, <2>6, <2>9, <3>1, <3>2, <3>3 DEF InQueue
  <2>10. ASSUME cpc = "read", bucket[cidx] = x PROVE InQueue(x)'
    <3>1. cidx \in RangeOf(crange) /\ crange # k
      BY <1>r, <2>2, <2>10 DEF InPop
    <3>2. cidx \in MapBits /\ cidx \notin RangeOf(k)
      BY <1>t, <2>1, <3>1, RangesDisjoint, RangeLayout
    <3> QED BY <2>5, <2>6, <2>10, <3>2 DEF InQueue
  <2> QED BY <2>7, <2>8, <2>9, <2>10 DEF InQueue
<1>3. ASSUME ConsumerStep PROVE InQueue(x)'
  <2>u. UNCHANGED <<ppc, pload, bucket>>
    BY <1>3
    DEF ConsumerStep, Turn, PresenceNone, PresenceAny, VrowsTaken, ScanRange, ChooseBit,
        ChooseFails, ClearBit, ReadBucket, Loaded, FreeBit, DiscountPresence
  <2>1. CASE \E p \in Producers : ppc[p] # "idle" /\ pload[p] = x
    BY <2>u, <2>1 DEF InQueue
  <2>2. ASSUME NEW b \in SetBits(c), bucket[b] = x, presence[c] = 1 PROVE InQueue(x)'
    <3>1. CASE ClearBit
      <4>1. cpc = "clear" /\ cpc' = "read" /\ bits' = bits \ {cidx} /\ cidx' = cidx
            /\ presence' = presence
        BY <3>1 DEF ClearBit
      <4>2. CASE cidx = b
        BY <2>u, <2>2, <4>1, <4>2 DEF InQueue
      <4>3. CASE cidx # b
        BY <2>u, <2>2, <4>1, <4>3 DEF InQueue, SetBits
      <4> QED BY <4>2, <4>3
    <3>2. CASE FreeBit \/ DiscountPresence
      <4>1. InPop /\ (bits' = bits \/ bits' = bits \ {cidx})
        BY <3>2 DEF FreeBit, DiscountPresence, InPop
      <4>2. crange # c
        BY <1>c, <2>2, <4>1 DEF RangeInv
      <4>3. cidx # b
        BY <1>c, <1>r, <1>t, <2>2, <4>1, <4>2, RangesDisjoint DEF SetBits
      <4>4. presence'[c] = presence[c]
        BY <1>c, <1>r, <1>t, <3>2, <4>1, <4>2, IndexToPresenceIsInverse
        DEF FreeBit, DiscountPresence
      <4>5. b \in SetBits(c)'
        BY <2>2, <4>1, <4>3 DEF SetBits
      <4> QED BY <2>u, <2>2, <4>4, <4>5 DEF InQueue
    <3>3. CASE ~ (ClearBit \/ FreeBit \/ DiscountPresence)
      <4>1. UNCHANGED <<bits, presence>>
        BY <1>3, <3>3
        DEF ConsumerStep, Turn, PresenceNone, PresenceAny, VrowsTaken, ScanRange, ChooseBit,
            ChooseFails, ReadBucket, Loaded
      <4> QED BY <2>u, <2>2, <4>1 DEF InQueue, SetBits
    <3> QED BY <3>1, <3>2, <3>3
  <2>3. ASSUME cpc = "read", bucket[cidx] = x PROVE FALSE
    BY <1>3, <2>3
    DEF ConsumerStep, Turn, PresenceNone, PresenceAny, VrowsTaken, ScanRange, ChooseBit,
        ChooseFails, ClearBit, Loaded, FreeBit, DiscountPresence
  <2> QED BY <2>1, <2>2, <2>3 DEF InQueue
<1>4. CASE UNCHANGED queueVars
  BY <1>4 DEF queueVars, InQueue, SetBits
<1> QED BY <1>1, <1>2, <1>3, <1>4 DEF QueueNext

LEMMA FlushInvStep ==
    WorkInv /\ FlushInv /\ [VrowNext]_vrowVars => FlushInv'
<1> SUFFICES ASSUME WorkInv, FlushInv, [VrowNext]_vrowVars, NEW w \in Vrows,
                    tpc'[w] = "zero", job'[w] # NoPayload
             PROVE  closed'[w]
  BY DEF FlushInv
<1>t. VrowTypeOK /\ LifeInv /\ FlagInv /\ LoadInv
  BY DEF WorkInv, StateInv
<1>1. ASSUME NEW v \in Vrows, ThreadStep(v) PROVE closed'[w]
  BY <1>t, <1>1
  DEF VrowTypeOK, FlushInv, TGo, ThreadStep, Start, LoopTest, Poll, ToggleStep, CopyStep,
      SignalBusy, Bank0, FailOff, FinishOff, FlushBanks, FlushStates
<1>2. CASE LoaderStep
  <2>1. UNCHANGED <<tpc, closed>>
    BY <1>2 DEF LoaderStep, EnterTurn, StopLoader, EndTurn, FindVrow, TakeVrow, GiveBack,
                BeginLoad, WaitEmpty, StoreBank, FillBank
  <2>2. CASE FillBank /\ lidx = w
    BY <1>t, <2>1, <2>2 DEF FillBank, LGo, LifeInv, FlagInv, FlagsOf, LoadInv
  <2>3. CASE ~ (FillBank /\ lidx = w)
    <3>1. job'[w] = job[w]
      BY <1>t, <1>2, <2>3
      DEF VrowTypeOK, LoaderStep, EnterTurn, StopLoader, EndTurn, FindVrow, TakeVrow,
          GiveBack, BeginLoad, WaitEmpty, StoreBank, FillBank
    <3> QED BY <2>1, <3>1 DEF FlushInv
  <2> QED BY <2>2, <2>3
<1>3. CASE OwnerStep
  BY <1>t, <1>3
  DEF VrowTypeOK, FlushInv, OwnerStep, CreateVrow, CreateFails, StartLoader, CloseSched,
      CloseVrow, FreeVrow, FinishDelete
<1>4. CASE UNCHANGED vrowVars
  BY <1>4 DEF vrowVars, FlushInv
<1> QED BY <1>1, <1>2, <1>3, <1>4 DEF VrowNext

\* Where payload x is, or that it has been converted.
Accounted(x) == runs[x] = 1 \/ InQueue(x) \/ InHand(x) \/ \E v \in Vrows : InVrow(v, x)

LEMMA PushLoses ==
    ASSUME KeepInv, NEW p \in Producers,
           PushGoesOn(p) \/ \E y \in Payloads : PushBegins(p, y),
           NEW x \in pushed', x \in Payloads, x \in pushed => Accounted(x)
    PROVE  Accounted(x)'
<1>1. UNCHANGED <<vrowVars, runs>> /\ QueueNext /\ ~ ReadBucket
  <2>1. UNCHANGED <<vrowVars, runs>> /\ QueueNext /\ UNCHANGED cpc
    BY DEF PushGoesOn, PushBegins, QueueNext, ProducerStep, FindBit, ClaimBit, CopyPayload,
           CountPresence, Push, consVars
  <2> QED BY <2>1 DEF ReadBucket, CGo
<1>2. CASE x \in pushed
  <2>1. InQueue(x) => InQueue(x)'
    BY <1>1, QueueKeeps DEF KeepInv, OnceInv
  <2>2. InHand(x)' = InHand(x) /\ \A v \in Vrows : InVrow(v, x)' = InVrow(v, x)
    BY <1>1 DEF vrowVars, InHand, InVrow
  <2> QED BY <1>1, <1>2, <2>1, <2>2 DEF Accounted
<1>3. CASE x \notin pushed
  <2>1. Push(p, x)
    BY <1>3
    DEF PushGoesOn, PushBegins, ProducerStep, FindBit, ClaimBit, CopyPayload, CountPresence, Push
  <2>2. ppc'[p] # "idle" /\ pload'[p] = x
    BY <2>1 DEF Push, Go, KeepInv, OnceInv, QueueInv, QueueTypeOK
  <2> QED BY <2>2 DEF Accounted, InQueue
<1> QED BY <1>2, <1>3

LEMMA VrowLoses ==
    ASSUME KeepInv, PlacesInv', RunsInv', NEW v \in Vrows, VrowGoesOn(v), opc \in {"create", "run"},
           NEW x \in pushed, x \in Payloads, x \in Translates, Accounted(x)
    PROVE  Accounted(x)'
<1>1. VrowTypeOK /\ LifeInv /\ ThreadStep(v) /\ UNCHANGED queueVars
  BY DEF KeepInv, OnceInv, WorkInv, StateInv, VrowGoesOn
<1>2. InQueue(x)' = InQueue(x)
  BY <1>1 DEF queueVars, prodVars, consVars, InQueue, SetBits
<1> USE DEF TGo
<1>3. InHand(x)' = InHand(x)
  BY <1>1
  DEF InHand, ThreadStep, Start, LoopTest, Poll, ToggleStep, CopyStep, SignalBusy, Bank0,
      FailOff, FinishOff, FlushBanks, FlushStates, loadVars
<1>4. \A w \in Vrows : w # v => InVrow(w, x)' = InVrow(w, x)
  BY <1>1
  DEF VrowTypeOK, InVrow, ThreadStep, Start, LoopTest, Poll, ToggleStep, CopyStep, SignalBusy, Bank0,
      FailOff, FinishOff, FlushBanks, FlushStates
<1>5. runs[x] = 1 => runs'[x] = 1
  <2>1. runs'[x] = runs[x] \/ runs'[x] = runs[x] + 1
    BY DEF VrowGoesOn
  <2>2. runs'[x] <= 1
    BY DEF PlacesInv, PlaceOf, RunsInv
  <2> QED BY <2>1, <2>2
<1>6. ASSUME InVrow(v, x) PROVE runs'[x] = 1 \/ InVrow(v, x)'
  <2>1. job[v] = x /\ x # NoPayload /\ tpc[v] \notin PastBank0
    BY <1>6, PayloadAssumption DEF InVrow
  <2>2. runs[x] = 0
    BY <1>6 DEF KeepInv, OnceInv, PlacesInv, PlaceOf
  <2>3. CASE Bank0(v)
    <3>1. tpc[v] = "proc0" /\ bank[v][0] = x
      BY <2>1, <2>3
      DEF Bank0, KeepInv, OnceInv, WorkInv, StateInv, FlagInv, FlagsOf, HasF0, JobInv, JobOf
    <3>2. result'[v] = x
      BY <1>1, <2>3, <3>1 DEF Bank0, VrowTypeOK
    <3>3. runs'[x] = runs[x] + 1
      BY <3>1, <3>2 DEF VrowGoesOn
    <3> QED BY <2>2, <3>3
  <2>4. CASE FlushBanks(v)
    BY <1>1, <2>1, <2>4 DEF FlushBanks, KeepInv, FlushInv, LifeInv
  <2>5. CASE ~ (Bank0(v) \/ FlushBanks(v))
    <3>1. ~ (FailOff(v) \/ FinishOff(v))
      BY <2>1 DEF FailOff, FinishOff, PastBank0, Working
    <3>2. job' = job
      BY <1>1, <2>5, <3>1
      DEF ThreadStep, Start, LoopTest, Poll, ToggleStep, CopyStep, SignalBusy, FlushStates
    <3>3. tpc'[v] \notin PastBank0
      BY <1>1, <2>1, <2>5, <3>1
      DEF VrowTypeOK, ThreadStep, Start, LoopTest, Poll, ToggleStep, CopyStep, SignalBusy,
          FlushStates, PastBank0, Working, Moving01, Moving12
    <3> QED BY <2>1, <3>2, <3>3 DEF InVrow, PastBank0, Working, Moving01, Moving12
  <2> QED BY <2>3, <2>4, <2>5
<1> QED BY <1>2, <1>3, <1>4, <1>5, <1>6 DEF Accounted

LEMMA OwnerLoses ==
    ASSUME KeepInv, OwnerGoesOn, opc' \in {"create", "run"},
           NEW x \in pushed, x \in Payloads, Accounted(x)
    PROVE  Accounted(x)' /\ opc \in {"create", "run"}
<1>1. VrowTypeOK /\ LifeInv /\ OwnerStep /\ UNCHANGED <<queueVars, runs>>
  BY DEF KeepInv, OnceInv, WorkInv, StateInv, OwnerGoesOn
<1>2. InQueue(x)' = InQueue(x) /\ runs' = runs
  BY <1>1 DEF queueVars, prodVars, consVars, InQueue, SetBits
<1>3. CreateVrow \/ StartLoader
  BY <1>1 DEF OwnerStep, CreateFails, CloseSched, CloseVrow, FreeVrow, FinishDelete, OGo
<1>4. opc = "create" /\ lpc = "none" /\ job' = job
  BY <1>1, <1>3 DEF CreateVrow, StartLoader, OGo, LifeInv
<1>5. ~ InHand(x)
  BY <1>4 DEF InHand
<1>6. \A v \in Vrows : InVrow(v, x) => InVrow(v, x)'
  BY <1>1, <1>3, <1>4
  DEF CreateVrow, StartLoader, VrowTypeOK, InVrow, PastBank0, Working, Moving01, Moving12
<1> QED BY <1>2, <1>4, <1>5, <1>6 DEF Accounted

LEMMA MainLoses ==
    ASSUME KeepInv, MainGoesOn, [QueueNext]_queueVars,
           NEW x \in pushed, x \in Payloads, Accounted(x)
    PROVE  Accounted(x)' /\ opc' = opc
<1>1. VrowTypeOK /\ MainInv /\ UNCHANGED runs
  BY DEF KeepInv, OnceInv, WorkInv, StateInv, WholeInv, MainGoesOn
<1>2. tpc' = tpc /\ opc' = opc
  BY DEF MainGoesOn, LoopBegins, CheckPresence, ReserveVrow, ChooseBucket, Reverse, Pop,
         QueueOnly, VrowOnly, queueVars, vrowVars, ownVars,
         EnterTurn, StopLoader, EndTurn, FindVrow, TakeVrow, GiveBack, BeginLoad,
         WaitEmpty, StoreBank, FillBank
<1>3. InQueue(x) => InQueue(x)' \/ (ReadBucket /\ bucket[cidx] = x)
  BY QueueKeeps DEF KeepInv, OnceInv
<1> USE DEF LGo, CGo
<1>4. CASE ReadBucket /\ BeginLoad(bucket[cidx])
  <2>1. lpc = "held" /\ lpc' = "wait" /\ lload' = bucket[cidx] /\ job' = job
    BY <1>4 DEF BeginLoad
  <2>2. ~ InHand(x) /\ (bucket[cidx] = x => InHand(x)')
        /\ \A v \in Vrows : InVrow(v, x)' = InVrow(v, x)
    BY <1>2, <2>1 DEF InHand, InVrow
  <2> QED BY <1>1, <1>2, <1>3, <2>2 DEF Accounted
<1>5. CASE Loaded /\ FillBank
  <2>1. /\ lpc = "fill" /\ job' = [job EXCEPT ![lidx] = lload] /\ lidx \in Vrows
        /\ cpc = "held" /\ job[lidx] = NoPayload
    BY <1>1, <1>5, WorkInvGives DEF FillBank, Loaded, VrowTypeOK, KeepInv, OnceInv, OneJobAtATime
  <2>2. \A v \in Vrows : InVrow(v, x) => InVrow(v, x)'
    BY <1>1, <1>2, <2>1, PayloadAssumption DEF InVrow, VrowTypeOK
  <2>3. tpc[lidx] \notin PastBank0
    BY <2>1 DEF KeepInv, OnceInv, WorkInv, TakeInv, Idle, PastBank0
  <2>4. InHand(x) => \E v \in Vrows : InVrow(v, x)'
    BY <1>1, <1>2, <2>1, <2>3 DEF InHand, InVrow, VrowTypeOK
  <2>5. ~ ReadBucket
    BY <2>1 DEF ReadBucket
  <2> QED BY <1>1, <1>2, <1>3, <2>2, <2>4, <2>5 DEF Accounted
<1>6. CASE cpc = "held" /\ VrowOnly(WaitEmpty \/ StoreBank)
  <2>1. /\ lpc \in {"wait", "store"} /\ lpc' \in {"store", "fill"} /\ UNCHANGED <<lload, job>>
        /\ ~ ReadBucket
    BY <1>6 DEF VrowOnly, WaitEmpty, StoreBank, ReadBucket
  <2>2. InHand(x)' = InHand(x) /\ \A v \in Vrows : InVrow(v, x)' = InVrow(v, x)
    BY <1>2, <2>1 DEF InHand, InVrow
  <2> QED BY <1>1, <1>2, <1>3, <2>1, <2>2 DEF Accounted
<1>7. CASE LoopBegins \/ CheckPresence \/ ReserveVrow \/ ChooseBucket \/ Reverse
           \/ QueueOnly(FreeBit \/ DiscountPresence)
  <2>1. cpc # "held" /\ job' = job /\ ~ ReadBucket
    BY <1>1, <1>7
    DEF MainInv, LoopBegins, CheckPresence, ReserveVrow, ChooseBucket, Reverse, ReadBucket,
        QueueOnly, VrowOnly, vrowVars, queueVars, consVars, EnterTurn, StopLoader, EndTurn,
        FindVrow, TakeVrow, GiveBack, Turn, PresenceNone, PresenceAny, VrowsTaken, ScanRange,
        ChooseBit, ChooseFails, ClearBit, FreeBit, DiscountPresence
  <2>2. ~ InHand(x) /\ \A v \in Vrows : InVrow(v, x)' = InVrow(v, x)
    BY <1>1, <1>2, <2>1 DEF InHand, InVrow, MainInv
  <2> QED BY <1>1, <1>2, <1>3, <2>1, <2>2 DEF Accounted
<1> QED BY <1>4, <1>5, <1>6, <1>7 DEF MainGoesOn, Pop

LEMMA KeepInvStep ==
    KeepInv /\ [SchedNext]_schedVars /\ [SpacedPush]_schedVars => KeepInv'
<1> SUFFICES ASSUME KeepInv, [SchedNext]_schedVars, [SpacedPush]_schedVars PROVE KeepInv'
  OBVIOUS
<1>1. [QueueNext]_queueVars /\ [VrowNext]_vrowVars
  BY QueueStep, VrowStep DEF KeepInv, OnceInv, QueueInv
<1>2. OnceInv' /\ FlushInv'
  BY <1>1, OnceInvStep, FlushInvStep DEF KeepInv, OnceInv
<1>3. NoPayloadLost'
  <2> SUFFICES ASSUME opc' \in {"create", "run"}, NEW x \in pushed', x \in Translates
               PROVE  Accounted(x)'
    BY DEF NoPayloadLost, Accounted
  <2>1. x \in Payloads /\ (opc \in {"create", "run"} /\ x \in pushed => Accounted(x))
    BY VrowAssumption DEF KeepInv, NoPayloadLost, Accounted
  <2>2. PlacesInv' /\ RunsInv'
    BY <1>2 DEF OnceInv, WholeInv
  <2>3. ASSUME NEW p \in Producers, PushGoesOn(p) \/ \E y \in Payloads : PushBegins(p, y)
        PROVE  Accounted(x)'
    <3>1. opc' = opc
      BY <2>3 DEF PushGoesOn, PushBegins, vrowVars
    <3> QED BY <2>1, <2>3, <3>1, PushLoses
  <2>4. ASSUME NEW v \in Vrows, VrowGoesOn(v) PROVE Accounted(x)'
    <3>1. opc' = opc /\ pushed' = pushed
      BY <2>4
      DEF VrowGoesOn, queueVars, prodVars, ThreadStep, Start, LoopTest, Poll, ToggleStep,
          CopyStep, SignalBusy, Bank0, FailOff, FinishOff, FlushBanks, FlushStates, ownVars
    <3> QED BY <2>1, <2>2, <2>4, <3>1, VrowLoses
  <2>5. CASE MainGoesOn
    <3>1. opc' = opc /\ pushed' = pushed
      BY <2>5
      DEF MainGoesOn, LoopBegins, CheckPresence, ReserveVrow, ChooseBucket, Reverse, Pop,
          QueueOnly, VrowOnly, queueVars, vrowVars, ownVars, prodVars,
          EnterTurn, StopLoader, EndTurn, FindVrow, TakeVrow, GiveBack, BeginLoad,
          WaitEmpty, StoreBank, FillBank, Turn, PresenceNone, PresenceAny, VrowsTaken,
          ScanRange, ChooseBit, ChooseFails, ClearBit, ReadBucket, Loaded, FreeBit,
          DiscountPresence
    <3> QED BY <1>1, <2>1, <2>5, <3>1, MainLoses
  <2>6. CASE OwnerGoesOn
    <3>1. opc \in {"create", "run"} /\ pushed' = pushed
      BY <2>6
      DEF OwnerGoesOn, queueVars, prodVars, OwnerStep, CreateVrow, CreateFails, StartLoader,
          CloseSched, CloseVrow, FreeVrow, FinishDelete, OGo
    <3> QED BY <2>1, <2>6, <3>1, OwnerLoses
  <2>7. CASE UNCHANGED schedVars
    BY <2>1, <2>7
    DEF schedVars, queueVars, vrowVars, prodVars, consVars, Accounted, InQueue, InHand,
        InVrow, SetBits
  <2> QED BY <2>3, <2>4, <2>5, <2>6, <2>7 DEF SchedNext
<1> QED BY <1>2, <1>3 DEF KeepInv

\* Under the discipline the scheduler loses no payload either: as long as it is
\* open, every payload that was pushed and can be converted has been converted
\* once or is still in the queue, with the scheduler thread or in a vrow.
THEOREM NoPayloadLostWhenSpaced ==
    SchedSpec /\ [][SpacedPush]_schedVars => []NoPayloadLost
<1>1. SchedInit => KeepInv
  BY OnceInvInit DEF SchedInit, QueueInit, VrowInit, KeepInv, FlushInv, NoPayloadLost
<1>2. KeepInv => NoPayloadLost
  BY DEF KeepInv
<1> QED BY <1>1, <1>2, KeepInvStep, PTL DEF SchedSpec
=============================================================================
