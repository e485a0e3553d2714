------------------------------- MODULE Sched -------------------------------
(***************************************************************************)
(* The whole scheduler, pipe/sched.c: clients push payloads into the queue *)
(* (module Bitpool), the scheduler thread moves them into vrows, and the   *)
(* vrow threads process them (module Vrow).  A step of sched_main is a     *)
(* step of the queue's consumer, of the vrows' loader, or of both.         *)
(*                                                                         *)
(* Clients keep to the contract of the interface: sched_push is called on  *)
(* a scheduler that sched_create has returned, and sched_delete when no    *)
(* sched_push is in progress any more.                                     *)
(***************************************************************************)
EXTENDS Bitpool, Vrow

\* Whatever lies in a bucket may be loaded into a vrow.
ASSUME SchedAssumption == Loads = Payloads \cup {NoPayload}

VARIABLE runs       \* history: how often bank 0 has converted a payload

schedVars == <<queueVars, vrowVars, runs>>

SchedInit == QueueInit /\ VrowInit /\ runs = [x \in Payloads |-> 0]
-----------------------------------------------------------------------------
(* Clients and vrow threads *)

PushBegins(p, x) ==
    /\ opc = "run"
    /\ Push(p, x)
    /\ UNCHANGED <<vrowVars, runs>>

PushGoesOn(p) == ProducerStep(p) /\ UNCHANGED <<vrowVars, runs>>

VrowGoesOn(v) ==
    /\ ThreadStep(v)
    /\ runs' = [x \in Payloads |->
                   IF tpc[v] = "proc0" /\ x = result'[v] THEN runs[x] + 1 ELSE runs[x]]
    /\ UNCHANGED queueVars

OwnerGoesOn ==
    /\ OwnerStep
    /\ opc = "run" => \A p \in Producers : ppc[p] = "idle"     \* CloseSched
    /\ UNCHANGED <<queueVars, runs>>
-----------------------------------------------------------------------------
(* sched_main *)

QueueOnly(step) == step /\ UNCHANGED vrowVars
VrowOnly(step) == step /\ UNCHANGED queueVars

\* The top of the loop: closed, or another turn.
LoopBegins == (Turn /\ EnterTurn) \/ (cpc = "top" /\ VrowOnly(StopLoader))

\* Wrong form: an empty queue does not end the turn.
CheckPresenceOnly == QueueOnly(PresenceNone) \/ QueueOnly(PresenceAny)

\* bitpool_presence_any
CheckPresence == (PresenceNone /\ EndTurn) \/ QueueOnly(PresenceAny)

\* sync_map_sig_first over vrow_smap, before the queue is looked at.
ReserveVrow ==
    /\ cpc = "scan" /\ lpc \in {"find", "or"}
    /\ \/ VrowOnly(FindVrow \/ TakeVrow)
       \/ ~ Hits(FreeVrows, VrowCount) /\ VrowsTaken /\ EndTurn

\* bitpool_prior_unload_disp, for the vrow held.
ChooseBucket ==
    /\ lpc = "held"
    /\ QueueOnly(ScanRange \/ ChooseBit \/ ClearBit \/ ChooseFails)

\* Wrong form: the vrow stays taken.
ReverseNot ==
    /\ cpc = "top" /\ LGo("held", "top")
    /\ UNCHANGED <<tpc, states, closed, bank, result, vmap, freed, job, lidx, lload, ownVars, queueVars>>

\* It failed: the vrow is given back.
Reverse == cpc = "top" /\ VrowOnly(GiveBack)

\* Wrong form: the bucket is not unloaded afterwards.
PopNoUnload ==
    \/ ReadBucket /\ BeginLoad(bucket[cidx])
    \/ cpc = "held" /\ VrowOnly(WaitEmpty \/ StoreBank)
    \/ /\ FillBank /\ CGo("held", "top")
       /\ UNCHANGED <<bits, bucket, presence, prodVars, crange, cidx, cload>>

\* sched_pop: the bucket goes into the vrow, then the bucket is unloaded.
Pop ==
    \/ ReadBucket /\ BeginLoad(bucket[cidx])
    \/ cpc = "held" /\ VrowOnly(WaitEmpty \/ StoreBank)
    \/ Loaded /\ FillBank
    \/ QueueOnly(FreeBit \/ DiscountPresence)

MainGoesOn ==
    /\ LoopBegins \/ CheckPresence \/ ReserveVrow \/ ChooseBucket \/ Reverse \/ Pop
    /\ UNCHANGED runs

SchedNext ==
    \/ \E p \in Producers : PushGoesOn(p) \/ \E x \in Payloads : PushBegins(p, x)
    \/ \E v \in Vrows : VrowGoesOn(v)
    \/ MainGoesOn
    \/ OwnerGoesOn

\* Each thread that can go on is scheduled again and again; clients need not
\* push, and the owner need not delete.
SchedFairness ==
    /\ \A p \in Producers : WF_schedVars(PushGoesOn(p))
    /\ \A v \in Vrows : WF_schedVars(VrowGoesOn(v))
    /\ WF_schedVars(MainGoesOn)
    /\ WF_schedVars(opc # "run" /\ OwnerGoesOn)

SchedSpec == SchedInit /\ [][SchedNext]_schedVars /\ SchedFairness
-----------------------------------------------------------------------------
(* Properties *)

\* The two halves of the scheduler thread are at places of the same loop.
SchedTypeOK ==
    /\ QueueTypeOK /\ VrowTypeOK
    /\ runs \in [Payloads -> Nat]
    /\ <<lpc, cpc>> \in ({"none", "stop"} \X {"top"})
                   \cup ({"top"} \X {"top", "free", "discount"})
                   \cup ({"find"} \X {"any", "scan"})
                   \cup ({"or"} \X {"scan"})
                   \cup ({"held"} \X {"top", "scan", "unsig", "clear", "read"})
                   \cup ({"wait", "store", "fill"} \X {"held"})

\* The queue of the composed system behaves as the queue alone.
QueueAlone == QueueInit /\ [][QueueNext]_queueVars

\* The vrows of the composed system behave as the vrows alone.
VrowsAlone == VrowInit /\ [][VrowNext]_vrowVars

\* When sched_delete frees the queue, and then the scheduler, no thread is
\* inside either: no push, no turn, no vrow thread.
QuietAtTheEnd ==
    opc = "done" =>
        /\ cpc = "top" /\ lpc = "stop"
        /\ \A p \in Producers : ppc[p] = "idle"
        /\ \A v \in Vrows : tpc[v] = "exit"

\* What a vrow is loaded with is a payload some client pushed, and it is of the
\* range the scheduler counted it under.
LoadsWhatWasPushed ==
    lpc \in {"wait", "store", "fill"} =>
        lload \in pushed /\ ClassOf[lload] = crange

\* No payload is converted twice, by one vrow or by two.
RunsAtMostOnce == \A x \in Payloads : runs[x] <= (IF x \in pushed THEN 1 ELSE 0)

\* sched.h:75, of sched_push: "Blocking schedule of a payload to queue and
\* processing". A payload that was pushed is processed, unless the scheduler
\* is closed first.
PushIsProcessed ==
    \A x \in Payloads : x \in pushed ~> runs[x] > 0 \/ opc # "run"

\* Every sched_push returns, when all payloads are of one range: one into a full
\* range, which spins until a bucket is free, gets one, whatever payloads were
\* lost or processed twice on the way.
PushReturns == \A p \in Producers : ppc[p] # "idle" ~> ppc[p] = "idle"

\* sched_delete returns, whatever the queue and the vrows still hold.
SchedDeleteReturns == opc = "close" ~> opc = "done"
=============================================================================
