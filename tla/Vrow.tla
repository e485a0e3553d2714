-------------------------------- MODULE Vrow --------------------------------
(***************************************************************************)
(* The vrows of the scheduler: pipe/vrow.c, pipe/vrow_thread.c and the     *)
(* bank processors.  A vrow has four payload banks, a byte of status bits  *)
(* toggled by atomic xor, and a thread that moves a payload through banks  *)
(* 0, 1 and 2.  A bit per vrow in the scheduler's map (vrow_smap) says the *)
(* vrow is taken.                                                          *)
(*                                                                         *)
(* Three kinds of thread act here: the vrow threads; the loader, which is  *)
(* the scheduler thread's side of it (claim a vrow, load bank 0, or give   *)
(* the vrow back); and the owner, which creates the vrows and deletes them *)
(* once the loader has stopped.  Every action is one atomic access.        *)
(***************************************************************************)
EXTENDS Pipe

CONSTANTS
    VrowCount,      \* sched_context.vrow_count
    Translates,     \* the payloads whose instruction bank 0 can convert to IR
    Loads,          \* what the loader may find in a bucket
    ThreadsMayFail  \* whether pthread_create may fail

ASSUME VrowAssumption ==
    /\ VrowCount \in Nat \ {0} /\ VrowCount <= QuadBits
    /\ Quads = 1    \* fewer than 64 vrows: vrow_smap is one word
    /\ Translates \subseteq Payloads
    /\ Loads \subseteq Payloads \cup {NoPayload}
    /\ ThreadsMayFail \in BOOLEAN

Vrows == 0 .. VrowCount - 1
Banks == 0 .. 3

\* Bit positions of the status byte (AFAFAFAF, bank 0 lowest).
F(b) == 2 * b
A(b) == 2 * b + 1
StateBits == 0 .. 7

VARIABLES
    tpc,        \* program counter of each vrow's thread
    states,     \* the status byte, as the set of its set bits
    closed,     \* the close request
    bank,       \* bank[v][b]: the payload in bank b
    result,     \* the IR result at the result cell, which lies in bank 1
    vmap,       \* vrow_smap: the vrows taken
    freed,      \* vrows whose memory vrow_delete has freed
    job,        \* history: the payload loaded and not yet done, per vrow
    lpc, lidx, lload,   \* the loader: program counter, vrow, payload
    opc, oidx           \* the owner: program counter, loop index

loadVars == <<lpc, lidx, lload>>
ownVars == <<opc, oidx>>
vrowVars == <<tpc, states, closed, bank, result, vmap, freed, job,
              lpc, lidx, lload, opc, oidx>>

\* The thread's program counters in the order of the loop of vrow_thread_main.
Moving01 == {"fill1", "copy01", "empty0"}
Moving12 == {"fill2", "copy12", "empty1"}
Working == {"sigon", "proc0", "enter1", "leave0"} \cup Moving01
           \cup {"enter2", "leave1"} \cup Moving12 \cup {"sigoff"}
Quitting == {"fail", "zero", "empty"}
ThreadPCs == {"none", "start", "loop", "poll", "work"} \cup Working \cup Quitting \cup {"exit"}

LoaderPCs == {"none", "top", "find", "or", "held", "wait", "store", "fill", "stop"}
OwnerPCs == {"create", "run", "close", "drain", "done"}

VrowTypeOK ==
    /\ tpc \in [Vrows -> ThreadPCs]
    /\ states \in [Vrows -> SUBSET StateBits]
    /\ closed \in [Vrows -> BOOLEAN]
    /\ bank \in [Vrows -> [Banks -> Payloads \cup {NoPayload}]]
    /\ result \in [Vrows -> Payloads \cup {NoPayload}]
    /\ vmap \subseteq MapBits
    /\ freed \subseteq Vrows
    /\ job \in [Vrows -> Payloads \cup {NoPayload}]
    /\ lpc \in LoaderPCs
    /\ lidx \in Vrows
    /\ lload \in Payloads \cup {NoPayload}
    /\ opc \in OwnerPCs
    /\ oidx \in 0 .. VrowCount
    /\ opc = "drain" => oidx < VrowCount

VrowInit ==
    /\ tpc = [v \in Vrows |-> "none"]
    /\ states = [v \in Vrows |-> {}]
    /\ closed = [v \in Vrows |-> FALSE]
    /\ bank = [v \in Vrows |-> [b \in Banks |-> NoPayload]]
    /\ result = [v \in Vrows |-> NoPayload]
    /\ vmap = {}
    /\ freed = {}
    /\ job = [v \in Vrows |-> NoPayload]
    /\ lpc = "none" /\ lidx = 0 /\ lload = NoPayload
    /\ opc = "create" /\ oidx = 0
-----------------------------------------------------------------------------
(* Atomic accesses to a vrow *)

\* vrow_fill_switch and vrow_active_switch: fetch_xor of one status bit.
Toggle(v, k) ==
    states' = [states EXCEPT ![v] = IF k \in @ THEN @ \ {k} ELSE @ \cup {k}]

\* Wrong form: the two banks are exchanged by mistake.
CopyBankBack(v, from, to) ==
    /\ bank' = [bank EXCEPT ![v][from] = bank[v][to]]
    /\ result' = IF from = 1 THEN [result EXCEPT ![v] = NoPayload] ELSE result

\* simd_store_512 from bank `from` to bank `to`: the whole 64 bytes, those of
\* the result cell included when bank 1 is written.
CopyBank(v, from, to) ==
    /\ bank' = [bank EXCEPT ![v][to] = bank[v][from]]
    /\ result' = IF to = 1 THEN [result EXCEPT ![v] = NoPayload] ELSE result

TGo(v, from, to) == tpc[v] = from /\ tpc' = [tpc EXCEPT ![v] = to]
-----------------------------------------------------------------------------
(* vrow_thread_main *)

\* The assertion on entry reads the status byte once.
Start(v) ==
    /\ TGo(v, "start", "loop")
    /\ UNCHANGED <<states, closed, bank, result, vmap, freed, job, loadVars, ownVars>>

\* while (!vrow_is_closed(vrow))
LoopTest(v) ==
    /\ tpc[v] = "loop"
    /\ tpc' = [tpc EXCEPT ![v] = IF closed[v] THEN "zero" ELSE "poll"]
    /\ UNCHANGED <<states, closed, bank, result, vmap, freed, job, loadVars, ownVars>>

\* Wrong form: a turn begins whether or not bank 0 is filled.
PollAlways(v) ==
    /\ TGo(v, "poll", "work")
    /\ UNCHANGED <<states, closed, bank, result, vmap, freed, job, loadVars, ownVars>>

\* if (!vrow_is_filled(vrow, 0)) continue; otherwise A0 is toggled next.
Poll(v) ==
    /\ tpc[v] = "poll"
    /\ tpc' = [tpc EXCEPT ![v] = IF F(0) \in states[v] THEN "work" ELSE "loop"]
    /\ UNCHANGED <<states, closed, bank, result, vmap, freed, job, loadVars, ownVars>>

\* One step that toggles a status bit and goes on.
ToggleStep(v, from, k, to) ==
    /\ TGo(v, from, to)
    /\ Toggle(v, k)
    /\ UNCHANGED <<closed, bank, result, vmap, freed, job, loadVars, ownVars>>

CopyStep(v, from, a, b, to) ==
    /\ TGo(v, from, to)
    /\ CopyBank(v, a, b)
    /\ UNCHANGED <<states, closed, vmap, freed, job, loadVars, ownVars>>

\* Wrong form: sync_map_ref_sigoff in place of sync_map_ref_sigon.
SignalBusyOff(v) ==
    /\ TGo(v, "sigon", "proc0")
    /\ vmap' = vmap \ {v}
    /\ UNCHANGED <<states, closed, bank, result, freed, job, loadVars, ownVars>>

\* sync_map_ref_sigon(smap)
SignalBusy(v) ==
    /\ TGo(v, "sigon", "proc0")
    /\ vmap' = vmap \cup {v}
    /\ UNCHANGED <<states, closed, bank, result, freed, job, loadVars, ownVars>>

\* vrow_bank_0_proc: the instruction of bank 0 is converted and the result is
\* written at payload.result. An instruction and its control block fill 80
\* bytes, so that the result cell lies in bank 1.
Bank0(v) ==
    LET x == bank[v][0]
    IN  /\ tpc[v] = "proc0"
        /\ tpc' = [tpc EXCEPT ![v] = IF x \in Translates THEN "enter1" ELSE "fail"]
        /\ result' = [result EXCEPT ![v] = IF x \in Translates THEN x ELSE NoPayload]
        /\ UNCHANGED <<states, closed, bank, vmap, freed, job, loadVars, ownVars>>

\* The failure branch: sync_map_ref_sigoff, then break.
FailOff(v) ==
    /\ TGo(v, "fail", "zero")
    /\ vmap' = vmap \ {v}
    /\ job' = [job EXCEPT ![v] = NoPayload]
    /\ UNCHANGED <<states, closed, bank, result, freed, loadVars, ownVars>>

\* Wrong form: the vrow is not given back.
FinishOffNot(v) ==
    /\ TGo(v, "sigoff", "loop")
    /\ job' = [job EXCEPT ![v] = NoPayload]
    /\ UNCHANGED <<states, closed, bank, result, vmap, freed, loadVars, ownVars>>

\* End of the turn: sync_map_ref_sigoff.
FinishOff(v) ==
    /\ TGo(v, "sigoff", "loop")
    /\ vmap' = vmap \ {v}
    /\ job' = [job EXCEPT ![v] = NoPayload]
    /\ UNCHANGED <<states, closed, bank, result, freed, loadVars, ownVars>>

\* _vrow_force_flush: four stores over the banks, then the status byte.
FlushBanks(v) ==
    /\ TGo(v, "zero", "empty")
    /\ bank' = [bank EXCEPT ![v] = [b \in Banks |-> NoPayload]]
    /\ result' = [result EXCEPT ![v] = NoPayload]
    /\ job' = [job EXCEPT ![v] = NoPayload]
    /\ UNCHANGED <<states, closed, vmap, freed, loadVars, ownVars>>

\* Wrong form: the flush leaves the status byte.
FlushStatesNot(v) ==
    /\ TGo(v, "empty", "exit")
    /\ UNCHANGED <<states, closed, bank, result, vmap, freed, job, loadVars, ownVars>>

FlushStates(v) ==
    /\ TGo(v, "empty", "exit")
    /\ states' = [states EXCEPT ![v] = {}]
    /\ UNCHANGED <<closed, bank, result, vmap, freed, job, loadVars, ownVars>>

\* Banks 1 and 2 process nothing yet: they return true on a vrow that exists.
ThreadStep(v) ==
    \/ Start(v) \/ LoopTest(v) \/ Poll(v)
    \/ ToggleStep(v, "work", A(0), "sigon")
    \/ SignalBusy(v) \/ Bank0(v) \/ FailOff(v)
    \/ ToggleStep(v, "enter1", A(1), "leave0")
    \/ ToggleStep(v, "leave0", A(0), "fill1")
    \/ ToggleStep(v, "fill1", F(1), "copy01")       \* vrow_bank_swap(0, 1)
    \/ CopyStep(v, "copy01", 0, 1, "empty0")
    \/ ToggleStep(v, "empty0", F(0), "enter2")
    \/ ToggleStep(v, "enter2", A(2), "leave1")
    \/ ToggleStep(v, "leave1", A(1), "fill2")
    \/ ToggleStep(v, "fill2", F(2), "copy12")       \* vrow_bank_swap(1, 2)
    \/ CopyStep(v, "copy12", 1, 2, "empty1")
    \/ ToggleStep(v, "empty1", F(1), "sigoff")
    \/ FinishOff(v)
    \/ FlushBanks(v) \/ FlushStates(v)
-----------------------------------------------------------------------------
(* The loader: the vrow side of sched_main and sched_pop *)

LGo(from, to) == lpc = from /\ lpc' = to

\* The test of sched_is_closed at the top of the loop.
EnterTurn ==
    /\ LGo("top", "find")
    /\ opc = "run"
    /\ UNCHANGED <<tpc, states, closed, bank, result, vmap, freed, job, lidx, lload, ownVars>>

\* Wrong form: the scheduler thread does not say that it has terminated.
StopLoaderSilent == lpc = "top" /\ opc = "close" /\ UNCHANGED vrowVars

StopLoader ==
    /\ LGo("top", "stop")
    /\ opc = "close"
    /\ UNCHANGED <<tpc, states, closed, bank, result, vmap, freed, job, lidx, lload, ownVars>>

\* Nothing is queued, or no vrow is free: continue.
EndTurn ==
    /\ LGo("find", "top")
    /\ UNCHANGED <<tpc, states, closed, bank, result, vmap, freed, job, lidx, lload, ownVars>>

\* Wrong form: taken vrows are offered too.
FreeVrowsAll == MaskFrom(0, 0)

\* The load of sync_map_sig_first(0, vrow_count, vrow_smap).
FreeVrows == SigCandidates(vmap, 0, 0)

FindVrow ==
    /\ LGo("find", "or")
    /\ Hits(FreeVrows, VrowCount)
    /\ lidx' = Least(FreeVrows)
    /\ UNCHANGED <<tpc, states, closed, bank, result, vmap, freed, job, lload, ownVars>>

\* Wrong form: the vrow found is not marked.
TakeVrowUnmarked ==
    /\ LGo("or", "held")
    /\ UNCHANGED <<tpc, states, closed, bank, result, vmap, freed, job, lidx, lload, ownVars>>

\* Its atomic_fetch_or.
TakeVrow ==
    /\ LGo("or", "held")
    /\ vmap' = vmap \cup {lidx}
    /\ UNCHANGED <<tpc, states, closed, bank, result, freed, job, lidx, lload, ownVars>>

\* No bucket was found: sync_map_sigoff of the vrow just taken.
GiveBack ==
    /\ LGo("held", "top")
    /\ vmap' = vmap \ {lidx}
    /\ UNCHANGED <<tpc, states, closed, bank, result, freed, job, lidx, lload, ownVars>>

\* vrow_bank_load(vrow, 0, x) is called with a payload from the queue.
BeginLoad(x) ==
    /\ LGo("held", "wait")
    /\ lload' = x
    /\ UNCHANGED <<tpc, states, closed, bank, result, vmap, freed, job, lidx, ownVars>>

\* Wrong form: bank 0 is loaded whether or not it is empty.
WaitEmptyNot ==
    /\ LGo("wait", "store")
    /\ UNCHANGED <<tpc, states, closed, bank, result, vmap, freed, job, lidx, lload, ownVars>>

\* while (vrow_is_filled(vrow, 0)): no step as long as the bank is full.
WaitEmpty ==
    /\ LGo("wait", "store")
    /\ F(0) \notin states[lidx]
    /\ UNCHANGED <<tpc, states, closed, bank, result, vmap, freed, job, lidx, lload, ownVars>>

\* simd_store_512 of the payload.
StoreBank ==
    /\ LGo("store", "fill")
    /\ bank' = [bank EXCEPT ![lidx][0] = lload]
    /\ UNCHANGED <<tpc, states, closed, result, vmap, freed, job, lidx, lload, ownVars>>

FillBank ==
    /\ LGo("fill", "top")
    /\ Toggle(lidx, F(0))
    /\ job' = [job EXCEPT ![lidx] = lload]
    /\ lload' = NoPayload
    /\ UNCHANGED <<tpc, closed, bank, result, vmap, freed, lidx, ownVars>>

-----------------------------------------------------------------------------
(* The owner: sched_create and sched_delete as they treat vrows *)

OGo(from, to) == opc = from /\ opc' = to

\* Wrong form: the thread is started before A0 is set.
CreateVrowBare ==
    /\ opc = "create" /\ oidx < VrowCount
    /\ tpc' = [tpc EXCEPT ![oidx] = "start"]
    /\ oidx' = oidx + 1
    /\ UNCHANGED <<opc, states, closed, bank, result, vmap, freed, job, loadVars>>

\* vrow_create: the status byte is emptied, A0 set, and the thread started.
CreateVrow ==
    /\ opc = "create" /\ oidx < VrowCount
    /\ tpc' = [tpc EXCEPT ![oidx] = "start"]
    /\ states' = [states EXCEPT ![oidx] = {A(0)}]
    /\ oidx' = oidx + 1
    /\ UNCHANGED <<opc, closed, bank, result, vmap, freed, job, loadVars>>

\* vrow_create fails and sched_create calls sched_delete, which closes the
\* scheduler and waits for a scheduler thread that was never created.
CreateFails ==
    /\ ThreadsMayFail
    /\ OGo("create", "close") /\ oidx < VrowCount
    /\ oidx' = 0
    /\ UNCHANGED <<tpc, states, closed, bank, result, vmap, freed, job, loadVars>>

\* All vrows exist: the scheduler thread is created. The result of this
\* pthread_create is not looked at.
StartLoader ==
    /\ OGo("create", "run") /\ oidx = VrowCount
    /\ lpc' = "top" \/ (ThreadsMayFail /\ lpc' = "none")
    /\ UNCHANGED <<tpc, states, closed, bank, result, vmap, freed, job, lidx, lload, oidx>>

\* sched_close.
CloseSched ==
    /\ OGo("run", "close")
    /\ oidx' = 0
    /\ UNCHANGED <<tpc, states, closed, bank, result, vmap, freed, job, loadVars>>

\* Wrong form: one vrow too many is deleted.
CloseVrowPastEnd ==
    /\ opc = "close" /\ lpc = "stop" /\ oidx <= VrowCount
    /\ opc' = "drain"
    /\ closed' = [closed EXCEPT ![oidx] = TRUE]
    /\ UNCHANGED <<tpc, states, bank, result, vmap, freed, job, loadVars, oidx>>

\* sched_is_terminated has been seen; vrow_delete of the next vrow: the close.
CloseVrow ==
    /\ opc = "close" /\ lpc = "stop" /\ oidx < VrowCount
    /\ opc' = "drain"
    /\ closed' = [closed EXCEPT ![oidx] = TRUE]
    /\ UNCHANGED <<tpc, states, bank, result, vmap, freed, job, loadVars, oidx>>

\* Wrong form: the vrow is freed without waiting.
FreeVrowEarly ==
    /\ OGo("drain", "close")
    /\ freed' = freed \cup {oidx}
    /\ oidx' = oidx + 1
    /\ UNCHANGED <<tpc, states, closed, bank, result, vmap, job, loadVars>>

\* vrow_delete: wait for the empty status byte, free the vrow.
FreeVrow ==
    /\ OGo("drain", "close")
    /\ states[oidx] = {}
    /\ freed' = freed \cup {oidx}
    /\ oidx' = oidx + 1
    /\ UNCHANGED <<tpc, states, closed, bank, result, vmap, job, loadVars>>

\* The rest of sched_delete.
FinishDelete ==
    /\ OGo("close", "done") /\ lpc = "stop" /\ oidx = VrowCount
    /\ UNCHANGED <<tpc, states, closed, bank, result, vmap, freed, job, loadVars, oidx>>

LoaderStep ==
    \/ EnterTurn \/ StopLoader \/ EndTurn
    \/ FindVrow \/ TakeVrow \/ GiveBack
    \/ \E x \in Loads : BeginLoad(x)
    \/ WaitEmpty \/ StoreBank \/ FillBank

OwnerStep ==
    CreateVrow \/ CreateFails \/ StartLoader \/ CloseSched \/ CloseVrow \/ FreeVrow \/ FinishDelete

VrowNext == (\E v \in Vrows : ThreadStep(v)) \/ LoaderStep \/ OwnerStep

\* Each thread of the program is scheduled again and again. The owner need
\* not delete the scheduler, but goes on with a deletion it has begun.
VrowFairness ==
    /\ \A v \in Vrows : WF_vrowVars(ThreadStep(v))
    /\ WF_vrowVars(LoaderStep)
    /\ WF_vrowVars(opc # "run" /\ OwnerStep)

VrowSpec == VrowInit /\ [][VrowNext]_vrowVars /\ VrowFairness
-----------------------------------------------------------------------------
(* Properties *)

Running(v) == tpc[v] \notin {"none", "exit"}

\* vrow_delete takes an empty status byte for "all threads disposed". So the
\* xor toggles of the thread, in whatever parity the former payloads left
\* them, must never make the byte empty while the thread runs.
RunningIsNotEmpty == \A v \in Vrows : Running(v) => states[v] # {}

\* vrow_delete frees a vrow only when neither its thread nor the scheduler
\* will touch it again.
NoUseAfterFree ==
    \A v \in freed : tpc[v] = "exit" /\ lpc = "stop"

\* Bank 0 belongs to one side at a time: while the scheduler writes it, the
\* vrow's thread neither converts, moves nor zeroes it.
BankZeroExclusive ==
    lpc \in {"store", "fill"} =>
        tpc[lidx] \notin {"proc0", "copy01", "zero"}

\* A vrow with work in it stays taken in vrow_smap, so that the scheduler's
\* search never hands out a vrow whose thread has not finished.
BusyIsTaken ==
    \A v \in Vrows : tpc[v] \in Working => v \in vmap

\* The loader hands a vrow a payload only when the former one is done, and
\* what reaches the end of bank 2 is the payload that was loaded.
OneJobAtATime ==
    /\ lpc \in {"store", "fill"} => job[lidx] = NoPayload
    /\ \A v \in Vrows : tpc[v] = "sigoff" =>
            job[v] # NoPayload /\ bank[v][2] = job[v]

\* vrow_bank_load spins only on a vrow whose thread is failing; a vrow that
\* the map shows as free is empty otherwise.
LoadSpinsOnlyOnFailure ==
    lpc = "wait" /\ F(0) \in states[lidx] =>
        tpc[lidx] \in {"zero", "empty"}

\* The vrows are the workers of the pool the scheduler believes in.
Pool == INSTANCE WorkerPool WITH
    Workers <- Vrows,
    Jobs <- Payloads,
    NoJob <- NoPayload,
    worker <- [v \in Vrows |-> IF job[v] # NoPayload THEN "busy"
                               ELSE IF v \in vmap THEN "reserved" ELSE "idle"]

\* The toggled bytes, the two copies and the early sigoff of a failing thread
\* implement the pool: no vrow is given work before its former work is over,
\* and no work stays in a vrow for ever.
ImplementsPool == Pool!PoolSpec

\* sched_delete hangs for two reasons only: there is no scheduler thread, because
\* sched_create failed before or at its creation, or a vrow was loaded after
\* its thread had failed and flushed it. A vrow_bank_load in progress, a thread
\* in the midst of its banks and a failing one are all waited for.
DeleteHangsOnlyOnFailure ==
    opc = "close" ~> \/ opc = "done"
                     \/ lpc = "none"
                     \/ \E v \in Vrows : tpc[v] = "exit" /\ states[v] = {F(0)}

\* vrow.h:67 says that on any close the thread exits and empties the states.
CloseEmptiesStates ==
    \A v \in Vrows : closed[v] ~> states[v] = {}
=============================================================================
