----------------------------- MODULE VrowProofs -----------------------------
(***************************************************************************)
(* Proofs about the vrows, for every number of vrows and every set of      *)
(* payloads.                                                               *)
(***************************************************************************)
EXTENDS Vrow, SyncMapProofs, TLAPS

-----------------------------------------------------------------------------
(* Type correctness *)

\* The vrow indices are indices of vrow_smap.
LEMMA VrowsInMap == Vrows \subseteq MapBits
<1>1. QuadBits * Quads = QuadBits
  BY SyncMapAssumption, VrowAssumption
<1> QED
  BY <1>1, SyncMapAssumption, VrowAssumption DEF Vrows, MapBits

\* A step of a vrow thread keeps the types.
LEMMA ThreadType ==
    ASSUME VrowTypeOK, NEW v \in Vrows, ThreadStep(v)
    PROVE  VrowTypeOK'
<1> USE DEF ThreadPCs, Working, Moving01, Moving12, Quitting, loadVars, ownVars, TGo
<1> USE DEF VrowTypeOK
<1>1. ASSUME NEW from, NEW k \in StateBits, NEW to \in ThreadPCs,
             ToggleStep(v, from, k, to)
      PROVE  VrowTypeOK'
  <2>1. states' \in [Vrows -> SUBSET StateBits]
    BY <1>1 DEF ToggleStep, Toggle
  <2>2. tpc' \in [Vrows -> ThreadPCs]
    BY <1>1 DEF ToggleStep
  <2> QED BY <1>1, <2>1, <2>2 DEF ToggleStep
<1>2. ASSUME NEW from, NEW a \in Banks, NEW b \in Banks, NEW to \in ThreadPCs,
             CopyStep(v, from, a, b, to)
      PROVE  VrowTypeOK'
  <2>1. tpc' \in [Vrows -> ThreadPCs]
    BY <1>2 DEF CopyStep
  <2> QED BY <1>2, <2>1 DEF CopyStep, CopyBank
<1>3. CASE Start(v) \/ LoopTest(v) \/ Poll(v)
  <2>1. tpc' \in [Vrows -> ThreadPCs]
    BY <1>3 DEF Start, LoopTest, Poll
  <2> QED BY <1>3, <2>1 DEF Start, LoopTest, Poll
<1>4. CASE SignalBusy(v) \/ FailOff(v) \/ FinishOff(v)
  <2>1. tpc' \in [Vrows -> ThreadPCs]
    BY <1>4 DEF SignalBusy, FailOff, FinishOff
  <2>2. vmap' \subseteq MapBits
    BY <1>4, VrowsInMap DEF SignalBusy, FailOff, FinishOff
  <2>3. job' \in [Vrows -> Payloads \cup {NoPayload}]
    BY <1>4 DEF SignalBusy, FailOff, FinishOff
  <2> QED BY <1>4, <2>1, <2>2, <2>3 DEF SignalBusy, FailOff, FinishOff
<1>5. CASE Bank0(v)
  <2>1. tpc' \in [Vrows -> ThreadPCs]
    BY <1>5 DEF Bank0
  <2>2. result' \in [Vrows -> Payloads \cup {NoPayload}]
    BY <1>5, VrowAssumption DEF Bank0
  <2> QED BY <1>5, <2>1, <2>2 DEF Bank0
<1>6. CASE FlushBanks(v)
  <2>1. tpc' \in [Vrows -> ThreadPCs]
    BY <1>6 DEF FlushBanks
  <2>2. job' \in [Vrows -> Payloads \cup {NoPayload}]
    BY <1>6 DEF FlushBanks
  <2> QED BY <1>6, <2>1, <2>2 DEF FlushBanks
<1>7. CASE FlushStates(v)
  <2>1. tpc' \in [Vrows -> ThreadPCs]
    BY <1>7 DEF FlushStates
  <2> QED BY <1>7, <2>1 DEF FlushStates
<1>8. {A(0), A(1), A(2), F(0), F(1), F(2)} \subseteq StateBits /\ {0, 1, 2} \subseteq Banks
  BY DEF A, F, StateBits, Banks
<1> QED
  BY <1>1, <1>2, <1>3, <1>4, <1>5, <1>6, <1>7, <1>8 DEF ThreadStep

\* A step of the loader keeps the types.
LEMMA LoaderType == ASSUME VrowTypeOK, LoaderStep PROVE VrowTypeOK'
<1> USE DEF VrowTypeOK, LoaderPCs, ownVars, LGo
<1>1. CASE EnterTurn \/ StopLoader \/ EndTurn \/ WaitEmpty
  BY <1>1 DEF EnterTurn, StopLoader, EndTurn, WaitEmpty
<1>2. CASE FindVrow
  <2>1. lidx' \in Vrows
    <3>1. Hits(SigCandidates(vmap, 0, 0), VrowCount)
      BY <1>2 DEF FindVrow, FreeVrows
    <3>2. lidx' \in QuadSpan(0) /\ lidx' < VrowCount
      BY <1>2, <3>1, SigHit, VrowAssumption DEF FindVrow, FreeVrows
    <3> QED BY <3>2, SyncMapAssumption, VrowAssumption DEF QuadSpan, Vrows
  <2> QED BY <1>2, <2>1 DEF FindVrow
<1>3. CASE TakeVrow \/ GiveBack
  BY <1>3, VrowsInMap DEF TakeVrow, GiveBack
<1>4. ASSUME NEW x \in Loads, BeginLoad(x) PROVE VrowTypeOK'
  BY <1>4, VrowAssumption DEF BeginLoad
<1>5. CASE StoreBank
  BY <1>5 DEF StoreBank, Banks
<1>6. CASE FillBank
  <2>1. states' \in [Vrows -> SUBSET StateBits]
    BY <1>6 DEF FillBank, Toggle, F, StateBits
  <2> QED BY <1>6, <2>1 DEF FillBank
<1> QED
  BY <1>1, <1>2, <1>3, <1>4, <1>5, <1>6 DEF LoaderStep

\* A step of the owner keeps the types.
LEMMA OwnerType == ASSUME VrowTypeOK, OwnerStep PROVE VrowTypeOK'
<1> USE VrowAssumption DEF VrowTypeOK, OwnerPCs, loadVars, OGo, Vrows
<1>1. CASE CreateVrow
  BY <1>1 DEF CreateVrow, ThreadPCs, A, StateBits
<1>2. CASE StartLoader
  BY <1>2 DEF StartLoader, LoaderPCs
<1>7. CASE CreateFails
  BY <1>7 DEF CreateFails
<1>5. CASE CloseSched
  BY <1>5 DEF CloseSched
<1>6. CASE FinishDelete
  BY <1>6 DEF FinishDelete
<1>3. CASE CloseVrow
  BY <1>3 DEF CloseVrow
<1>4. CASE FreeVrow
  <2>1. oidx \in Vrows
    BY <1>4 DEF FreeVrow
  <2> QED BY <1>4, <2>1 DEF FreeVrow
<1> QED
  BY <1>1, <1>2, <1>3, <1>4, <1>5, <1>6, <1>7 DEF OwnerStep

\* Every step keeps the types.
LEMMA TypeStep == VrowTypeOK /\ [VrowNext]_vrowVars => VrowTypeOK'
<1> SUFFICES ASSUME VrowTypeOK, [VrowNext]_vrowVars PROVE VrowTypeOK'
  OBVIOUS
<1>1. CASE VrowNext
  BY <1>1, ThreadType, LoaderType, OwnerType DEF VrowNext
<1>2. CASE UNCHANGED vrowVars
  BY <1>2 DEF vrowVars, VrowTypeOK
<1> QED BY <1>1, <1>2

\* The types hold at the start.
LEMMA TypeInit == VrowInit => VrowTypeOK
BY VrowAssumption
DEF VrowInit, VrowTypeOK, ThreadPCs, LoaderPCs, OwnerPCs, Vrows

\* The vrows' variables always have their types.
THEOREM VrowTypes == VrowSpec => []VrowTypeOK
<1>1. VrowInit => VrowTypeOK
  BY TypeInit
<1>2. VrowTypeOK /\ [VrowNext]_vrowVars => VrowTypeOK'
  BY TypeStep
<1> QED BY <1>1, <1>2, PTL DEF VrowSpec

-----------------------------------------------------------------------------
(* The status byte *)

\* Where the toggles leave the two bits of bank 0, whatever parity the bits of
\* the other banks have.
HasF0 == {"work", "sigon", "proc0", "fail", "enter1", "leave0",
          "fill1", "copy01", "empty0"}
HasA0 == {"start", "loop", "poll", "work", "fill1", "copy01", "empty0",
          "enter2", "leave1", "fill2", "copy12", "empty1", "sigoff"}
NoA0 == {"sigon", "proc0", "fail", "enter1", "leave0"}

FlagsOf(v) ==
    /\ tpc[v] \in HasF0 => F(0) \in states[v]
    /\ tpc[v] \in HasA0 => A(0) \in states[v]
    /\ tpc[v] \in NoA0 => A(0) \notin states[v]
    /\ tpc[v] \in {"zero", "empty"} =>
          F(0) \in states[v] \/ (closed[v] /\ A(0) \in states[v])

FlagInv == \A v \in Vrows : FlagsOf(v)

\* The loader writes bank 0 only while F0 is clear.
LoadInv == lpc \in {"store", "fill"} => F(0) \notin states[lidx]

\* The order of creation, run, close and deletion.
LifeInv ==
    /\ opc = "create" => lpc = "none"
    /\ opc = "run" => lpc # "stop"
    /\ opc \in {"drain", "done"} => lpc = "stop"
    /\ \A v \in Vrows : closed[v] =>
          opc \in {"close", "drain", "done"} /\ lpc = "stop"
    /\ \A v \in Vrows : tpc[v] = "none" =>
          lpc = "none" /\ (opc = "create" => oidx <= v) /\ opc # "run"
    /\ \A v \in freed : tpc[v] = "exit" /\ lpc = "stop"

StateInv == VrowTypeOK /\ FlagInv /\ LoadInv /\ LifeInv

\* The toggles of a vrow's thread never empty the status byte while it runs,
\* and never while the loader counts on F0 being clear.
LEMMA ThreadState ==
    ASSUME StateInv, NEW v \in Vrows, ThreadStep(v)
    PROVE  FlagInv' /\ LoadInv' /\ LifeInv'
<1> USE DEF StateInv, VrowTypeOK, FlagInv, FlagsOf, LoadInv, LifeInv, HasF0, HasA0, NoA0,
            TGo, A, F, loadVars, ownVars
<1>1. CASE ToggleStep(v, "work", A(0), "sigon")
  BY <1>1 DEF ToggleStep, Toggle
<1>2. CASE ToggleStep(v, "enter1", A(1), "leave0")
  BY <1>2 DEF ToggleStep, Toggle
<1>3. CASE ToggleStep(v, "leave0", A(0), "fill1")
  BY <1>3 DEF ToggleStep, Toggle
<1>4. CASE ToggleStep(v, "fill1", F(1), "copy01")
  BY <1>4 DEF ToggleStep, Toggle
<1>5. CASE ToggleStep(v, "empty0", F(0), "enter2")
  BY <1>5 DEF ToggleStep, Toggle
<1>6. CASE ToggleStep(v, "enter2", A(2), "leave1")
  BY <1>6 DEF ToggleStep, Toggle
<1>7. CASE ToggleStep(v, "leave1", A(1), "fill2")
  BY <1>7 DEF ToggleStep, Toggle
<1>8. CASE ToggleStep(v, "fill2", F(2), "copy12")
  BY <1>8 DEF ToggleStep, Toggle
<1>9. CASE ToggleStep(v, "empty1", F(1), "sigoff")
  BY <1>9 DEF ToggleStep, Toggle
<1>10. CASE CopyStep(v, "copy01", 0, 1, "empty0") \/ CopyStep(v, "copy12", 1, 2, "empty1")
  BY <1>10 DEF CopyStep
<1>11. CASE Start(v)
  BY <1>11 DEF Start
<1>12. CASE LoopTest(v)
  BY <1>12 DEF LoopTest
<1>13. CASE Poll(v)
  BY <1>13 DEF Poll
<1>14. CASE SignalBusy(v)
  BY <1>14 DEF SignalBusy
<1>15. CASE Bank0(v)
  BY <1>15 DEF Bank0
<1>16. CASE FailOff(v)
  BY <1>16 DEF FailOff
<1>17. CASE FinishOff(v)
  BY <1>17 DEF FinishOff
<1>18. CASE FlushBanks(v)
  BY <1>18 DEF FlushBanks
<1>19. CASE FlushStates(v)
  BY <1>19 DEF FlushStates
<1> QED
  BY <1>1, <1>2, <1>3, <1>4, <1>5, <1>6, <1>7, <1>8, <1>9, <1>10, <1>11, <1>12, <1>13, <1>14, <1>15, <1>16, <1>17, <1>18, <1>19
  DEF ThreadStep

\* The loader toggles F0 only where it is clear, and so only sets it.
LEMMA LoaderState ==
    ASSUME StateInv, LoaderStep
    PROVE  FlagInv' /\ LoadInv' /\ LifeInv'
<1> USE DEF StateInv, VrowTypeOK, FlagInv, FlagsOf, LoadInv, LifeInv, HasF0, HasA0, NoA0,
            LGo, A, F, ownVars
<1>1. CASE EnterTurn
  BY <1>1 DEF EnterTurn
<1>2. CASE StopLoader
  BY <1>2 DEF StopLoader
<1>3. CASE EndTurn
  BY <1>3 DEF EndTurn
<1>4. CASE FindVrow
  BY <1>4 DEF FindVrow
<1>5. CASE TakeVrow \/ GiveBack
  BY <1>5 DEF TakeVrow, GiveBack
<1>6. CASE \E x \in Loads : BeginLoad(x)
  BY <1>6 DEF BeginLoad
<1>7. CASE WaitEmpty
  BY <1>7 DEF WaitEmpty
<1>8. CASE StoreBank
  BY <1>8 DEF StoreBank
<1>9. CASE FillBank
  BY <1>9 DEF FillBank, Toggle
<1> QED
  BY <1>1, <1>2, <1>3, <1>4, <1>5, <1>6, <1>7, <1>8, <1>9
  DEF LoaderStep

\* The owner touches a vrow before its thread runs, or after the loader stopped;
\* it frees one whose status byte is empty, so that its thread has exited.
LEMMA OwnerState ==
    ASSUME StateInv, OwnerStep
    PROVE  FlagInv' /\ LoadInv' /\ LifeInv'
<1> USE DEF StateInv, VrowTypeOK, FlagInv, FlagsOf, LoadInv, LifeInv, HasF0, HasA0, NoA0,
            OGo, A, F, loadVars
<1>1. CASE CreateVrow
  BY <1>1 DEF CreateVrow, Vrows
<1>2. CASE StartLoader
  BY <1>2 DEF StartLoader, Vrows
<1>3. CASE CloseSched
  BY <1>3 DEF CloseSched
<1>4. CASE CloseVrow
  BY <1>4 DEF CloseVrow
<1>5. CASE FreeVrow
  <2>1. oidx \in Vrows /\ lpc = "stop" /\ states[oidx] = {}
    BY <1>5, VrowAssumption DEF FreeVrow, Vrows
  <2>2. tpc[oidx] = "exit"
    BY <1>5, <2>1 DEF FreeVrow, ThreadPCs, Working, Moving01, Moving12, Quitting
  <2> QED BY <1>5, <2>1, <2>2 DEF FreeVrow
<1>6. CASE FinishDelete
  BY <1>6 DEF FinishDelete
<1>7. CASE CreateFails
  BY <1>7 DEF CreateFails
<1> QED
  BY <1>1, <1>2, <1>3, <1>4, <1>5, <1>6, <1>7
  DEF OwnerStep

LEMMA StateInvStep == StateInv /\ [VrowNext]_vrowVars => StateInv'
<1> SUFFICES ASSUME StateInv, [VrowNext]_vrowVars PROVE StateInv'
  OBVIOUS
<1>1. VrowTypeOK'
  BY TypeStep DEF StateInv
<1>2. CASE VrowNext
  BY <1>1, <1>2, ThreadState, LoaderState, OwnerState DEF VrowNext, StateInv
<1>3. CASE UNCHANGED vrowVars
  BY <1>1, <1>3 DEF vrowVars, StateInv, FlagInv, FlagsOf, LoadInv, LifeInv
<1> QED BY <1>2, <1>3

LEMMA StateInvInit == VrowInit => StateInv
<1> SUFFICES ASSUME VrowInit PROVE StateInv
  OBVIOUS
<1>1. VrowTypeOK
  BY TypeInit
<1> QED
  BY <1>1, VrowAssumption
  DEF VrowInit, StateInv, FlagInv, FlagsOf, LoadInv, LifeInv, HasF0, HasA0, NoA0, Vrows

\* What the invariant gives.
LEMMA StateInvGives ==
    StateInv => RunningIsNotEmpty /\ NoUseAfterFree /\ BankZeroExclusive
<1> SUFFICES ASSUME StateInv
             PROVE  RunningIsNotEmpty /\ NoUseAfterFree /\ BankZeroExclusive
  OBVIOUS
<1> USE DEF StateInv, VrowTypeOK, FlagInv, FlagsOf, LoadInv, LifeInv, HasF0, HasA0
<1>1. RunningIsNotEmpty
  BY DEF RunningIsNotEmpty, Running, ThreadPCs, Working, Moving01, Moving12, Quitting
<1>2. NoUseAfterFree
  BY DEF NoUseAfterFree
<1>3. BankZeroExclusive
  BY DEF BankZeroExclusive
<1> QED BY <1>1, <1>2, <1>3

\* The status byte of a vrow is never empty while its thread runs, in every
\* run of every number of vrows: vrow_delete may take the empty byte for
\* "all threads disposed".
THEOREM RunningIsNotEmptyHolds == VrowSpec => []RunningIsNotEmpty
<1>1. StateInv => RunningIsNotEmpty
  BY StateInvGives
<1> QED BY <1>1, StateInvInit, StateInvStep, PTL DEF VrowSpec

\* No vrow's memory is used after vrow_delete freed it.
THEOREM NoUseAfterFreeHolds == VrowSpec => []NoUseAfterFree
<1>1. StateInv => NoUseAfterFree
  BY StateInvGives
<1> QED BY <1>1, StateInvInit, StateInvStep, PTL DEF VrowSpec

\* The scheduler and the vrow's thread never use bank 0 at the same time.
THEOREM BankZeroExclusiveHolds == VrowSpec => []BankZeroExclusive
<1>1. StateInv => BankZeroExclusive
  BY StateInvGives
<1> QED BY <1>1, StateInvInit, StateInvStep, PTL DEF VrowSpec

-----------------------------------------------------------------------------
(* Work: who has a vrow and what is in its banks *)

\* A vrow the scheduler may have: its thread is not in a turn and will not
\* begin one (a full bank 0 is about to be flushed).
Idle(v) ==
    /\ tpc[v] \notin Working \cup {"work", "fail"}
    /\ F(0) \in states[v] => tpc[v] \in {"zero", "empty"}

\* vrow_smap: a free vrow is idle, and so is the one the loader has.
TakeInv ==
    /\ \A v \in Vrows : v \notin vmap => Idle(v)
    /\ lpc \in {"or", "held", "wait", "store", "fill"} => Idle(lidx)
    /\ lpc \in {"held", "wait", "store", "fill"} => lidx \in vmap
    /\ \A v \in Vrows :
          tpc[v] \in {"enter2", "leave1", "fill2", "copy12", "empty1", "sigoff"} =>
              F(0) \notin states[v]

\* The payload a thread works on is the one loaded, bank after bank.
JobOf(v) ==
    /\ job[v] # NoPayload => tpc[v] \in Working \cup {"fail"} \/ F(0) \in states[v]
    /\ tpc[v] = "empty" => job[v] = NoPayload
    /\ tpc[v] \in {"start", "loop", "poll", "work", "sigon", "proc0"} =>
          (F(0) \in states[v] => bank[v][0] = job[v])
    /\ tpc[v] \in {"enter1", "leave0", "fill1", "copy01"} =>
          bank[v][0] = job[v] /\ job[v] \in Translates
    /\ tpc[v] \in {"empty0", "enter2", "leave1", "fill2", "copy12"} =>
          bank[v][1] = job[v] /\ job[v] \in Translates
    /\ tpc[v] \in {"empty1", "sigoff"} =>
          bank[v][2] = job[v] /\ job[v] \in Translates

JobInv ==
    /\ \A v \in Vrows : JobOf(v)
    /\ lpc = "fill" => bank[lidx][0] = lload
    /\ opc = "create" => \A v \in Vrows : job[v] = NoPayload

WorkInv == StateInv /\ TakeInv /\ JobInv

\* A thread works only in a vrow that is taken, and carries one payload.
LEMMA ThreadWork ==
    ASSUME WorkInv, NEW v \in Vrows, ThreadStep(v)
    PROVE  TakeInv' /\ JobInv'
<1> USE VrowAssumption, PayloadAssumption
    DEF WorkInv, StateInv, VrowTypeOK, FlagInv, FlagsOf, LoadInv, LifeInv,
        HasF0, HasA0, NoA0, TakeInv, Idle, JobInv, JobOf,
        Working, Moving01, Moving12, TGo, A, F, loadVars, ownVars
<1>1. CASE ToggleStep(v, "work", A(0), "sigon")
  BY <1>1 DEF ToggleStep, Toggle
<1>2. CASE ToggleStep(v, "enter1", A(1), "leave0")
  BY <1>2 DEF ToggleStep, Toggle
<1>3. CASE ToggleStep(v, "leave0", A(0), "fill1")
  BY <1>3 DEF ToggleStep, Toggle
<1>4. CASE ToggleStep(v, "fill1", F(1), "copy01")
  BY <1>4 DEF ToggleStep, Toggle
<1>5. CASE ToggleStep(v, "empty0", F(0), "enter2")
  BY <1>5 DEF ToggleStep, Toggle
<1>6. CASE ToggleStep(v, "enter2", A(2), "leave1")
  BY <1>6 DEF ToggleStep, Toggle
<1>7. CASE ToggleStep(v, "leave1", A(1), "fill2")
  BY <1>7 DEF ToggleStep, Toggle
<1>8. CASE ToggleStep(v, "fill2", F(2), "copy12")
  BY <1>8 DEF ToggleStep, Toggle
<1>9. CASE ToggleStep(v, "empty1", F(1), "sigoff")
  BY <1>9 DEF ToggleStep, Toggle
<1>10. CASE CopyStep(v, "copy01", 0, 1, "empty0")
  BY <1>10 DEF CopyStep, CopyBank, Banks
<1>11. CASE CopyStep(v, "copy12", 1, 2, "empty1")
  BY <1>11 DEF CopyStep, CopyBank, Banks
<1>12. CASE Start(v)
  BY <1>12 DEF Start
<1>13. CASE LoopTest(v)
  BY <1>13 DEF LoopTest
<1>14. CASE Poll(v)
  BY <1>14 DEF Poll
<1>15. CASE SignalBusy(v)
  BY <1>15 DEF SignalBusy
<1>16. CASE Bank0(v)
  BY <1>16 DEF Bank0
<1>17. CASE FailOff(v)
  BY <1>17 DEF FailOff
<1>18. CASE FinishOff(v)
  BY <1>18 DEF FinishOff
<1>19. CASE FlushBanks(v)
  BY <1>19 DEF FlushBanks
<1>20. CASE FlushStates(v)
  BY <1>20 DEF FlushStates
<1> QED
  BY <1>1, <1>2, <1>3, <1>4, <1>5, <1>6, <1>7, <1>8, <1>9, <1>10,
     <1>11, <1>12, <1>13, <1>14, <1>15, <1>16, <1>17, <1>18, <1>19,
     <1>20
  DEF ThreadStep

\* The search of vrow_smap settles on a vrow that is free.
LEMMA FindVrowIsFree ==
    ASSUME FindVrow PROVE lidx' \in Vrows /\ lidx' \notin vmap
<1>1. Hits(SigCandidates(vmap, 0, 0), VrowCount)
  BY DEF FindVrow, FreeVrows
<1>2. lidx' \in QuadSpan(0) /\ lidx' < VrowCount /\ lidx' \notin vmap
  BY <1>1, SigHit, VrowAssumption DEF FindVrow, FreeVrows
<1> QED BY <1>2, SyncMapAssumption, VrowAssumption DEF QuadSpan, Vrows

\* The loader takes free vrows only and fills the bank with its payload.
LEMMA LoaderWork ==
    ASSUME WorkInv, LoaderStep
    PROVE  TakeInv' /\ JobInv'
<1> USE VrowAssumption, PayloadAssumption
    DEF WorkInv, StateInv, VrowTypeOK, FlagInv, FlagsOf, LoadInv, LifeInv,
        HasF0, HasA0, NoA0, TakeInv, Idle, JobInv, JobOf,
        Working, Moving01, Moving12, LGo, A, F, ownVars
<1>1. CASE EnterTurn
  BY <1>1 DEF EnterTurn
<1>2. CASE StopLoader
  BY <1>2 DEF StopLoader
<1>3. CASE EndTurn
  BY <1>3 DEF EndTurn
<1>4. CASE TakeVrow \/ GiveBack
  BY <1>4 DEF TakeVrow, GiveBack
<1>5. CASE \E x \in Loads : BeginLoad(x)
  BY <1>5 DEF BeginLoad
<1>6. CASE WaitEmpty
  BY <1>6 DEF WaitEmpty
<1>7. CASE StoreBank
  BY <1>7 DEF StoreBank, Banks
<1>8. CASE FillBank
  BY <1>8 DEF FillBank, Toggle
<1>9. CASE FindVrow
  <2>1. lidx' \in Vrows /\ lidx' \notin vmap
    BY <1>9, FindVrowIsFree
  <2> QED BY <1>9, <2>1 DEF FindVrow
<1> QED
  BY <1>1, <1>2, <1>3, <1>4, <1>5, <1>6, <1>7, <1>8, <1>9
  DEF LoaderStep

\* The owner creates vrows before the loader runs.
LEMMA OwnerWork ==
    ASSUME WorkInv, OwnerStep
    PROVE  TakeInv' /\ JobInv'
<1> USE VrowAssumption, PayloadAssumption
    DEF WorkInv, StateInv, VrowTypeOK, FlagInv, FlagsOf, LoadInv, LifeInv,
        HasF0, HasA0, NoA0, TakeInv, Idle, JobInv, JobOf,
        Working, Moving01, Moving12, OGo, A, F, loadVars
<1>1. CASE CreateVrow
  BY <1>1 DEF CreateVrow, Vrows
<1>2. CASE StartLoader
  BY <1>2 DEF StartLoader
<1>3. CASE CloseSched
  BY <1>3 DEF CloseSched
<1>4. CASE CloseVrow
  BY <1>4 DEF CloseVrow
<1>5. CASE FreeVrow
  BY <1>5 DEF FreeVrow
<1>6. CASE FinishDelete
  BY <1>6 DEF FinishDelete
<1>7. CASE CreateFails
  BY <1>7 DEF CreateFails
<1> QED
  BY <1>1, <1>2, <1>3, <1>4, <1>5, <1>6, <1>7
  DEF OwnerStep

LEMMA WorkInvStep == WorkInv /\ [VrowNext]_vrowVars => WorkInv'
<1> SUFFICES ASSUME WorkInv, [VrowNext]_vrowVars PROVE WorkInv'
  OBVIOUS
<1>1. StateInv'
  BY StateInvStep DEF WorkInv
<1>2. CASE VrowNext
  BY <1>1, <1>2, ThreadWork, LoaderWork, OwnerWork DEF VrowNext, WorkInv
<1>3. CASE UNCHANGED vrowVars
  BY <1>1, <1>3 DEF vrowVars, WorkInv, TakeInv, Idle, JobInv, JobOf
<1> QED BY <1>2, <1>3

LEMMA WorkInvInit == VrowInit => WorkInv
<1> SUFFICES ASSUME VrowInit PROVE WorkInv
  OBVIOUS
<1>1. StateInv
  BY StateInvInit
<1>2. TakeInv /\ JobInv
  BY VrowAssumption
  DEF VrowInit, TakeInv, Idle, JobInv, JobOf, Working, Moving01, Moving12, Vrows
<1> QED BY <1>1, <1>2 DEF WorkInv

\* What the invariant gives.
LEMMA WorkInvGives ==
    WorkInv => BusyIsTaken /\ OneJobAtATime /\ LoadSpinsOnlyOnFailure
<1> SUFFICES ASSUME WorkInv
             PROVE  BusyIsTaken /\ OneJobAtATime /\ LoadSpinsOnlyOnFailure
  OBVIOUS
<1> USE VrowAssumption, PayloadAssumption
    DEF WorkInv, TakeInv, Idle, JobInv, JobOf, StateInv, VrowTypeOK, LoadInv
<1>1. BusyIsTaken
  BY DEF BusyIsTaken
<1>2. OneJobAtATime
  BY DEF OneJobAtATime
<1>3. LoadSpinsOnlyOnFailure
  BY DEF LoadSpinsOnlyOnFailure
<1> QED BY <1>1, <1>2, <1>3

\* A vrow whose thread is in a turn is marked as taken in vrow_smap.
THEOREM BusyIsTakenHolds == VrowSpec => []BusyIsTaken
<1>1. WorkInv => BusyIsTaken
  BY WorkInvGives
<1> QED BY <1>1, WorkInvInit, WorkInvStep, PTL DEF VrowSpec

\* A vrow is loaded when its former payload is done, and the payload that
\* leaves bank 2 is the one that was loaded.
THEOREM OneJobAtATimeHolds == VrowSpec => []OneJobAtATime
<1>1. WorkInv => OneJobAtATime
  BY WorkInvGives
<1> QED BY <1>1, WorkInvInit, WorkInvStep, PTL DEF VrowSpec

\* vrow_bank_load finds bank 0 full only in a vrow whose thread is flushing it.
THEOREM LoadSpinsOnlyOnFailureHolds == VrowSpec => []LoadSpinsOnlyOnFailure
<1>1. WorkInv => LoadSpinsOnlyOnFailure
  BY WorkInvGives
<1> QED BY <1>1, WorkInvInit, WorkInvStep, PTL DEF VrowSpec

-----------------------------------------------------------------------------
(* The vrows implement the pool *)

\* A vrow with a payload in it is taken, and the one the loader has is without.
HandInv ==
    /\ \A v \in Vrows : job[v] # NoPayload => v \in vmap
    /\ lpc \in {"or", "held", "wait", "store", "fill"} => job[lidx] = NoPayload

PoolInv == WorkInv /\ HandInv

\* The state of a worker of the pool, as module Vrow maps it.
WorkerOf(v) ==
    IF job[v] # NoPayload THEN "busy" ELSE IF v \in vmap THEN "reserved" ELSE "idle"

\* Steps that change neither vrow_smap nor what is in a vrow.
LEMMA QuietHand ==
    ASSUME UNCHANGED <<vmap, job, lidx>>,
           lpc' = lpc \/ lpc' \notin {"or", "held", "wait", "store", "fill"}
           \/ lpc \in {"or", "held", "wait", "store", "fill"},
           HandInv
    PROVE  HandInv'
BY DEF HandInv

LEMMA HandInvStep == PoolInv /\ [VrowNext]_vrowVars => HandInv'
<1> SUFFICES ASSUME PoolInv, [VrowNext]_vrowVars PROVE HandInv'
  OBVIOUS
<1> USE DEF PoolInv
<1>1. ASSUME NEW v \in Vrows, ThreadStep(v) PROVE HandInv'
  <2> USE DEF TGo, loadVars
  <2>1. CASE FailOff(v) \/ FinishOff(v)
    BY <2>1 DEF FailOff, FinishOff, HandInv, WorkInv, StateInv, VrowTypeOK
  <2>2. CASE FlushBanks(v)
    BY <2>2 DEF FlushBanks, HandInv, WorkInv, StateInv, VrowTypeOK
  <2>3. CASE SignalBusy(v)
    BY <2>3 DEF SignalBusy, HandInv
  <2>4. CASE ~ (FailOff(v) \/ FinishOff(v) \/ FlushBanks(v) \/ SignalBusy(v))
    <3>1. UNCHANGED <<vmap, job, lidx, lpc>>
      BY <1>1, <2>4 DEF ThreadStep, Start, LoopTest, Poll, ToggleStep, CopyStep, Bank0,
                        FlushStates
    <3> QED BY <3>1, QuietHand
  <2> QED BY <2>1, <2>2, <2>3, <2>4
<1>2. CASE LoaderStep
  <2> USE DEF LGo
  <2>1. CASE EnterTurn \/ StopLoader \/ EndTurn \/ WaitEmpty \/ StoreBank
             \/ \E x \in Loads : BeginLoad(x)
    BY <2>1 DEF EnterTurn, StopLoader, EndTurn, WaitEmpty, StoreBank, BeginLoad, HandInv
  <2>2. CASE FindVrow
    <3>1. lidx' \in Vrows /\ lidx' \notin vmap
      BY <2>2, FindVrowIsFree
    <3> QED BY <2>2, <3>1 DEF FindVrow, HandInv
  <2>3. CASE TakeVrow \/ GiveBack
    BY <2>3 DEF TakeVrow, GiveBack, HandInv
  <2>4. CASE FillBank
    BY <2>4 DEF FillBank, HandInv, WorkInv, TakeInv, StateInv, VrowTypeOK
  <2> QED BY <1>2, <2>1, <2>2, <2>3, <2>4 DEF LoaderStep
<1>3. CASE OwnerStep
  <2>1. UNCHANGED <<vmap, job, lidx>> /\ (lpc' = lpc \/ lpc' \in {"top", "none"})
    BY <1>3 DEF OwnerStep, CreateVrow, CreateFails, StartLoader, CloseSched, CloseVrow,
                FreeVrow, FinishDelete, loadVars
  <2> QED BY <2>1, QuietHand
<1>4. CASE UNCHANGED vrowVars
  BY <1>4, QuietHand DEF vrowVars
<1> QED BY <1>1, <1>2, <1>3, <1>4 DEF VrowNext

LEMMA PoolInvStep == PoolInv /\ [VrowNext]_vrowVars => PoolInv'
BY HandInvStep, WorkInvStep DEF PoolInv

LEMMA PoolInvInit == VrowInit => PoolInv
BY WorkInvInit DEF PoolInv, HandInv, VrowInit

\* A step that changes the state of one vrow, and of its job if so, is a step of
\* the pool when the change is one a worker may make.
LEMMA OneWorkerMoves ==
    ASSUME VrowTypeOK, VrowTypeOK', NEW v \in Vrows,
           \A w \in Vrows : w # v => job'[w] = job[w] /\ (w \in vmap' <=> w \in vmap),
           \/ WorkerOf(v)' = WorkerOf(v) /\ job'[v] = job[v]
           \/ WorkerOf(v) = "idle" /\ WorkerOf(v)' = "reserved" /\ job'[v] = job[v]
           \/ WorkerOf(v) = "reserved" /\ WorkerOf(v)' = "idle" /\ job'[v] = job[v]
           \/ WorkerOf(v) = "reserved" /\ WorkerOf(v)' = "busy" /\ job'[v] \in Payloads
           \/ WorkerOf(v) = "busy" /\ WorkerOf(v)' \in {"idle", "reserved"}
              /\ job'[v] = NoPayload
    PROVE  [Pool!PoolNext]_(Pool!poolVars)
<1> DEFINE W == [w \in Vrows |-> IF job[w] # NoPayload THEN "busy"
                                 ELSE IF w \in vmap THEN "reserved" ELSE "idle"]
<1>1. \A w \in Vrows : W[w] = WorkerOf(w) /\ W'[w] = WorkerOf(w)'
  BY DEF WorkerOf
<1>2. \A w \in Vrows : w # v => WorkerOf(w)' = WorkerOf(w)
  BY DEF WorkerOf
<1>3. W' = [W EXCEPT ![v] = WorkerOf(v)']
  BY <1>1, <1>2
<1>4. job' = [job EXCEPT ![v] = job'[v]]
  BY DEF VrowTypeOK
<1> HIDE DEF W
<1>5. CASE WorkerOf(v)' = WorkerOf(v) /\ job'[v] = job[v]
  <2>1. job' = job
    BY <1>4, <1>5 DEF VrowTypeOK
  <2>2. W' = W
    BY <1>1, <1>3, <1>5 DEF W
  <2> QED BY <2>1, <2>2 DEF Pool!poolVars, W
<1>6. CASE WorkerOf(v) = "idle" /\ WorkerOf(v)' = "reserved" /\ job'[v] = job[v]
  <2>1. job' = job
    BY <1>4, <1>6 DEF VrowTypeOK
  <2>2. Pool!Reserve(v)
    BY <1>1, <1>3, <1>6, <2>1 DEF Pool!Reserve, Pool!Becomes, W
  <2> QED BY <2>2 DEF Pool!PoolNext, Pool!PoolStep
<1>7. CASE WorkerOf(v) = "reserved" /\ WorkerOf(v)' = "idle" /\ job'[v] = job[v]
  <2>1. job' = job
    BY <1>4, <1>7 DEF VrowTypeOK
  <2>2. Pool!Cancel(v)
    BY <1>1, <1>3, <1>7, <2>1 DEF Pool!Cancel, Pool!Becomes, W
  <2> QED BY <2>2 DEF Pool!PoolNext, Pool!PoolStep
<1>8. CASE WorkerOf(v) = "reserved" /\ WorkerOf(v)' = "busy" /\ job'[v] \in Payloads
  <2>1. Pool!Assign(v, job'[v])
    BY <1>1, <1>3, <1>4, <1>8 DEF Pool!Assign, Pool!Becomes, W
  <2> QED BY <1>8, <2>1 DEF Pool!PoolNext, Pool!PoolStep
<1>9. CASE WorkerOf(v) = "busy" /\ WorkerOf(v)' \in {"idle", "reserved"}
           /\ job'[v] = NoPayload
  <2>1. Pool!Complete(v) \/ Pool!Drop(v)
    BY <1>1, <1>3, <1>4, <1>9 DEF Pool!Complete, Pool!Drop, Pool!Becomes, W
  <2> QED BY <2>1 DEF Pool!PoolNext, Pool!PoolStep
<1> QED BY <1>5, <1>6, <1>7, <1>8, <1>9

\* Every step of the vrows, the loader and the owner is a step of the pool or
\* leaves it as it is.
LEMMA PoolStepOfVrows ==
    PoolInv /\ PoolInv' /\ [VrowNext]_vrowVars => [Pool!PoolNext]_(Pool!poolVars)
<1> SUFFICES ASSUME PoolInv, PoolInv', [VrowNext]_vrowVars
             PROVE  [Pool!PoolNext]_(Pool!poolVars)
  OBVIOUS
<1>t. VrowTypeOK /\ VrowTypeOK'
  BY DEF PoolInv, WorkInv, StateInv
<1>0. ASSUME UNCHANGED <<vmap, job>> PROVE [Pool!PoolNext]_(Pool!poolVars)
  BY <1>0 DEF Pool!poolVars
<1>1. ASSUME NEW v \in Vrows, ThreadStep(v) PROVE [Pool!PoolNext]_(Pool!poolVars)
  <2> USE DEF TGo
  <2>1. CASE FailOff(v) \/ FinishOff(v)
    <3>1. /\ vmap' = vmap \ {v} /\ job' = [job EXCEPT ![v] = NoPayload]
          /\ tpc[v] \in {"fail", "sigoff"}
      BY <2>1 DEF FailOff, FinishOff
    <3>2. v \in vmap
      BY <3>1 DEF PoolInv, WorkInv, TakeInv, Idle, Working
    <3>3. job'[v] = NoPayload /\ \A w \in Vrows : w # v => job'[w] = job[w]
      BY <1>t, <3>1 DEF VrowTypeOK
    <3>4. WorkerOf(v)' = "idle" /\ WorkerOf(v) = (IF job[v] = NoPayload THEN "reserved" ELSE "busy")
      BY <3>1, <3>2, <3>3 DEF WorkerOf
    <3> QED BY <1>t, <3>1, <3>3, <3>4, OneWorkerMoves
  <2>2. CASE FlushBanks(v)
    <3>1. vmap' = vmap /\ job' = [job EXCEPT ![v] = NoPayload]
      BY <2>2 DEF FlushBanks
    <3>2. job'[v] = NoPayload /\ \A w \in Vrows : w # v => job'[w] = job[w]
      BY <1>t, <3>1 DEF VrowTypeOK
    <3>3. job[v] # NoPayload => v \in vmap
      BY DEF PoolInv, HandInv
    <3>4. \/ WorkerOf(v)' = WorkerOf(v) /\ job'[v] = job[v]
          \/ WorkerOf(v) = "busy" /\ WorkerOf(v)' = "reserved"
      BY <3>1, <3>2, <3>3 DEF WorkerOf
    <3> QED BY <1>t, <3>1, <3>2, <3>4, OneWorkerMoves
  <2>3. CASE SignalBusy(v)
    <3>1. v \in vmap
      BY <2>3 DEF SignalBusy, PoolInv, WorkInv, TakeInv, Idle, Working
    <3> QED BY <1>0, <2>3, <3>1 DEF SignalBusy
  <2>4. CASE ~ (FailOff(v) \/ FinishOff(v) \/ FlushBanks(v) \/ SignalBusy(v))
    BY <1>0, <1>1, <2>4
    DEF ThreadStep, Start, LoopTest, Poll, ToggleStep, CopyStep, Bank0, FlushStates
  <2> QED BY <2>1, <2>2, <2>3, <2>4
<1>2. CASE LoaderStep
  <2> USE DEF LGo
  <2>l. lidx \in Vrows
    BY <1>t DEF VrowTypeOK
  <2>1. CASE TakeVrow \/ GiveBack
    <3>1. /\ vmap' = vmap \cup {lidx} \/ vmap' = vmap \ {lidx}
          /\ job' = job /\ job[lidx] = NoPayload
      BY <2>1 DEF TakeVrow, GiveBack, PoolInv, HandInv
    <3>2. PICK v \in Vrows : v = lidx
      BY <2>l
    <3>3. WorkerOf(v) \in {"idle", "reserved"} /\ WorkerOf(v)' \in {"idle", "reserved"}
      BY <3>1, <3>2 DEF WorkerOf
    <3>4. \A w \in Vrows : w # v => job'[w] = job[w] /\ (w \in vmap' <=> w \in vmap)
      BY <3>1, <3>2
    <3>5. job'[v] = job[v]
      BY <3>1
    <3> QED BY <1>t, <3>3, <3>4, <3>5, OneWorkerMoves
  <2>2. CASE FillBank
    <3>1. /\ job' = [job EXCEPT ![lidx] = lload] /\ vmap' = vmap
          /\ job[lidx] = NoPayload /\ lidx \in vmap
      BY <2>2 DEF FillBank, PoolInv, HandInv, WorkInv, TakeInv
    <3>2. \A w \in Vrows : w # lidx => job'[w] = job[w]
      BY <1>t, <3>1 DEF VrowTypeOK
    <3>3. PICK v \in Vrows : v = lidx
      BY <2>l
    <3>4. job'[v] = lload /\ lload \in Payloads \cup {NoPayload}
      BY <1>t, <3>1, <3>3 DEF VrowTypeOK
    <3>5. WorkerOf(v) = "reserved"
      BY <3>1, <3>3 DEF WorkerOf
    <3>6. \/ WorkerOf(v)' = WorkerOf(v) /\ job'[v] = job[v]
          \/ WorkerOf(v)' = "busy" /\ job'[v] \in Payloads
      BY <3>1, <3>3, <3>4, <3>5 DEF WorkerOf
    <3>7. \A w \in Vrows : w # v => job'[w] = job[w] /\ (w \in vmap' <=> w \in vmap)
      BY <3>1, <3>2, <3>3
    <3> QED BY <1>t, <3>5, <3>6, <3>7, OneWorkerMoves
  <2>3. CASE ~ (TakeVrow \/ GiveBack \/ FillBank)
    BY <1>0, <1>2, <2>3
    DEF LoaderStep, EnterTurn, StopLoader, EndTurn, FindVrow, BeginLoad, WaitEmpty, StoreBank
  <2> QED BY <2>1, <2>2, <2>3
<1>3. CASE OwnerStep
  BY <1>0, <1>3
  DEF OwnerStep, CreateVrow, CreateFails, StartLoader, CloseSched, CloseVrow, FreeVrow,
      FinishDelete
<1>4. CASE UNCHANGED vrowVars
  BY <1>0, <1>4 DEF vrowVars
<1> QED BY <1>1, <1>2, <1>3, <1>4 DEF VrowNext

LEMMA PoolStart == VrowInit => Pool!PoolInit
BY DEF VrowInit, Pool!PoolInit

\* The safety part of ImplementsPool: the vrows begin as the pool does, and
\* every step of theirs is a step of the pool. A vrow is reserved, given one
\* payload, and free again only when that payload is done or given up, whether
\* or not instructions translate and threads can be created.
THEOREM VrowsArePool ==
    VrowSpec => Pool!PoolInit /\ [][Pool!PoolNext]_(Pool!poolVars)
<1> QED BY PoolStart, PoolInvInit, PoolInvStep, PoolStepOfVrows, PTL DEF VrowSpec
=============================================================================
