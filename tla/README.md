# A TLA+ verification project for ax_virt_layer

ax_virt_layer (user part: `win64/user/src/mte`, the machine translation engine)
takes guest instructions, converts them to an intermediate representation (IR)
and the IR to host code. Its `pipe/` directory is a small concurrent runtime for
that work: clients push payloads into a priority queue, a scheduler thread moves
them to *vrows*, and each vrow's thread carries its payload through memory banks.
Nothing outside `pipe/` calls the runtime yet. What `main` runs is the translator
`ir/tblock`: sequential code that translates one block of guest code, with
liveness, register allocation and host code.

Both are modelled here: the concurrent runtime, which is the hard part, and the
translator from the words of guest code to the bytes of host code. In the following `pipe/` and
`ir/` are directories of `src/win64/user/src/mte/`.

## Inventory

| component | state | operations | what makes it hard, and correct |
|---|---|---|---|
| `sync_map` (`sync_map.c/.h`) | an array of atomic 64-bit words | `sync_map_sig_first`, `sync_map_unsig_first`, `sync_map_sigoff/sigon`, and the same by reference | a search is a walk of loads followed by a separate read-modify-write. A free bit must not be missed, the index must be in the range, the walk must stay inside the map and end |
| `bitpool` (`bitpool.c/.h`) | a map bit and a 64-byte bucket per slot, four counters (*presence*), four index ranges by priority | `bitpool_prior_load` (blocking, by clients), `bitpool_presence_any`, `bitpool_prior_unload_disp`, `bitpool_prior_unload` (scheduler thread) | bit, bucket and counter are three separate accesses on each side. Counters must not wrap, bits must not be forgotten, payloads must not be lost |
| vrow (`vrow*.c/.h`) | four 64-byte banks, a status byte of four A/F bit pairs, a close request, a bit in the scheduler's map | `vrow_create`, `vrow_thread_main`, `vrow_bank_load`, `vrow_bank_swap`, `vrow_bank_0_proc`, `_vrow_force_flush`, `vrow_delete` | the status bits are *toggled* by two threads and the byte being empty is the signal to free the memory |
| `sched` (`sched.c/.h`) | vrows, their map, the queue, a closed and a terminated bit | `sched_create`, `sched_push`, `sched_main`, `sched_pop`, `sched_delete` | composes the others; each payload should be processed once, and deletion may come at any moment |
| translation blocks (`ir/tblock`) | liveness, association and state per register, the IR buffer | `tblock_alloc`, `tblock_emit` and its passes `tblock_liveness_scan`, `tblock_raw_to_ir`, `tblock_ir_to_raw` | tables indexed by guest and by host ids, 8 liveness bits for 16 frag-blocks, a buffer without reserve, the same block emitted again. The host code must compute what the guest code does |
| register allocation (`ir/tblock/asm`) | the block's tables | `asm_alloc_space`, `asm_fill_assoc`, `asm_fix_instr`, `asm_expand_instr`, `asm_flush_by_liveness` | registers run out, tables are flushed between frag-blocks. A register must not serve two |
| register maps (`cpu.h`, `*_cpu.c`) | none | tables | which host registers serve a guest register |
| MIPS decoder (`asm/mips`) | tables | `mips32_raw_to_ir`, `mips32_reg_fetch` | fields of a word, and two functions that read the same word for two passes. They must agree, and an instruction must not be lost |
| IR (`ir/ir*.h`) | none | `ir_opcode_swap_group`, the fields of an opcode | packed numbers; the opcode of a move is made from that of an addition |
| Intel encoder and tables (`asm/intel`) | tables | `i64_ir_to_raw`, `i64_emit_64`, `i64_sum_calc`, the resolvers of REX, legacy prefix, ModRM, SIB | bytes made by masks and shifts from a summary of the operands. A processor must read what was asked for, and must read the next instruction where it begins |
| `main.c`, `test_suite.c` | none | drivers | fixed inputs; the loop over `tblock_emit` keeps a block between calls |
| `perf`, `decode_u64`, the decoder in `i64_instr.h` | none | logging; compiled out | no state to get wrong |
| kernel driver (`win64/kernel`) | none of its own | dispatch stubs | skeleton |

Interaction: clients and the scheduler thread share the bitpool; the scheduler
thread and the vrow threads share the banks, the status bytes and the vrow map;
the owner creates everything and, on deletion, closes the scheduler thread first
and the vrows after it. There are no locks: everything is an atomic access and a
spin loop. `PROJECT.json` lists every component and, under `hazards`, each place
that is hard to test, with the properties that are about it.

## Modules

    SyncMap            the search of a bitmap, as operators on one loaded word
     |- SyncMapCalls   any number of threads calling the map
     `- Pipe           payloads, shared by
         |- Bitpool    the queue: clients and the scheduler thread
         |- Vrow       the vrows: threads, loader, owner     -> WorkerPool
         `- Sched      = Bitpool + Vrow, the whole scheduler
    WorkerPool         what the scheduler relies on (abstract)
    IrOpcode           opcodes, operands and instructions of the IR, used by
     |- Mips32         the decoder of guest words
     |- I64Ir          IR to host opcodes and operands, with
     |   `- I64Emit    the emitter of host bytes
     `- Tblock         the translation of a block, pass by pass
    I64Decode          how a processor reads host bytes (reference)
    Emitter            = I64Ir + I64Decode, host code written call by call
    TblockMeaning      = Tblock + Mips32 + I64Ir + I64Decode, a block from words to
                       bytes, beside what guest and host code compute
    RegMaps            the register maps of MIPS32 and INTEL64
    SyncMapProofs, SyncMapCallsProofs, BitpoolProofs, VrowProofs, SchedProofs,
    TblockProofs, EmitterProofs                  theorems
    I64Proofs          what the encoder writes and the reference reads: lemmas for
                       EmitterProofs and TblockProofs
    MC*                instances for TLC

**SyncMap** has the set of signaled indices for a map. `SigCandidates` and
`UnsigCandidates` are the bits of one word a load of the two searches can settle
on (with `from_mask`, and with the shortcut of the second one for a fully
signaled first word); `Hits`, `Passes`, `OutOfRange` are the three ways on.
`Search` puts the walk together for a map nobody else touches.

**SyncMapCalls**: `Call` is the entry check, `LookOn`/`LookFail`/`LookHit` one load
of the walk, `Rmw` the `atomic_fetch_or`/`_and`. `owned` and `steady` are history:
indices a thread was given, and bits wanted by a search ever since its call.

**Bitpool**: a producer `p` goes through `Push` (call), `FindBit` (load),
`ClaimBit` (fetch_or), `CopyPayload` (the 64-byte `qload`), `CountPresence`. The
scheduler thread goes through `Turn`, `PresenceAny` or `PresenceNone`, `ScanRange` per
range, `ChooseBit` or `ChooseFails`, `ClearBit`, `ReadBucket`, `Loaded`, `FreeBit`,
`DiscountPresence`. A search of a full range has no step: the push spins.

**Vrow**: `ThreadStep(v)` is one access of `vrow_thread_main`; the program counter
`tpc[v]` names the access that comes next. `ToggleStep` is an xor of a status bit,
`CopyStep` a bank move. The result of bank 0 is written behind the 64 bytes of
the bank (16 bytes of control block, the instruction and its result are more),
which is modelled by the variable `result`, a cell in bank 1. The loader is the
scheduler thread's side and the owner is `sched_create` and `sched_delete`.
`ThreadsMayFail` lets `pthread_create` fail.

**Sched** has no accesses of its own: each step of `sched_main` is a step of the
queue's consumer (`QueueOnly`), of the loader (`VrowOnly`), or of both where one
statement does both (a turn that begins or ends, the bucket passed to
`vrow_bank_load`). Its own rules are the order of these steps and who may call
what when.

**Tblock**: `Scan` is the liveness scan of one instruction, `Convert` the turn of
`tblock_raw_to_ir` for one instruction: `FillAssoc` allocates (`AllocSpace`),
`FixInstr` puts ids in place, `ExpandInstr` makes two-operand code, and at the end of a
frag-block `FlushAssoc` and `FlushState` clear the tables. `Prologue`, `EmitInstr` and
`EmitReturns` are `tblock_ir_to_raw`, `EmitAgain` the loop in `main`. Guest and host
ids are numbers out of one range, because the code indexes the same tables with
both. In `Tblock` host code is a sequence of instructions with operands, which is
all the passes depend on; its bytes are in the next modules.

**IrOpcode**, **Mips32**, **I64Ir** and **I64Emit** are the conversions as operators,
with the names of the functions and tables they stand for. A word is two halves,
an IR opcode is the number the code packs, host bytes are numbers 0 to 255.
`SumCalc` is `i64_sum_calc` with a field per bit the resolvers read. `Accepts` is the
conjunction of the assertions on the way from IR to bytes.

**I64Decode** is written from the encoding of the processor, not from the code: it
reads prefixes, opcode, ModRM, SIB and displacement of the instructions the
emitter knows and says which registers and addresses they name.

**Emitter** writes code instruction by instruction: `EmitIr` is a turn of the body of
`tblock_ir_to_raw`, `EmitOperands` a call of `i64_emit_64` with any operands, as the
drivers in `main.c` make with the cases of `test_suite.c`. `KnownCause` says of a call
whether it meets one of the reasons why code is not what was asked for:

- `SwapsExtensions`: the operands of the RM_R form are exchanged twice, so that
  one register below r8 and one from r8 become two others;
- `NeedsRex`: the byte forms never get a REX prefix;
- `LacksPrefix`: the legacy prefix is missing, or is one of two needed;
- `TakenFromFirst`: SIB and displacement come from the first operand, which is a
  register in the R_RM form;
- `NoSuchAddress`: rSP, rBP, r12 and r13 as base, and an index whose upper bit is
  taken from the base;
- `LosesByte`: a ModRM or SIB byte that is zero is left out;
- PUSH of any register is PUSH of rAX.

`IrCalls` and `Operand` say what calls there are, and `WellFormed` which of them
ask for something the opcode has: operands of the kinds and widths of the test
suite, one at least a register. (An opcode byte that the table does not have, or
two addresses, ask for no instruction, so that nothing could be right or wrong.)
All calls of the runs are well-formed (`StreamsAreWellFormed`). `MainExample` is an assumption that TLC evaluates: the bytes
`main.c` expects of its example (line 199) come out of the operators.

**TblockMeaning** starts from assembled MIPS words (`Assembled`; `MainWords` are
those of `main.c`) and adds history: where each guest register was first put, and
whether a step has met one of seven causes of wrong code: a register moved
without its value; two guest registers in one host register (where operands
without a register and spilled ones end up); a spill index that is the number of
no register; a destination that is overwritten
before it is read as second source; $zero written like another register; host
registers below and from r8 in one instruction; an instruction that the table
does not have and that is passed over. It then takes the bytes of the block,
disassembles them, and runs guest and host code. What an operation makes of two
values (`Apply`) and what a register has before the block (`Start`) are constants;
the runs take numbers that tell operands, operations and their order apart.
`SourcesAssumption` says what programs are, and that a guest id has five bits.

Definitions called "wrong form" in the modules are variants of the definition
below them with a plausible mistake. No behaviour uses them; they show what each
property would find.

## Assumptions

- Every access is sequentially consistent. The code uses acquire loads and
  release read-modify-writes; reorderings that these orders would allow beyond
  interleaving are not modelled.
- The 64-byte stores of buckets and banks, and the 16-byte load of the counters,
  are one step each; the flush of the four banks is one step.
- `axmalloc` returns zeroed memory (the map words, the `closed` flag and the
  disposition array are never initialised otherwise) and does not fail.
- Clients push only while the scheduler is open and have finished before
  `sched_delete` is called. Each payload value is pushed once.
- There is one word in the scheduler's map (less than 64 vrows) and in the
  queue's (`sched_create` asks for 64 buckets). Walks over several words are in
  `SyncMapCalls`.
- Whether bank 0 can convert a payload is a property of the payload
  (`Translates`). A zeroed payload does not convert.
- Guest code has R instructions only (`mips32_raw_to_ir` ends the program at an
  assertion for the others), each of 4 bytes. IR of 32 bits is computed in 64-bit
  registers; the lower half is the same. The trap of MIPS ADD and SUB on overflow
  is not translated and not asked for. The code before a block has put
  guest registers where the block first expects them: nothing in the translator
  loads them.
- Module Bitpool covers presets with four nonempty ranges (`BitpoolAssumption`).

## Runs

| run | instance | shows |
|---|---|---|
| `sync_map_calls` | 2 threads, 2 words of 2 bits, a range inside a word and one over both | a search never misses a bit that is free throughout, returns an index in range, is exact when alone, ends, and never looks past the map |
| `queue` | 64 buckets, `BITPOOL_PERC_DEFAULT`, 2 producers, 4 payloads (2 low, 1 med, 1 high) | counters and bits agree in every interleaving |
| `queue_full_range` | six real payloads | counterexample to what a comment says of the search |
| `vrow_failures` | 2 vrows, a payload that converts and one that does not, threads that fail to start | status bytes, banks, map and memory stay consistent, and a deletion hangs only if the scheduler thread was never created or a vrow was loaded after its thread had failed |
| `vrow_close` | 1 vrow | counterexample to a comment of `vrow.h` |
| `sched` | 2 clients, a real and a low payload, 2 vrows | each payload pushed is processed, once, and is what was pushed; the vrows implement `WorkerPool`; deletion ends at whatever point it begins |
| `sched_race` | 2 clients, 3 payloads of the high range with one bucket, 1 vrow | pushes into a full range wait and return, also when a payload is lost; the parts keep to their specifications and deletion leaves nobody inside |
| `sched_lost_payload` | 2 payloads of one range, 1 vrow | counterexample: a push that returned and is never processed |
| `tblock` | 3 frag-blocks of 2 instructions, 1 liveness bit, 8 guest and 4 host registers of the real maps, some 20,000 programs | the buffer suffices, liveness is exact, spill indices are distinct, registers exclusive where the tables began empty, a second call starts as the first did, no assertion of the third pass fires, and machine code that does not compute what the guest code does has one of the seven causes |
| `tblock_operands` | same | counterexample: an operand without a host register |
| `emitter` | each call alone: 8 opcodes with register and memory operands of every kind, and all IR instructions on 16 registers; all pairs of a few calls | bytes without a known cause are read as what was asked for; each cause is one; code from IR stays in step |
| `emitter_asked` | same | counterexample: bytes that name other registers than the operands |

Bounds. Two threads are enough for each pair of accesses to meet in each order;
two words make a walk cross a boundary and end; two vrows make the search of
free vrows choose. Four payloads reuse buckets, and make two pushes of one range
overlap with a pop. In `sched_race` a map of 8 bits leaves one bucket to the high
range, so that two of three pushes meet a full range. `MaxOwned` bounds the indices a thread of `SyncMapCalls` keeps.
The vrow modules need no bound: threads repeat their loops for ever.
Three frag-blocks are one with a bit, one without after it, and one that begins
with empty tables. Instructions with an opcode name four temporaries, for which the
host has two registers as INTEL64 has, so that the third and the fourth are
spilled side by side (`OR 11 9 8` before `AND 10 10 9`) and their indices could
be the same. Programs of all six places are made of a register named
twice as destination and source, twice as source, three registers, an unknown
function and a nop; programs of four places add a second role, whose host
registers are rBX and r12, the fourth temporary, $zero, a destination that is the
second source, and AND and OR in programs without a cause of wrong code, so that
each of the four operations is compared from words to bytes to values.
Ids of guest and host overlap, as in the real maps.
Of registers, the operands of `emitter` have those with a meaning of their own in
ModRM and SIB (0, 4, 5 and the same plus 8) and one without, widths
of 8, 16 and 64 bits, addresses of 32 and 64, no, short and long displacements,
and the extreme scales; pairs of calls are enough for an instruction to be read
out of step with the one before it.

`CHECK_DEADLOCK FALSE` is set where the system ends: all payloads are pushed and
the scheduler waits, or deletion is done.

Fairness. Every thread that can take a step is eventually scheduled (weak
fairness per thread), which is what a preemptive scheduler gives threads that
spin. A push that spins on a full range looks again and again: it needs a free
bucket at one of its looks only, and a bucket that is free stays free for it when
no other client pushes; `PushReturns` is for finitely many payloads. Clients need
not push, and the owner need not delete, but goes on with
what it has begun.

## What the counterexamples say

1. A push that returned may never be processed (`sched_lost_payload`). There are
   three ways: two pushes into one bucket, since `sync_map_sig_first` discards the
   old value of its `fetch_or`; a bucket popped before it is loaded, since its bit
   is set first; and a bit that `bitpool_prior_unload` clears a second time, after
   another push has set it for a payload of its own.
2. `sync_map_unsig_first` skips a first word that is fully signaled from the mask
   on; the real range ends at the top of the word, so that six real payloads
   block the queue (`queue_full_range`).
3. After a failed conversion the vrow is offered to the scheduler without a
   thread; a payload loaded into it is lost and `vrow_delete` hangs (`vrow_close`).
4. `asm_fill_assoc` returns at the first operand that has an association, and the
   operands after it are written as register 0; a spilled operand is written as
   the register with the number of its spill index (`tblock_operands`).
5. The emitter exchanges the operands of the RM_R form twice for the REX prefix:
   an instruction on a register below r8 and one from r8 names two others
   (`emitter_asked`). Every instruction of the translator has this form.

More behaviours of the models differ from what one would expect and have no run
of their own. `disp_presence` is never counted up (`bitpool.c:234`), so that ranges
have strict priority, where the comment at `bitpool.c:115` speaks of two med
payloads for one low. After a payload is lost, a counter stays too high and its
range is preferred while it is empty, so that pushes into lower ranges wait:
`PushReturns` is about payloads of one range. The IR result of bank 0 lies behind
its 64 bytes, in bank 1, and is overwritten by the move of bank 0 to bank 1. No stack slots are emitted
for spills, since `spill_cnt` is reset first (`tblock_pass.c:207`). A frag-block of
index 8 and more has no liveness bit, so that all registers are flushed after it.
The flush clears `state` at the guest's id (`asm_instr_fix.c:241`), so that a host
register in use may be handed out, and one no longer used stays occupied until
the guest register of the same number is dead.

A0 is clear while bank 0 is processed (`vrow.h:61` says the opposite), and F2 alternates with each payload (`vrow.h:62`), because bits are
toggled and some toggles are missing; nothing reads the two bits alone. When
`vrow_create` fails, `sched_create` calls `sched_delete`, which waits for a scheduler
thread that has not been created; this is one of the two ways in
`DeleteHangsOnlyOnFailure`.

## Proofs

All theorems are checked by TLAPS for every value of the constants that the named
assumptions allow: any number of vrows that fit one word, any payloads, any
finite set of producers, any word size, any preset with four nonempty ranges
that fit the map, any map, threads and nonempty set of ranges to search, any program
of typed calls to the emitter, any guest block with any register maps, and any
meaning of its operations. TLC also finds each inductive invariant to hold on
the instances of the runs (that of the `WhenSpaced` theorems of
`SchedProofs` with `SpacedPush` conjoined to `SchedNext`), but for the parts of
`CodeInv` and `MeaningInv` that quantify over all functions; there it evaluates the
properties they imply.

- `SyncMapProofs`: what a search that hits returns (`SigHit`, `UnsigHit`).
- `SyncMapCallsProofs`: the searches under concurrency, for any number of threads
  and words. Layout lemmas say which indices a word holds of a range (`QuadLayout`,
  `QuadOfIndex`) and that one load misses no clear bit of its word
  (`SigMissesNothing`). The inductive invariant is `SearchInv`: types, `HitIsFirst`, and
  `WalkInv`, which says of a walk at word q that every *steady* bit is free and not below q. A
  bit may be cleared behind the walk, so nothing can be said of the words passed but
  this: a bit that was free ever since the call is still ahead. It gives
  `HitIsFirst` and `SigFailsOnlyWhenFull`. `SequentialSearchIsLeast` is about the same
  operators put together, for every content of the map.
- `VrowProofs`: the status byte. `FlagInv` says where the toggles leave F0 and A0 at
  each program counter; no such fact is true of the bits of banks 1 and 2, whose
  parity depends on the number of payloads so far, so that the emptiness of the
  byte is decided by bank 0 alone. With `LoadInv` (the loader writes only while
  F0 is clear) and `LifeInv` (the order of creation, run and deletion) it is
  inductive and gives `RunningIsNotEmpty`, `NoUseAfterFree` and
  `BankZeroExclusive`. `TakeInv` (a free or a reserved vrow is idle) and `JobInv` (the
  payload a thread carries is the one loaded) add `BusyIsTaken`, `OneJobAtATime`
  and `LoadSpinsOnlyOnFailure`. The refinement of `WorkerPool` is proved step by step
  (`VrowsArePool`): each action moves at most one abstract worker (`OneWorkerMoves`),
  by a step of the pool or not at all. It needs `HandInv`: a vrow with a payload is
  set in `vrow_smap`, and the one the loader has reserved is still empty. The fairness of `WorkerPool` is
  left to TLC.
- `BitpoolProofs`: the ranges are disjoint and `_bitpool_index_to_presence` inverts
  them. `TurnInv` says that the counter of the range a turn has chosen stays
  positive until it is discounted (only the scheduler thread discounts), which
  gives `PresenceNeverUnderflows`; `PushInv` and `TurnInv` give `PopsFromItsRange`.
  `NoForgottenBit` is a counting argument per range: each step changes set bits,
  pushes between bit and count, the pop in progress and the counter so that the
  inequality stays. `PresenceWithinPushes` is one over the finite set of
  finished pushes, with `HoldInv` (a payload under way is a pushed one, in one producer only).
- `SchedProofs`: every step of the composed system is a step of each part or leaves
  it alone (`QueueAloneHolds`, `VrowsAloneHolds`), so that all of the above holds of
  the whole scheduler (`PartsHold`, `SchedVrowsArePool`); `QuietAtTheEnd` follows with the
  order of deletion (`EndInv`) and the places of the scheduler thread (`MainInv`).
  Its last part is about when each payload is processed exactly once. That is false in
  general (see the first counterexample), so the theorems name the discipline of
  the clients that makes it true. `SpacedPush` says that a push into a range begins
  only when the counter of the range is zero and no other push into it is under
  way (`RangeQuiet`); it restricts steps, and behaviours that keep to it exist: any
  that have at most one payload per range (`OnePayloadPerRange` needs no discipline), or
  clients that wait for one another. `RangeInv` says that then a range has at most one
  set bit, one push or one pop at a time, and that the bucket of a counted bit is
  loaded; `PlaceOf` that a payload is in one place only: in the queue (pushes
  and pops under way included), in the hand of the scheduler thread, or in one vrow. They give `RunsAtMostOnce` and
  `LoadsWhatWasPushed`. With `FlushInv` (a thread that flushes a payload was
  closed) they give `NoPayloadLost`: until the scheduler is closed, no payload
  that can be converted disappears. The counterexample `sched_lost_payload` shows
  that the discipline cannot be dropped.
- `TblockProofs`: for any register maps, block size, liveness width and program.
  `PassInv` bounds the IR by two entries per instruction converted, `LiveInv` relates
  the bits to the instructions scanned so far, and for the tables `AllocOne` is the
  key lemma: an allocation keeps spill indices distinct and registers exclusive.
  That each call starts afresh (`EmitsStartFresh`) is needed by the other parts
  and holds because the last frag-block has no liveness bit: its flush takes
  every register for dead. With liveness bits for all frag-blocks it would fail.
  `AllTaken`, a part of `PassInv`, says that all IR written so far is IR the third pass
  takes: a move has its two registers apart and a folded instruction has its
  destination as first source, whatever the allocation. It gives
  `NoAssertionFires`.

  `CleanCodeIsRight` is proved for every program, whatever the operations do. The
  invariant `MeaningInv` relates the guest values after the instructions converted so
  far to the host registers after the IR written for them: a guest register has its
  value in its home, and homes are never shared. One instruction keeps that relation
  (`ComputesOneMore`), because its one or two entries of IR, read by a processor,
  move and combine the right values (`CodeIsExpansion`, `EntryStep`); an instruction
  without effect keeps it too (`ComputesNop`, `ComputesNothing`). A guest register that
  is first housed later was in no register before: `HoldsMoreHomes` lets the start
  values of the host be chosen with the homes known at the end, which is what
  `HostStart` does. `GuestResult`, `HostBytes` and `HostResult` are recursive functions:
  that each exists is shown by a least counterexample over the block's instructions
  (`Inductive`), with the bytes read back as in `EmitterProofs` (`HostBytesAreRead`).
  The seventh cause came from this proof: with more guest registers than the
  instances have, a spill index may be 16 or more, and the register numbered so does
  not exist.
- `EmitterProofs`, on the lemmas of `I64Proofs`: host code of any length. For an IR
  instruction the lemmas go through the tables (`WordOfGroup`, `WordDesc`), the summary
  (`WordSum`) and the resolvers (`EmitsRegisters`) to its three bytes, and a
  processor's reading of three such bytes (`ReadsRegisters`). `CodeInv` says that code is
  the bytes of the calls made. The disassembly is a recursive function over the code;
  that it exists for all bytes (`ReadFromExists`) and what it is for code made of
  instructions (`DisassemblyOfChunks`, `FirstOfDisassembly`) is shown by induction on the
  distance to the end, in the form of a least counterexample (`LeastElement`, from the
  well-foundedness of the naturals). The result is `IrStaysInStep`, and
  `IrIsRightExactly`: code from IR is right if and only if no instruction has one
  register below r8 and one from r8 on.

  For operands of every kind, `ModRMEmits` gives the bytes of a call part by part
  (legacy prefix, REX, opcode, ModRM, SIB, displacement) and `LaidOut` says where each
  part stands; `PrefixesAreRead` and `Fields` say what a processor takes from there.
  The r/m operand is then read back as a register (`RmRegisterIsRead`) or an address
  (`RmMemoryIsRead`). `ReadyIsRead` puts them together: bytes that lack nothing and have
  the upper register bits they should are read rightly, and only they.
  `NothingLost` and `UnclearIsLonger` say when parts are missing, and `KnownCauseIs` that these
  conditions are the named causes. So a known cause is the exact reason
  (`ModRMCallIsRead`), in both directions: `RightWithoutCause` for any program, and
  `CausesAreReal` for a first call. Both assume that all calls are `WellFormed`, as they are
  in the runs and in the test suite; nothing is assumed of register numbers, base,
  index, scale or displacement.
  `ProgramsAssumption` says what calls are: IR as `asm_expand_instr` hands it on,
  or any opcode byte with any operands.

Only model-checked: liveness (`CallsReturn`, `PushReturns`, `PushIsProcessed`,
`SchedDeleteReturns`, `DeleteHangsOnlyOnFailure`, and the fairness in `ImplementsPool`),
which is outside TLAPS, and the counterexamples. Every other property of a passing
run is also a theorem, `RunsAtMostOnce` and `LoadsWhatWasPushed` under the discipline
named above, and the two of the emitter for well-formed calls; that says nothing of the assumptions above, which runs and
proofs share.

## Not modelled

- Code that is compiled out (`#if 0`): `decode_u64.h`, most of `i64_instr.h`, and the
  drivers of `main.c` but the last; and what only this code uses: the mask tables
  for ModRM and immediates, `i64_qtables`.
- Functions without a caller: `_i64_operand_cmp`, `_i64_width_check`.
- Immediate operands: the opcode table has their forms, but `i64_emit_64` writes no
  bytes for them and no IR has them. IR of 8 bits: no guest instruction gives it.
- I and J instructions of MIPS, at which the decoder ends the program; the shift
  amount, which nothing reads.
- `ir_create`: contexts are wired once from tables of function pointers.
- The bytes of the stack allocation in the prologue of a block: their loop runs
  `spill_cnt` times, after it was reset to zero.
- Logging, time measurement and the kernel skeleton.
- Weak memory effects. Clients that break the contract of deletion.

## Plan

1. Done: the bitmap, the queue, the vrows, the scheduler; type and safety
   invariants of each with proofs; the composition.
2. Done: the translator (`Tblock`) with proofs of its invariants, the decoder of
   guest words, the tables and the emitter of host bytes, and the meaning of a
   block from words to bytes.
3. Done: the concurrent search for any number of threads and words, the safety
   part of `WorkerPool`'s refinement, processing at most once with the discipline it
   needs, code of any length with operands of any kind, and the meaning of the
   host code of a block. No safety property of a passing run is left to prove.
4. Left to model: the other presets of `bitpool_range_populate`, when a caller uses
   them; the meaning of blocks that follow each other, when the translator links
   blocks.
