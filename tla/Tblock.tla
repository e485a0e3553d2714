------------------------------- MODULE Tblock -------------------------------
(***************************************************************************)
(* The translation of one block, ir/tblock: tblock_emit runs three passes  *)
(* over the instructions of the block.  The liveness scan marks for each   *)
(* guest register the frag-blocks that use it, raw_to_ir gives the guest   *)
(* registers host registers and writes IR, and ir_to_raw writes host code. *)
(*                                                                         *)
(* A guest instruction is what desc.call returns for it, as the functions  *)
(* of module Mips32 do: an IR opcode and three registers; I and J          *)
(* instructions end the program at an assertion and are left out.          *)
(* Register ids are the ones of the register maps, guest and host ids out  *)
(* of the same numbers: the tables assoc and state are indexed by both.    *)
(***************************************************************************)
EXTENDS IrOpcode, FiniteSets

CONSTANTS
    GuestRegs, HostRegs,    \* the ids of desc.guest_map and desc.host_map
    Role,                   \* guest_map->root[id].role
    Pool,                   \* host_map->role_map[role], as a set of ids
    Frags, FragInstrs,      \* frag-blocks in a block, instructions in each
    LiveBits,               \* bits of asm_reg_liveness
    IrCapacity,             \* block->ir_buf.capacity
    Programs                \* the guest code the block may hold

BlockInstrs == Frags * FragInstrs

\* The opcodes of MIPS32_TO_IR_TABLE.
GuestOpcodes ==
    {IR_INVALID_OPCODE} \cup {IrOpcode(group, "I32") : group \in {"ADD", "OR", "AND", "SUB"}}

\* Of an instruction without opcode guest_reg_fetch may give the registers all
\* the same.
Instr == [opcode : GuestOpcodes, ops : [1 .. 3 -> GuestRegs], fetched : BOOLEAN]

\* So it is for MIPS32 and INTEL64, with the ids 0..31 and 0..15, and for both
\* sizes of a block: 16 frag-blocks of 2 or 8 instructions, 8 bits of liveness
\* and a buffer for 256 IR instructions.
ASSUME TblockAssumption ==
    /\ GuestRegs \subseteq Nat
    /\ HostRegs \subseteq GuestRegs
    /\ \A g \in GuestRegs : Pool[Role[g]] \subseteq HostRegs
    /\ Frags \in Nat /\ FragInstrs \in Nat \ {0}
    /\ LiveBits \in 0 .. Frags - 1
    /\ IrCapacity \in Nat
    /\ 2 * BlockInstrs <= IrCapacity
    /\ Programs \subseteq [0 .. BlockInstrs - 1 -> Instr]

VARIABLES
    prog,       \* the guest code
    pc, next,   \* the pass, and the index of its next instruction
    live,       \* block->liveness: frag-blocks, per guest register
    assoc,      \* block->assoc
    state,      \* block->state
    spillCnt,   \* block->spill_cnt
    ir,         \* block->ir_buf up to ir_cnt
    host        \* the IR instructions whose host code is written, in this call

vars == <<prog, pc, next, live, assoc, state, spillCnt, ir, host>>

NoAssoc == [used |-> FALSE, spilled |-> FALSE, id |-> 0]
Assoc == [used : BOOLEAN, spilled : BOOLEAN, id : Nat]
IrInstr == [opcode : Nat, ops : Seq(Nat)]

TblockTypeOK ==
    /\ prog \in Programs
    /\ pc \in {"scan", "convert", "prologue", "body", "done"}
    /\ next \in Nat
    /\ live \in [GuestRegs -> SUBSET (0 .. LiveBits - 1)]
    /\ assoc \in [GuestRegs -> Assoc]
    /\ state \in [GuestRegs -> {"free", "occupied"}]
    /\ spillCnt \in Nat
    /\ ir \in Seq(IrInstr)
    /\ host \in Seq(IrInstr)

\* tblock_alloc, and the code the caller puts at guest_ptr.
Init ==
    /\ prog \in Programs
    /\ pc = "scan" /\ next = 0
    /\ live = [g \in GuestRegs |-> {}]
    /\ assoc = [g \in GuestRegs |-> NoAssoc]
    /\ state = [g \in GuestRegs |-> "free"]
    /\ spillCnt = 0
    /\ ir = <<>> /\ host = <<>>
-----------------------------------------------------------------------------
(* tblock_liveness_scan *)

Frag(i) == i \div FragInstrs

\* What guest_reg_fetch returns.
RegsOf(instr) ==
    IF instr.fetched THEN {instr.ops[1], instr.ops[2], instr.ops[3]} ELSE {}

\* __TBLOCK_PASS_LOOP: one instruction further, and after the last to the
\* next pass.
Advance(from, to) ==
    /\ pc = from
    /\ IF next + 1 = BlockInstrs
       THEN pc' = to /\ next' = 0
       ELSE pc' = from /\ next' = next + 1

\* Wrong forms: a bit for each frag-block; the former bits are overwritten.
ScanWide ==
    /\ Advance("scan", "convert")
    /\ live' = [g \in GuestRegs |->
                   IF g \in RegsOf(prog[next]) THEN live[g] \cup {Frag(next)} ELSE live[g]]
    /\ UNCHANGED <<prog, assoc, state, spillCnt, ir, host>>
ScanOverwrites ==
    /\ Advance("scan", "convert")
    /\ live' = [g \in GuestRegs |->
                   IF g \in RegsOf(prog[next]) /\ Frag(next) < LiveBits
                   THEN {Frag(next)} ELSE {}]
    /\ UNCHANGED <<prog, assoc, state, spillCnt, ir, host>>

\* liveness[id] |= BIT(blk_i): a bit past the width of the type is lost.
Scan ==
    /\ Advance("scan", "convert")
    /\ live' = [g \in GuestRegs |->
                   IF g \in RegsOf(prog[next]) /\ Frag(next) < LiveBits
                   THEN live[g] \cup {Frag(next)} ELSE live[g]]
    /\ UNCHANGED <<prog, assoc, state, spillCnt, ir, host>>
-----------------------------------------------------------------------------
(* tblock_raw_to_ir *)

Lowest(S) == CHOOSE h \in S : \A k \in S : h <= k

FreeHosts(st, g) == {h \in Pool[Role[g]] : st[h] = "free"}

\* The register tables, as asm_fill_assoc passes them on from operand to
\* operand. "over" is its early return.
Tables == [over |-> FALSE, assoc |-> assoc, state |-> state, spills |-> spillCnt]

\* Wrong forms: what the allocator returns without a register, zero in its low
\* byte, is stored as id instead of the spill index; the register is not marked.
AllocSpaceUnnumbered(t, g) ==
    LET free == FreeHosts(t.state, g) IN
    IF free = {}
    THEN [t EXCEPT !.assoc[g] = [used |-> TRUE, spilled |-> TRUE, id |-> 0],
                   !.spills = @ + 1]
    ELSE [t EXCEPT !.assoc[g] = [used |-> TRUE, spilled |-> FALSE, id |-> Lowest(free)],
                   !.state[Lowest(free)] = "occupied"]
AllocSpaceUnmarked(t, g) ==
    LET free == FreeHosts(t.state, g) IN
    IF free = {}
    THEN [t EXCEPT !.assoc[g] = [used |-> TRUE, spilled |-> TRUE, id |-> t.spills],
                   !.spills = @ + 1]
    ELSE [t EXCEPT !.assoc[g] = [used |-> TRUE, spilled |-> FALSE, id |-> Lowest(free)]]

\* asm_alloc_space for a guest register: the lowest free host register of its
\* role, or the next spill index.
AllocSpace(t, g) ==
    IF FreeHosts(t.state, g) = {}
    THEN [t EXCEPT !.assoc[g] = [used |-> TRUE, spilled |-> TRUE, id |-> t.spills],
                   !.spills = @ + 1]
    ELSE LET h == Lowest(FreeHosts(t.state, g))
         IN  [t EXCEPT !.assoc[g] = [used |-> TRUE, spilled |-> FALSE, id |-> h],
                       !.state[h] = "occupied"]

\* One turn of asm_fill_assoc. A register that is associated ends the call.
FillOne(t, g) ==
    IF t.over \/ t.assoc[g].used THEN [t EXCEPT !.over = TRUE] ELSE AllocSpace(t, g)

\* asm_fill_assoc: the first operand is left out if it equals the second.
FillAssoc(t, ops) ==
    LET first == IF ops[1] = ops[2] THEN t ELSE FillOne(t, ops[1])
    IN  FillOne(FillOne(first, ops[2]), ops[3])

\* asm_fix_instr: the id, whatever the flags of the association say, in a u8.
FixInstr(a, ops) == [k \in 1 .. 3 |-> a[ops[k]].id % 256]

Mov(opcode, ops) == [opcode |-> ir_opcode_swap_group(opcode, "MOV"), ops |-> ops]
Fold(opcode, ops) == [opcode |-> opcode, ops |-> ops]

\* Wrong form: the move is made also onto itself.
ExpandInstrMoves(opcode, ops, left) ==
    IF left = 0 THEN <<>>
    ELSE <<Mov(opcode, <<ops[1], ops[2]>>)>> \o <<Fold(opcode, <<ops[1], ops[1], ops[3]>>)>>

\* asm_expand_instr from three operands to two; nothing fits a full buffer.
ExpandInstr(opcode, ops, left) ==
    IF left = 0 THEN <<>>
    ELSE (IF ops[1] = ops[2] \/ IR_OPCODE_FLAGS(opcode) = IR_DEST_NEQ_SRC THEN <<>>
          ELSE <<Mov(opcode, <<ops[1], ops[2]>>)>>)
         \o <<Fold(opcode, <<ops[1], ops[1], ops[3]>>)>>

\* asm_flush_by_liveness: the tables are cleared for the guest registers the
\* frag-block b does not use, state at the guest's id like assoc.
Dead(g, b) == b \notin live[g]
FlushAssoc(a, b) == [g \in GuestRegs |-> IF Dead(g, b) THEN NoAssoc ELSE a[g]]
FlushState(st, b) == [g \in GuestRegs |-> IF Dead(g, b) THEN "free" ELSE st[g]]

\* Wrong form: the end of the block is not the end of a frag-block.
CrossesInside == next + 1 < BlockInstrs /\ Frag(next + 1) # Frag(next)

Crosses == Frag(next + 1) # Frag(next)

\* The tables for the next instruction, before any flush.
Filled ==
    IF prog[next].opcode = IR_INVALID_OPCODE THEN Tables
    ELSE FillAssoc(Tables, prog[next].ops)

Code ==
    IF prog[next].opcode = IR_INVALID_OPCODE THEN <<>>
    ELSE ExpandInstr(prog[next].opcode, FixInstr(Filled.assoc, prog[next].ops),
                     IrCapacity - Len(ir))

Convert ==
    /\ Advance("convert", "prologue")
    /\ ir' = ir \o Code
    /\ spillCnt' = Filled.spills
    /\ assoc' = IF Crosses THEN FlushAssoc(Filled.assoc, Frag(next)) ELSE Filled.assoc
    /\ state' = IF Crosses THEN FlushState(Filled.state, Frag(next)) ELSE Filled.state
    /\ UNCHANGED <<prog, live, host>>
-----------------------------------------------------------------------------
(* tblock_ir_to_raw *)

\* spill_cnt is reset before the loop that would emit one IR_ALLOC per spill.
Prologue ==
    /\ pc = "prologue"
    /\ pc' = "body" /\ next' = 0
    /\ spillCnt' = 0
    /\ host' = <<>>
    /\ UNCHANGED <<prog, live, assoc, state, ir>>

\* The assertions of tblock_ir_to_raw and i64_ir_to_raw, which end the program:
\* an opcode that is none, and a move of a register onto itself.
TakesIr(i) ==
    /\ i.opcode # IR_INVALID_OPCODE
    /\ ~(i.ops[1] = i.ops[2] /\ IR_OPCODE_FLAGS(i.opcode) = IR_DEST_NEQ_SRC)

EmitInstr ==
    /\ pc = "body" /\ next < Len(ir)
    /\ TakesIr(ir[next + 1])
    /\ host' = Append(host, ir[next + 1])
    /\ next' = next + 1
    /\ UNCHANGED <<prog, pc, live, assoc, state, spillCnt, ir>>

EmitReturns ==
    /\ pc = "body" /\ next = Len(ir)
    /\ pc' = "done" /\ next' = 0
    /\ UNCHANGED <<prog, live, assoc, state, spillCnt, ir, host>>

\* Wrong form: ir_cnt is not reset.
EmitAgainOnTop ==
    /\ pc = "done"
    /\ pc' = "scan"
    /\ UNCHANGED <<prog, next, live, assoc, state, spillCnt, ir, host>>

\* main calls tblock_emit for the same block again, with ir_cnt reset.
EmitAgain ==
    /\ pc = "done"
    /\ pc' = "scan"
    /\ ir' = <<>>
    /\ UNCHANGED <<prog, next, live, assoc, state, spillCnt, host>>

Next == Scan \/ Convert \/ Prologue \/ EmitInstr \/ EmitReturns \/ EmitAgain

Spec == Init /\ [][Next]_vars /\ WF_vars(Next)
-----------------------------------------------------------------------------
(* Properties *)

\* The assertion "Not enough space left in the buffer" of asm_expand_instr never
\* fires and no instruction is dropped, though the buffer holds two entries
\* per instruction of a big block and not one more.
IrBufferSuffices == pc = "convert" => IrCapacity - Len(ir) > 1

\* A block that is emitted again starts with empty tables, though nothing but
\* the flushes at the ends of frag-blocks clears them.
EmitsStartFresh ==
    pc # "convert" \/ next = 0 =>
        \A g \in GuestRegs : assoc[g] = NoAssoc /\ state[g] = "free"

\* After the scan a register is live in a frag-block exactly if an instruction
\* there names it, in the frag-blocks that have a bit.
LiveIsUsed ==
    pc # "scan" =>
        \A g \in GuestRegs : \A b \in 0 .. LiveBits - 1 :
            b \in live[g] <=>
                \E i \in 0 .. BlockInstrs - 1 : Frag(i) = b /\ g \in RegsOf(prog[i])

Resident(g) == assoc[g].used /\ ~assoc[g].spilled
Spilled(g) == assoc[g].used /\ assoc[g].spilled

\* Two guest registers that are spilled at the same time have two spill
\* indices, and spill_cnt is above both.
SpillsAreDistinct ==
    \A g \in GuestRegs : Spilled(g) =>
        /\ assoc[g].id < spillCnt
        /\ \A h \in GuestRegs : Spilled(h) /\ assoc[h].id = assoc[g].id => h = g

\* In a frag-block that begins with empty tables (the first, and those after
\* one the liveness has no bit for), a host register is marked and belongs to
\* one guest register, of a role it serves. (After another frag-block it may
\* not be: the flush clears state at the guest's id.)
ExclusiveWhereFresh ==
    pc = "convert" /\ (Frag(next) = 0 \/ Frag(next) > LiveBits) =>
        \A g \in GuestRegs : Resident(g) =>
            /\ assoc[g].id \in Pool[Role[g]]
            /\ state[assoc[g].id] = "occupied"
            /\ \A h \in GuestRegs : Resident(h) /\ assoc[h].id = assoc[g].id => h = g

\* No assertion of tblock_ir_to_raw or i64_ir_to_raw fires on what the second pass
\* has written, whatever host registers asm_fix_instr has put into it.
NoAssertionFires == pc = "body" /\ next < Len(ir) => TakesIr(ir[next + 1])

\* asm_instr_fix.h:25 says after asm_fix_instr all operands "will be set to
\* associated host (Host) id`s": each operand has an association by then, to a
\* host register.
OperandsAssociated ==
    pc = "convert" /\ prog[next].opcode # IR_INVALID_OPCODE =>
        \A k \in 1 .. 3 :
            LET a == Filled.assoc[prog[next].ops[k]] IN a.used /\ ~a.spilled
=============================================================================
