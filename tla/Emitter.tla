------------------------------ MODULE Emitter ------------------------------
(***************************************************************************)
(* Host code as it is written to memory, instruction after instruction: by *)
(* tblock_ir_to_raw from IR, or by calls of i64_emit_64 with operands of   *)
(* every kind, as the emitter's test suite makes them.  What a processor   *)
(* reads from the bytes is compared with what was asked for.               *)
(***************************************************************************)
EXTENDS I64Ir, I64Decode

CONSTANT Programs   \* sequences of calls, the code to write

VARIABLES
    prog,   \* the calls to make
    next,   \* how many have been made
    code    \* the bytes from host.base to host_ptr

vars == <<prog, next, code>>

FromIr(group, ops) ==
    [via |-> "ir", group |-> group, instr |-> IrInstrOf(IrOpcode(group, "I32"), ops)]
FromOperands(val, ops) == [via |-> "operands", opcode |-> I64Opcode(val), ops |-> ops]

\* What asm_expand_instr hands on: a folded instruction, or a move between two
\* registers.
IrCalls(ids) ==
    {FromIr(c[1], <<IrReg(c[2]), IrReg(c[2]), IrReg(c[3])>>) :
        c \in {"ADD", "OR", "AND", "SUB"} \X ids \X ids}
    \cup {FromIr("MOV", <<IrReg(p[1]), IrReg(p[2])>>) :
            p \in {q \in ids \X ids : q[1] # q[2]}}

\* An operand as the fields of its struct hold it.
Operand ==
    [type : SUBSET {"REG", "MEM", "SIB", "IMM", "DISP8", "DISP32"}, width : {0, 8, 16, 32, 64},
     id : 0 .. 15, scale : 0 .. 3, index : 0 .. 15, disp : [1 .. 4 -> 0 .. 255]]

Calls ==
    IrCalls(0 .. 15)
    \cup [via : {"operands"}, opcode : [len : {1}, val : 0 .. 255], ops : Operand \X Operand]

ASSUME ProgramsAssumption == Programs \subseteq Seq(Calls)

\* The operands as i64_operand.h describes them: the value of a register is zero,
\* and memory has at most one displacement, one byte being from -128 to 127. A
\* base register has 32 or 64 bits.
IsRegister(op, widths) == \E id \in 0 .. 15, w \in widths : op = RegOperand(id, w)
IsAddress(op) ==
    /\ IsMem(op) /\ op.width \in {32, 64}
    /\ ~({"DISP8", "DISP32"} \subseteq op.type)
    /\ "DISP8" \in op.type => op.disp = SignExtended(op.disp[1])

\* Calls as the emitter's test suite makes them: the operands are of the kinds and
\* widths the opcode has, one at least a register, and two registers of one width.
\* A call from IR is one of IrCalls (ProgramsAssumption).
WellFormed(call) ==
    \/ call.via = "ir"
    \/ /\ call.via = "operands"
       /\ LET val == call.opcode.val
              rm == call.ops[IF val % 8 < 2 THEN 1 ELSE 2]
              reg == call.ops[IF val % 8 < 2 THEN 2 ELSE 1]
          IN  \/ /\ 8 * (val \div 8) \in AluGroups \cup {MovGroup} /\ val % 8 < 4
                 /\ IsRegister(reg, IF val % 2 = 0 THEN {8} ELSE {16, 32, 64})
                 /\ IsAddress(rm) \/ IsRegister(rm, {reg.width})
              \/ val = PUSH_R64 /\ IsRegister(call.ops[1], {64})

\* The bytes main.c:199 expects of the IR of its example, the host registers of
\* $t1 and $t2 being r10 and r11.
ASSUME MainExample ==
    LET Bytes(group, ops) == i64_ir_to_raw(FromIr(group, [k \in DOMAIN ops |-> IrReg(ops[k])]).instr)
        byte == [ADD |-> 1, SUB |-> 41, OR |-> 9, AND |-> 33]
    IN  /\ \A group \in DOMAIN byte :
              /\ Bytes(group, <<10, 10, 11>>) = <<77, byte[group], 218>>
              /\ Bytes(group, <<11, 11, 10>>) = <<77, byte[group], 211>>
        /\ Bytes("MOV", <<10, 11>>) = <<77, 137, 218>>

EmitterTypeOK ==
    /\ next \in 0 .. Len(prog)
    /\ \A i \in 1 .. Len(code) : code[i] \in 0 .. 255

Init == prog \in Programs /\ next = 0 /\ code = <<>>

\* Wrong form: the index goes on twice.
EmitIrSkips ==
    /\ next < Len(prog) /\ prog[next + 1].via = "ir"
    /\ Accepts(prog[next + 1].instr)
    /\ code' = code \o i64_ir_to_raw(prog[next + 1].instr)
    /\ next' = next + 2
    /\ UNCHANGED prog

\* A turn of the body of tblock_ir_to_raw. An assertion ends the program.
EmitIr ==
    /\ next < Len(prog) /\ prog[next + 1].via = "ir"
    /\ Accepts(prog[next + 1].instr)
    /\ code' = code \o i64_ir_to_raw(prog[next + 1].instr)
    /\ next' = next + 1
    /\ UNCHANGED prog

\* A call of i64_emit_64, whose bytes the caller puts behind the former ones.
EmitOperands ==
    /\ next < Len(prog) /\ prog[next + 1].via = "operands"
    /\ code' = code \o i64_emit_64(prog[next + 1].opcode, prog[next + 1].ops)
    /\ next' = next + 1
    /\ UNCHANGED prog

Next == EmitIr \/ EmitOperands

Spec == Init /\ [][Next]_vars
-----------------------------------------------------------------------------
(* What a call asks for, in the terms of the decoder. *)

OperandRead(op) ==
    IF IsMem(op)
    THEN MemRead(op.id, IF IsSib(op) THEN op.index ELSE -1, IF IsSib(op) THEN op.scale ELSE 0,
                 IF op.type \cap {"DISP8", "DISP32"} = {} THEN <<0, 0, 0, 0>> ELSE op.disp,
                 op.width)
    ELSE RegRead(op.id)

\* IR of 32 bits is computed in 64, whose lower half is the same. The operand
\* that is no memory has the width of the operation.
Asked(call) ==
    IF call.via = "ir"
    THEN LET ops == call.instr.ops IN
         [op |-> Operation[call.group], width |-> 64,
          ops |-> <<RegRead(ops[1].id), RegRead(ops[Len(ops)].id)>>]
    ELSE [op |-> 8 * (call.opcode.val \div 8),
          width |-> IF IsMem(call.ops[1]) THEN call.ops[2].width ELSE call.ops[1].width,
          ops |-> [i \in Given(_i64_lookup_opcode_meta(call.opcode)) |->
                      OperandRead(call.ops[i])]]

\* Without the lengths.
Listing(instrs) ==
    [i \in DOMAIN instrs |->
        [op |-> instrs[i].op, width |-> instrs[i].width, ops |-> instrs[i].ops]]

Read == Listing(Disassembly(code))

AskedSoFar == [i \in 1 .. next |-> Asked(prog[i])]
-----------------------------------------------------------------------------
(* The known causes of code that is not what was asked for. *)

\* The two applications of the flip cancel, so that the first operand of an
\* RM_R form, in the r/m field, has its extension in the bit of the reg field.
SwapsExtensions(form, ops) == form = "RM_R" /\ Extended(ops[1].id) # Extended(ops[2].id)

\* Without a REX prefix there are no upper registers, and the byte registers
\* 4 to 7 are the high bytes of 0 to 3.
NeedsRex(ops) ==
    \E i \in DOMAIN ops :
        \/ Extended(ops[i].id)
        \/ IsSib(ops[i]) /\ Extended(ops[i].index)
        \/ ~IsMem(ops[i]) /\ ops[i].id \in 4 .. 7

\* A prefix that is not there, because the opcode does not have it, or because
\* both are needed.
LacksPrefix(desc, ops) ==
    LET address32 == \E i \in DOMAIN ops : IsMem(ops[i]) /\ ops[i].width = 32
        is16 == \E i \in DOMAIN ops : ops[i].width = 16
    IN  IF "LEGACY" \in desc.flags THEN address32 /\ is16 ELSE address32 \/ is16

Displaced(op) == op.type \cap {"DISP8", "DISP32"} # {}

\* Addresses that have no such encoding: rSP and r12 need a SIB, rBP and r13 a
\* displacement, and rSP is no index. An index is extended as its base is.
NoSuchAddress(op) ==
    \/ ~IsSib(op) /\ op.id % 8 = 4
    \/ ~Displaced(op) /\ op.id % 8 = 5
    \/ IsSib(op) /\ (Extended(op.id) # Extended(op.index) \/ op.index = 4)

\* A byte of the instruction that is zero and is left out: the ModRM of [rAX]
\* with register 0, and the SIB of [rAX + rAX * 1].
LosesByte(op, reg) ==
    IF IsSib(op) THEN op.scale = 0 /\ op.index % 8 = 0 /\ op.id % 8 = 0
    ELSE ~Displaced(op) /\ op.id % 8 = 0 /\ reg.id % 8 = 0

\* The SIB and the displacement are taken from the first operand, a register.
TakenFromFirst(form, ops) ==
    LET Sib(op) == <<op.scale, op.index % 8, op.id % 8>> IN
    form = "R_RM" /\ \/ IsSib(ops[2]) /\ Sib(ops[1]) # Sib(ops[2])
                     \/ Displaced(ops[2]) /\ ops[1].disp # ops[2].disp

KnownCause(call) ==
    IF call.via = "ir"
    THEN SwapsExtensions("RM_R", <<call.instr.ops[1], call.instr.ops[Len(call.instr.ops)]>>)
    ELSE LET desc == _i64_lookup_opcode_meta(call.opcode)
             ops == [i \in Given(desc) |-> call.ops[i]]
             rm == IF desc.form = "RM_R" THEN 1 ELSE 2
         IN  IF desc.form = "R" THEN ops[1].id # 0
             ELSE \/ "REX" \in desc.flags /\ SwapsExtensions(desc.form, ops)
                  \/ "REX" \notin desc.flags /\ NeedsRex(ops)
                  \/ LacksPrefix(desc, ops)
                  \/ TakenFromFirst(desc.form, ops)
                  \/ IsMem(ops[rm]) /\ NoSuchAddress(ops[rm])
                  \/ IsMem(ops[rm]) /\ LosesByte(ops[rm], ops[3 - rm])
-----------------------------------------------------------------------------
(* Properties *)

\* A processor reads from the code exactly the instructions asked for, one by one,
\* if no call was met by one of the known causes: there is no further one in
\* i64_emit_64, its tables, or the way from IR to them.
RightWithoutCause ==
    (\A i \in 1 .. next : ~KnownCause(prog[i])) => Read = AskedSoFar

\* Each of the causes is one: an instruction it meets is not encoded rightly.
CausesAreReal == next = 1 /\ KnownCause(prog[1]) => Read # AskedSoFar

\* A listing has one instruction on registers for each one written from IR.
InStep(read) ==
    /\ Len(read) = next
    /\ \A i \in 1 .. next :
          /\ read[i].op = Asked(prog[i]).op /\ read[i].width = 64
          /\ \A k \in 1 .. 2 : read[i].ops[k].kind = "reg"

\* Code from IR is read in step whatever its registers: each IR instruction is
\* one host instruction of its operation, in 64 bits, on registers, and none is
\* lost at an assertion of i64_ir.c.
IrStaysInStep ==
    (\A i \in 1 .. Len(prog) : prog[i].via = "ir") =>
        /\ InStep(Read)
        /\ next < Len(prog) => Accepts(prog[next + 1].instr)

\* test_suite.c:89 names a case "ADD [rdx], r15", and ir_opcode.h:63 says of an IR
\* instruction "op[0] = add i32 op[1], op[2]": the code is what the calls say.
EmitsWhatIsAsked == Read = AskedSoFar
=============================================================================
