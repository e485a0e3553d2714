------------------------------- MODULE I64Ir -------------------------------
(* From IR to host instructions, asm/intel/i64_ir.c with its tables.         *)
EXTENDS IrOpcode, I64Emit

\* A table entry by its value: generic opcodes have no length.
I64_IR_GROUP_TO_GENERIC(group, width) ==
    LET byte == width = IrWidth["I8"] IN
    CASE group = IrGroup["ADD"] -> IF byte THEN 0 ELSE 1
      [] group = IrGroup["OR"] -> IF byte THEN 8 ELSE 9
      [] group = IrGroup["AND"] -> IF byte THEN 32 ELSE 33
      [] group = IrGroup["SUB"] -> IF byte THEN 40 ELSE 45
      [] group = IR_OPCODE_GROUP(IrGroup["MOV"]) -> IF byte THEN 136 ELSE 137
      [] OTHER -> 0

\* The row of a generic of bytes has the two forms of registers and memory, the
\* one of words also those for immediates. No byte is moved.
I64_IR_GENERIC_TO_SPECIFIC(generic, form) ==
    LET base == 8 * (generic \div 8) IN
    CASE generic \in AluGroups /\ form = "RM_R" -> I64Opcode(base)
      [] generic \in AluGroups /\ form = "R_RM" -> I64Opcode(base + 2)
      [] generic \in {1, 9, 33, 45} /\ form = "RM_R" -> I64Opcode(base + 1)
      [] generic \in {1, 9, 33, 45} /\ form = "R_RM" -> I64Opcode(base + 3)
      [] generic \in {1, 9, 33, 45} /\ form = "RM_IMM" -> I64Opcode(base + 4)
      [] generic \in {1, 9, 33, 45} /\ form = "rAX_IMM" -> I64Opcode(base + 5)
      [] generic = 137 /\ form = "RM_R" -> I64Opcode(137)
      [] generic = 137 /\ form = "R_RM" -> I64Opcode(139)
      [] OTHER -> I64_INVALID_OPCODE

\* I64_IR_FORM_MAP, as _i64_ir_opcode_form_res reads it.
_i64_ir_opcode_form_res(dest, src) ==
    CASE dest.kind \in {"REG", "MEM"} /\ src.kind = "IMM" -> "RM_IMM"
      [] dest.kind \in {"REG", "MEM"} /\ src.kind = "REG" -> "RM_R"
      [] dest.kind = "REG" /\ src.kind = "MEM" -> "R_RM"
      [] OTHER -> "UNK"

_i64_ir_opcode_trans(group, width, dest, src) ==
    I64_IR_GENERIC_TO_SPECIFIC(I64_IR_GROUP_TO_GENERIC(group, width),
                               _i64_ir_opcode_form_res(dest, src))

I64_REG_TO_OPERAND == [id \in 0 .. 15 |-> id]

\* Only registers are translated; the others stay zero. The width is the one of
\* the opcode's operand, whatever the width of the IR opcode.
_i64_ir_operand_trans(op, desc) ==
    IF op.kind = "REG"
    THEN [NoOperand EXCEPT !.id = I64_REG_TO_OPERAND[op.id],
                           !.type = desc.type \cap {"REG"}, !.width = desc.width]
    ELSE NoOperand

\* A destination that is also the first source is left out.
Skipped(instr) == IF IrOpAt(instr, 1).id = IrOpAt(instr, 2).id THEN 1 ELSE 0

ConvOpcode(instr) ==
    _i64_ir_opcode_trans(IR_OPCODE_GROUP(instr.opcode), IR_OPCODE_WIDTH(instr.opcode),
                         IrOpAt(instr, Skipped(instr) + 1), IrOpAt(instr, Skipped(instr) + 2))

\* Operand k of the host instruction, in i64_ir_opcode_conv.
ConvOperand(instr, k) ==
    LET desc == _i64_lookup_opcode_meta(ConvOpcode(instr)) IN
    IF k + Skipped(instr) <= Len(instr.ops) /\ k <= Len(desc.ops)
    THEN _i64_ir_operand_trans(IrOpAt(instr, k + Skipped(instr)), desc.ops[k])
    ELSE NoOperand

\* Wrong form: every instruction is taken for one that needs its move.
AcceptsNoFold(instr) ==
    /\ IrOpAt(instr, 1).id # IrOpAt(instr, 2).id
    /\ _i64_lookup_opcode_meta(ConvOpcode(instr)).form
         = _i64_ir_opcode_form_res(IrOpAt(instr, Skipped(instr) + 1),
                                   IrOpAt(instr, Skipped(instr) + 2))

\* The assertions of i64_ir_to_raw and i64_ir_opcode_conv, which end the program:
\* a move onto itself, and an opcode of another form than the operands have.
Accepts(instr) ==
    /\ ~ /\ IrOpAt(instr, 1).id = IrOpAt(instr, 2).id
         /\ IR_OPCODE_FLAGS(instr.opcode) = IR_DEST_NEQ_SRC
    /\ _i64_lookup_opcode_meta(ConvOpcode(instr)).form
         = _i64_ir_opcode_form_res(IrOpAt(instr, Skipped(instr) + 1),
                                   IrOpAt(instr, Skipped(instr) + 2))

i64_ir_to_raw(instr) ==
    i64_emit_64(ConvOpcode(instr), <<ConvOperand(instr, 1), ConvOperand(instr, 2)>>)
=============================================================================
