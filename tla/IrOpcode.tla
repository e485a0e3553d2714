------------------------------ MODULE IrOpcode ------------------------------
(* The IR of ir/ir_opcode.h: an opcode is a 16-bit number made of a return  *)
(* bit, the width of the operands and a group with its flags.               *)
EXTENDS Integers, Sequences

IR_DEST_NEQ_SRC == 4

\* enum ir_opcode_group: the flags are in bits 10 to 12.
IrGroup ==
    [INVALID |-> 0, ADD |-> 1, OR |-> 2, AND |-> 3, SUB |-> 4,
     ALLOC |-> 1024 * IR_DEST_NEQ_SRC + 5,
     DEALLOC |-> 1024 * IR_DEST_NEQ_SRC + 6,
     MOV |-> 1024 * IR_DEST_NEQ_SRC + 7]

IrWidth == [I8 |-> 0, I16 |-> 1, I32 |-> 2, I64 |-> 3]

\* _IR_OPI with the return bit, which every opcode but the invalid one has.
IrOpcode(group, width) == 32768 + 8192 * IrWidth[width] + IrGroup[group]
IR_INVALID_OPCODE == 0

IR_OPCODE_WIDTH(opcode) == (opcode \div 8192) % 4
IR_OPCODE_FLAGS(opcode) == (opcode \div 1024) % 8
IR_OPCODE_GROUP(opcode) == opcode % 1024

ir_opcode_swap_group(opcode, group) == 8192 * (opcode \div 8192) + IrGroup[group]

\* Of three operands r0 = r1 op r2 the code keeps a set of six with a count.
IrReg(id) == [kind |-> "REG", id |-> id]
IrInstrOf(opcode, ops) == [opcode |-> opcode, ops |-> ops]

\* An operand past the count is zero: register 0.
IrOpAt(instr, k) == IF k <= Len(instr.ops) THEN instr.ops[k] ELSE IrReg(0)
=============================================================================
