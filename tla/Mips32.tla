------------------------------- MODULE Mips32 -------------------------------
(* The decoder of guest instructions, asm/mips.  A word is a pair of 16-bit *)
(* halves, hi and lo, so that its fields stay within TLC's integers.        *)
EXTENDS IrOpcode

_mips32_funct(w) == w.lo % 64
_mips32_rd(w) == (w.lo \div 2048) % 32
_mips32_rt(w) == w.hi % 32
_mips32_rs(w) == (w.hi \div 32) % 32
_mips32_opcode(w) == (w.hi \div 1024) % 64

\* _mips32_get_instr_type
InstrType(w) ==
    CASE _mips32_opcode(w) = 0 -> "R"
      [] _mips32_opcode(w) \in {2, 3} -> "J"
      [] OTHER -> "I"

\* Wrong form: the codes of addu and subu.
MIPS32_TO_IR_TABLE_Unsigned(funct) ==
    CASE funct = 33 -> IrOpcode("ADD", "I32")
      [] funct = 35 -> IrOpcode("SUB", "I32")
      [] OTHER -> IR_INVALID_OPCODE

MIPS32_TO_IR_TABLE(funct) ==
    CASE funct = 32 -> IrOpcode("ADD", "I32")
      [] funct = 34 -> IrOpcode("SUB", "I32")
      [] funct = 36 -> IrOpcode("AND", "I32")
      [] funct = 37 -> IrOpcode("OR", "I32")
      [] OTHER -> IR_INVALID_OPCODE

Regs(w) == <<IrReg(_mips32_rd(w)), IrReg(_mips32_rs(w)), IrReg(_mips32_rt(w))>>

\* mips32_to_ir of a word of type R; the others end the program.
mips32_to_ir(w) == IrInstrOf(MIPS32_TO_IR_TABLE(_mips32_funct(w)), Regs(w))

\* mips32_reg_fetch: no registers for funct 0, and for types I and J.
mips32_reg_fetch(w) ==
    IF InstrType(w) = "R" /\ _mips32_funct(w) # 0 THEN Regs(w) ELSE <<>>

\* What the passes of a translation block get to know of a word.
GuestInstr(w) ==
    [opcode |-> mips32_to_ir(w).opcode, fetched |-> mips32_reg_fetch(w) # <<>>,
     ops |-> [k \in 1 .. 3 |-> mips32_to_ir(w).ops[k].id]]
-----------------------------------------------------------------------------
(* The reference: what an assembler makes of "name rd, rs, rt", from the   *)
(* fields of the MIPS32 manual, op(6) rs(5) rt(5) rd(5) shamt(5) funct(6). *)

Funct == [ADD |-> 32, SUB |-> 34, AND |-> 36, OR |-> 37, XOR |-> 38, NOP |-> 0]

Asm(name, rd, rs, rt) == [name |-> name, rd |-> rd, rs |-> rs, rt |-> rt]

Assembled(a) == [hi |-> 32 * a.rs + a.rt, lo |-> 2048 * a.rd + Funct[a.name]]
=============================================================================
