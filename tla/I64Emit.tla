------------------------------ MODULE I64Emit ------------------------------
(***************************************************************************)
(* The emitter of host instructions, asm/intel/emitter: i64_emit_64 makes  *)
(* the bytes of an instruction from its opcode and its operands.           *)
(*                                                                         *)
(* An operand has a set of type flags (a SIB or displacement operand is a  *)
(* memory operand too), a width in bits, the id of its register and, for   *)
(* memory, a scale, an index and a displacement of four bytes, the lowest  *)
(* first. An opcode has its length and its value; all of the enum's have   *)
(* one byte, so that the two leading opcode bytes are never there.         *)
(***************************************************************************)
EXTENDS Integers, Sequences

I64_INVALID_OPCODE == [len |-> 0, val |-> 0]
I64Opcode(val) == [len |-> 1, val |-> val]

\* An operand that is not given: the caller's array is zeroed.
NoOperand ==
    [type |-> {}, width |-> 0, id |-> 0, scale |-> 0, index |-> 0, disp |-> <<0, 0, 0, 0>>]

RegOperand(id, width) == [NoOperand EXCEPT !.type = {"REG"}, !.id = id, !.width = width]

IsMem(op) == "MEM" \in op.type
IsSib(op) == "SIB" \in op.type

\* I64_OP_EXT of an id.
Extended(id) == id >= 8
-----------------------------------------------------------------------------
(* The metadata of the opcodes. *)

Desc(ops, flags, form) == [ops |-> ops, flags |-> flags, form |-> form]
NoDesc == Desc(<<>>, {}, "UNK")

R(width) == [type |-> {"REG"}, width |-> width]
RM(width) == [type |-> {"REG", "MEM"}, width |-> width]
Im(width) == [type |-> {"IMM"}, width |-> width]

\* ADD, OR, AND and SUB begin at these opcodes and have six forms each.
AluGroups == {0, 8, 32, 40}
AluRow ==
    <<Desc(<<RM(8), R(8)>>, {"MODRM", "LEGACY"}, "RM_R"),
      Desc(<<RM(64), R(64)>>, {"REX", "MODRM", "LEGACY"}, "RM_R"),
      Desc(<<R(8), RM(8)>>, {"MODRM"}, "R_RM"),
      Desc(<<R(64), RM(64)>>, {"REX", "MODRM"}, "R_RM"),
      Desc(<<R(8), Im(8)>>, {}, "rAX_IMM"),
      Desc(<<R(32), Im(32)>>, {}, "rAX_IMM")>>

MovGroup == 136
MovRow ==
    <<Desc(<<RM(8), R(8)>>, {"MODRM"}, "RM_R"),
      Desc(<<RM(64), R(64)>>, {"REX", "MODRM"}, "RM_R"),
      Desc(<<R(8), RM(8)>>, {"MODRM"}, "R_RM"),
      Desc(<<R(64), RM(64)>>, {"REX", "MODRM"}, "R_RM")>>

PUSH_R64 == 80
PushRow == Desc(<<R(64)>>, {}, "R")

L1_OPCODE_META_TABLE ==
    [val \in 0 .. 255 |->
        LET form == (val % 8) + 1 IN
        CASE 8 * (val \div 8) \in AluGroups /\ form <= Len(AluRow) -> AluRow[form]
          [] 8 * (val \div 8) = MovGroup /\ form <= Len(MovRow) -> MovRow[form]
          [] val = PUSH_R64 -> PushRow
          [] OTHER -> NoDesc]

_i64_lookup_opcode_meta(opcode) ==
    IF opcode.len = 1 THEN L1_OPCODE_META_TABLE[opcode.val] ELSE NoDesc

\* Bit 3 of a form: the first operand is in the r/m field.
Flips(form) == form \in {"RM_R", "RM_IMM"}
-----------------------------------------------------------------------------
(* i64_sum_calc: what the prefixes and fields need to know of the operands. *)

Given(desc) == DOMAIN desc.ops

AllWide(desc, ops) == \A i \in Given(desc) : ops[i].width = 64 \/ IsMem(ops[i])

\* The index of the operand with a SIB is counted out in the loop and then
\* overwritten by a variable that is always zero. And what is taken for an
\* extended index is an extended base.
SumCalc(desc, ops) ==
    LET flip == Flips(desc.form)
        dest == IF flip THEN ops[2] ELSE ops[1]
        src == IF flip THEN ops[1] ELSE ops[2]
        Some(P(_)) == \E i \in Given(desc) : P(ops[i])
        IndexExtended(op) == IsSib(op) /\ Extended(op.id)
        Address32(op) == IsMem(op) /\ op.width = 32
        Is16(op) == op.width = 16
        Disp8(op) == "DISP8" \in op.type
        Disp32(op) == "DISP32" \in op.type
    IN  [flip |-> flip, sibAt |-> 1, wide |-> AllWide(desc, ops),
         dest |-> Extended(dest.id), src |-> Extended(src.id),
         mem |-> Some(IsMem), sib |-> Some(IsSib), index |-> Some(IndexExtended),
         address32 |-> Some(Address32), is16 |-> Some(Is16),
         disp8 |-> Some(Disp8), disp32 |-> Some(Disp32)]
-----------------------------------------------------------------------------
(* The bytes. *)

Bit(b) == IF b THEN 1 ELSE 0

\* Wrong form: the flip of i64_sum_calc is not applied once more.
RexOnce(sum) ==
    LET rex == 64 + 8 * Bit(sum.wide) + 4 * Bit(sum.dest) + 2 * Bit(sum.index) + Bit(sum.src)
    IN  IF rex = 64 THEN 0 ELSE rex

_i64_rex_resolve(sum) ==
    LET r == IF sum.flip THEN sum.src ELSE sum.dest
        b == IF sum.flip THEN sum.dest ELSE sum.src
        rex == 64 + 8 * Bit(sum.wide) + 4 * Bit(r) + 2 * Bit(sum.index) + Bit(b)
    IN  IF rex = 64 THEN 0 ELSE rex

_i64_leg_resolve(sum) ==
    CASE sum.address32 /\ ~sum.is16 -> 103
      [] sum.is16 /\ ~sum.address32 -> 102
      [] OTHER -> 0

\* mod_magic, two bits for each combination of memory, SIB and displacements; a
\* SIB or a displacement is a memory operand's, so that ~mem stands for entry 0.
Mod(sum) ==
    CASE ~sum.mem -> 3
      [] sum.disp8 /\ ~sum.disp32 -> 1
      [] sum.disp32 /\ ~sum.disp8 -> 2
      [] OTHER -> 0

\* Wrong form: no byte for a SIB to follow.
ModRMNoSib(ops, sum) ==
    LET rm == IF sum.flip THEN ops[1].id ELSE ops[2].id
        reg == IF sum.flip THEN ops[2].id ELSE ops[1].id
    IN  64 * Mod(sum) + 8 * (reg % 8) + (rm % 8)

_i64_modrm_resolve(ops, sum) ==
    LET rm == IF sum.flip THEN ops[1].id ELSE ops[2].id
        reg == IF sum.flip THEN ops[2].id ELSE ops[1].id
    IN  64 * Mod(sum) + 8 * (reg % 8) + (IF sum.sib THEN 4 ELSE rm % 8)

_i64_sib_resolve(op, sum) ==
    IF sum.sib THEN 64 * op.scale + 8 * (op.index % 8) + (op.id % 8) ELSE 0

\* A byte that is zero is taken for one that is not there.
Present(byte) == IF byte = 0 THEN <<>> ELSE <<byte>>

Displacement(op, sum) ==
    CASE sum.disp32 -> op.disp
      [] sum.disp8 /\ ~sum.disp32 -> <<op.disp[1]>>
      [] OTHER -> <<>>

i64_emit_64(opcode, ops) ==
    LET desc == _i64_lookup_opcode_meta(opcode)
        sum == SumCalc(desc, ops)
        With(flag, byte) == IF flag \in desc.flags THEN Present(byte) ELSE <<>>
    IN  With("LEGACY", _i64_leg_resolve(sum))
        \o With("REX", _i64_rex_resolve(sum))
        \o <<opcode.val>>
        \o With("MODRM", _i64_modrm_resolve(ops, sum))
        \o Present(_i64_sib_resolve(ops[sum.sibAt], sum))
        \o Displacement(ops[sum.sibAt], sum)
=============================================================================
