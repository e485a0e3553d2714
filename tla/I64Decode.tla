----------------------------- MODULE I64Decode -----------------------------
(***************************************************************************)
(* The reference for the emitter: how a processor in 64-bit mode reads the *)
(* bytes of the instructions the emitter has, after the opcode map and the *)
(* ModRM and SIB tables of the Intel manual.                               *)
(*                                                                         *)
(* An instruction is an operation (the first opcode of its group), a width *)
(* and its operands: a register, the high byte of one, or memory.  No      *)
(* base, index or displacement is -1 or zero bytes; the instruction        *)
(* pointer as a base is -2.                                                *)
(***************************************************************************)
EXTENDS Integers, Sequences

Operation == [ADD |-> 0, OR |-> 8, AND |-> 32, SUB |-> 40, PUSH |-> 80, MOV |-> 136]

RegRead(id) == [kind |-> "reg", id |-> id]
HighByte(id) == [kind |-> "high", id |-> id]
MemRead(base, index, scale, disp, address) ==
    [kind |-> "mem", base |-> base, index |-> index, scale |-> scale,
     disp |-> disp, address |-> address]

\* The bytes end within the instruction, or they are none of the instructions.
Undecodable == [op |-> -1, width |-> 0, ops |-> <<>>, len |-> 0]

SignExtended(byte) ==
    IF byte < 128 THEN <<byte, 0, 0, 0>> ELSE <<byte, 255, 255, 255>>

\* Memory from mod and rm, the SIB and displacement following at the index at
\* in b; with the index behind it.
Memory(b, at, mod, rm, extX, extB, address) ==
    LET hasSib == rm = 4
        sib == IF hasSib THEN b[at] ELSE 0
        baseBits == IF hasSib THEN sib % 8 ELSE rm
        based == ~(mod = 0 /\ baseBits = 5)
        base == CASE based -> 8 * extB + baseBits
                  [] ~based /\ hasSib -> -1
                  [] OTHER -> -2
        index == 8 * extX + ((sib \div 8) % 8)
        indexed == hasSib /\ index # 4
        from == IF hasSib THEN at + 1 ELSE at
        size == CASE mod = 1 -> 1 [] mod = 2 \/ ~based -> 4 [] OTHER -> 0
        disp == CASE size = 1 -> SignExtended(b[from])
                  [] size = 4 -> SubSeq(b, from, from + 3)
                  [] OTHER -> <<0, 0, 0, 0>>
    IN  [operand |-> MemRead(base, IF indexed THEN index ELSE -1,
                             IF indexed THEN sib \div 64 ELSE 0, disp, address),
         next |-> from + size]

\* A register operand; without a REX prefix, the bytes 4 to 7 are high bytes.
Register(id, width, rexed) ==
    IF width = 8 /\ ~rexed /\ id \in 4 .. 7 THEN HighByte(id - 4) ELSE RegRead(id)

Width(op, rex, leg) ==
    CASE op % 2 = 0 -> 8
      [] op % 2 = 1 /\ rex >= 8 -> 64
      [] op % 2 = 1 /\ rex < 8 /\ leg = 102 -> 16
      [] OTHER -> 32

\* An instruction with a ModRM byte, its operands as [operand, next] of the r/m
\* field and as the register of the reg field. Bit 1 of the opcode tells which
\* of them comes first.
WithModRM(op, width, rm, reg) ==
    [op |-> 8 * (op \div 8), width |-> width, len |-> rm.next - 1,
     ops |-> IF (op \div 2) % 2 = 1 THEN <<reg, rm.operand>> ELSE <<rm.operand, reg>>]

RmField(b, at, modrm, rex, width, rexed, address) ==
    IF modrm \div 64 = 3
    THEN [operand |-> Register(8 * (rex % 2) + (modrm % 8), width, rexed), next |-> at]
    ELSE Memory(b, at, modrm \div 64, modrm % 8, (rex \div 2) % 2, rex % 2, address)

\* The instruction whose opcode is at the index at, after the prefixes.
AfterPrefixes(b, at, op, leg, rexed, rex, width) ==
    CASE (op < 64 /\ op % 8 < 4) \/ op \in 136 .. 139 ->
           WithModRM(op, width,
                     RmField(b, at + 2, b[at + 1], rex, width, rexed,
                             IF leg = 103 THEN 32 ELSE 64),
                     Register(8 * ((rex \div 4) % 2) + ((b[at + 1] \div 8) % 8), width, rexed))
      [] op \in 80 .. 87 ->
           [op |-> Operation["PUSH"], width |-> 64, len |-> at,
            ops |-> <<RegRead(8 * (rex % 2) + op - 80)>>]
      [] OTHER -> Undecodable

AfterLegacy(b, at, leg) ==
    LET rexed == b[at] \in 64 .. 79
        rex == IF rexed THEN b[at] - 64 ELSE 0
        opAt == IF rexed THEN at + 1 ELSE at
    IN  AfterPrefixes(b, opAt, b[opAt], leg, rexed, rex, Width(b[opAt], rex, leg))

Instruction(b) ==
    IF b[1] \in {102, 103} THEN AfterLegacy(b, 2, b[1]) ELSE AfterLegacy(b, 1, 0)

\* An instruction that goes on behind the end of the code is not complete.
Complete(instr, size) == IF instr.len > size THEN Undecodable ELSE instr

\* The instruction the code begins with. Zeros after its end stand for whatever
\* comes next.
Decoded(code) == Complete(Instruction(code \o [i \in 1 .. 8 |-> 0]), Len(code))

\* The instructions of a piece of code, up to one that cannot be read.
Disassembly(code) ==
    LET from[i \in 1 .. Len(code) + 1] ==
            IF i > Len(code) THEN <<>>
            ELSE LET instr == Decoded(SubSeq(code, i, Len(code)))
                 IN  IF instr = Undecodable THEN <<instr>>
                     ELSE <<instr>> \o from[i + instr.len]
    IN  from[1]
=============================================================================
