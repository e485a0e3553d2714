--------------------------- MODULE EmitterProofs ---------------------------
(***************************************************************************)
(* Proofs about host code as it grows, for code of any length.             *)
(*                                                                         *)
(* The invariant is that the code is the bytes of the calls made, one      *)
(* behind the other.  What remains is about one call: its bytes are laid   *)
(* out from its operands, and what the decoder reads of them, field by     *)
(* field, is what was asked for exactly if none of the known causes is     *)
(* met.                                                                    *)
(***************************************************************************)
EXTENDS Emitter, I64Proofs

-----------------------------------------------------------------------------
(* Calls. *)

IsIrCall(call, g, d, s) ==
    /\ IsIrInstr(call.instr, g, d, s)
    /\ call.via = "ir" /\ call.group = g

LEMMA IrCallIs ==
    ASSUME NEW call \in Calls, call.via = "ir"
    PROVE  \E g, d, s : IsIrCall(call, g, d, s)
<1>1. call \in IrCalls(0 .. 15)
  BY DEF Calls
<1>2. CASE \E c \in Folded \X (0 .. 15) \X (0 .. 15) :
              call = FromIr(c[1], <<IrReg(c[2]), IrReg(c[2]), IrReg(c[3])>>)
  <2>1. PICK c \in Folded \X (0 .. 15) \X (0 .. 15) :
                call = FromIr(c[1], <<IrReg(c[2]), IrReg(c[2]), IrReg(c[3])>>)
    BY <1>2
  <2>2. IsIrCall(call, c[1], c[2], c[3])
    BY <2>1 DEF IsIrCall, IsIrInstr, FromIr, IrInstrOf, IrOps, Folded
  <2> QED BY <2>2, Zenon
<1>3. CASE \E p \in {q \in (0 .. 15) \X (0 .. 15) : q[1] # q[2]} :
              call = FromIr("MOV", <<IrReg(p[1]), IrReg(p[2])>>)
  <2>1. PICK p \in (0 .. 15) \X (0 .. 15) :
                p[1] # p[2] /\ call = FromIr("MOV", <<IrReg(p[1]), IrReg(p[2])>>)
    BY <1>3
  <2>2. IsIrCall(call, "MOV", p[1], p[2])
    BY <2>1 DEF IsIrCall, IsIrInstr, FromIr, IrInstrOf, IrOps, Folded
  <2> QED BY <2>2, Zenon
<1> QED BY <1>1, <1>2, <1>3, Zenon DEF IrCalls, Folded

\* What such a call asks for, and when it meets a known cause.
LEMMA IrCallAsks ==
    ASSUME NEW call, NEW g, NEW d, NEW s, IsIrCall(call, g, d, s)
    PROVE  /\ Asked(call) = [op |-> Operation[g], width |-> 64,
                             ops |-> <<RegRead(d), RegRead(s)>>]
           /\ KnownCause(call) <=> ~(Extended(d) <=> Extended(s))
<1> DEFINE ops == call.instr.ops
<1>1. call.via = "ir" /\ call.group = g /\ ops = IrOps(g, d, s)
  BY DEF IsIrCall, IsIrInstr, IrInstrOf
<1>2. ops[1].id = d /\ ops[Len(ops)].id = s
  BY <1>1 DEF IrOps, IrReg
<1> HIDE DEF ops
<1>3. Asked(call) = [op |-> Operation[g], width |-> 64, ops |-> <<RegRead(d), RegRead(s)>>]
  BY <1>1, <1>2, Zenon DEF Asked, ops
<1>4. KnownCause(call) <=> ~(Extended(d) <=> Extended(s))
  <2>1. KnownCause(call) <=> SwapsExtensions("RM_R", <<ops[1], ops[Len(ops)]>>)
    BY <1>1, Zenon DEF KnownCause, ops
  <2> QED BY <1>2, <2>1 DEF SwapsExtensions, Extended
<1> QED BY <1>3, <1>4

\* Whatever its operands are, i64_emit_64 makes bytes.
LEMMA EmitsBytes ==
    ASSUME NEW opcode \in [len : {1}, val : 0 .. 255], NEW ops \in Operand \X Operand
    PROVE  i64_emit_64(opcode, ops) \in Seq(Byte)
<1> DEFINE desc == _i64_lookup_opcode_meta(opcode)
           sum == SumCalc(desc, ops)
           With(flag, byte) == IF flag \in desc.flags THEN Present(byte) ELSE <<>>
<1>1. i64_emit_64(opcode, ops)
        = With("LEGACY", _i64_leg_resolve(sum)) \o With("REX", _i64_rex_resolve(sum))
          \o <<opcode.val>> \o With("MODRM", _i64_modrm_resolve(ops, sum))
          \o Present(_i64_sib_resolve(ops[sum.sibAt], sum)) \o Displacement(ops[sum.sibAt], sum)
  BY Zenon DEF i64_emit_64
<1>2. sum.sibAt = 1
  BY Zenon DEF SumCalc
<1> HIDE DEF desc, sum
<1>3. \A k \in 1 .. 2 : /\ ops[k].id \in 0 .. 15 /\ ops[k].index \in 0 .. 15
                        /\ ops[k].scale \in 0 .. 3 /\ ops[k].disp \in [1 .. 4 -> 0 .. 255]
  <2>1. \A op \in Operand : /\ op.id \in 0 .. 15 /\ op.index \in 0 .. 15
                            /\ op.scale \in 0 .. 3 /\ op.disp \in [1 .. 4 -> 0 .. 255]
    BY DEF Operand
  <2>2. \A k \in 1 .. 2 : ops[k] \in Operand
    OBVIOUS
  <2> QED BY <2>1, <2>2
<1>0. <<>> \in Seq(Byte)
  OBVIOUS
<1>4. ASSUME NEW byte \in 0 .. 255 PROVE Present(byte) \in Seq(Byte)
  <2>1. <<byte>> \in Seq(Byte)
    BY DEF Byte
  <2> QED BY <1>0, <2>1, Zenon DEF Present
<1>5. ASSUME NEW flag, NEW byte \in 0 .. 255 PROVE With(flag, byte) \in Seq(Byte)
  BY <1>0, <1>4, Zenon
<1>6. _i64_leg_resolve(sum) \in 0 .. 255
  BY DEF _i64_leg_resolve
<1>7. _i64_rex_resolve(sum) \in 0 .. 255
  <2>1. ASSUME NEW b PROVE Bit(b) \in 0 .. 1
    BY DEF Bit
  <2> DEFINE r == IF sum.flip THEN sum.src ELSE sum.dest
             b == IF sum.flip THEN sum.dest ELSE sum.src
             rex == 64 + 8 * Bit(sum.wide) + 4 * Bit(r) + 2 * Bit(sum.index) + Bit(b)
  <2>2. _i64_rex_resolve(sum) = IF rex = 64 THEN 0 ELSE rex
    BY Zenon DEF _i64_rex_resolve
  <2>3. Bit(sum.wide) \in 0 .. 1 /\ Bit(r) \in 0 .. 1 /\ Bit(sum.index) \in 0 .. 1 /\ Bit(b) \in 0 .. 1
    BY <2>1, Zenon
  <2>4. rex \in 0 .. 255
    <3> HIDE DEF r, b
    <3> QED BY <2>3
  <2> HIDE DEF rex
  <2> QED BY <2>2, <2>4
<1>8. _i64_modrm_resolve(ops, sum) \in 0 .. 255
  <2> DEFINE rm == IF sum.flip THEN ops[1].id ELSE ops[2].id
             reg == IF sum.flip THEN ops[2].id ELSE ops[1].id
             low == IF sum.sib THEN 4 ELSE rm % 8
  <2>1. Mod(sum) \in 0 .. 3
    BY DEF Mod
  <2>2. reg % 8 \in 0 .. 7 /\ low \in 0 .. 7
    BY <1>3
  <2>3. _i64_modrm_resolve(ops, sum) = 64 * Mod(sum) + 8 * (reg % 8) + low
    BY Zenon DEF _i64_modrm_resolve
  <2> HIDE DEF reg, low
  <2> QED BY <2>1, <2>2, <2>3
<1>9. _i64_sib_resolve(ops[1], sum) \in 0 .. 255
  BY <1>3 DEF _i64_sib_resolve
<1>10. Displacement(ops[1], sum) \in Seq(Byte)
  <2>1. ops[1].disp \in Seq(Byte) /\ <<ops[1].disp[1]>> \in Seq(Byte)
    <3>1. ASSUME NEW f \in [1 .. 4 -> 0 .. 255]
          PROVE  f \in Seq(Byte) /\ <<f[1]>> \in Seq(Byte)
      <4>1. [i \in 1 .. 4 |-> f[i]] \in Seq(Byte)
        BY DEF Byte
      <4>2. f = [i \in 1 .. 4 |-> f[i]]
        OBVIOUS
      <4>3. f[1] \in 0 .. 255
        OBVIOUS
      <4>4. <<f[1]>> \in Seq(Byte)
        BY <4>3 DEF Byte
      <4> QED BY <4>1, <4>2, <4>4, Zenon
    <3> QED BY <1>3, <3>1
  <2>2. Displacement(ops[1], sum) \in {ops[1].disp, <<ops[1].disp[1]>>, <<>>}
    BY DEF Displacement
  <2> QED BY <1>0, <2>1, <2>2, Zenon
<1>11. <<opcode.val>> \in Seq(Byte)
  BY DEF Byte
<1>12. /\ With("LEGACY", _i64_leg_resolve(sum)) \in Seq(Byte)
       /\ With("REX", _i64_rex_resolve(sum)) \in Seq(Byte)
       /\ With("MODRM", _i64_modrm_resolve(ops, sum)) \in Seq(Byte)
       /\ Present(_i64_sib_resolve(ops[1], sum)) \in Seq(Byte)
  BY <1>4, <1>5, <1>6, <1>7, <1>8, <1>9
<1> HIDE DEF With
<1> QED BY <1>1, <1>2, <1>10, <1>11, <1>12

-----------------------------------------------------------------------------
(* The code as it grows. *)

BytesOf(call) ==
    IF call.via = "ir" THEN i64_ir_to_raw(call.instr) ELSE i64_emit_64(call.opcode, call.ops)

\* The inductive invariant: the code is the bytes of the calls made.
CodeInv ==
    /\ prog \in Seq(Calls) /\ next \in 0 .. Len(prog)
    /\ \E at : Written(code, next, at, [i \in 1 .. next |-> BytesOf(prog[i])])

\* The bytes of a call of either kind.
LEMMA CallBytes ==
    ASSUME NEW call \in Calls
    PROVE  /\ call.via \in {"ir", "operands"}
           /\ BytesOf(call) \in Seq(Byte)
           /\ call.via = "ir" => Accepts(call.instr)
<1>0. \A c \in IrCalls(0 .. 15) : c.via = "ir"
  <2>1. \A g, ops : FromIr(g, ops).via = "ir"
    BY DEF FromIr
  <2> QED BY <2>1, Zenon DEF IrCalls
<1>1. CASE call.via = "ir"
  <2>1. PICK g, d, s : IsIrCall(call, g, d, s)
    BY <1>1, IrCallIs
  <2>2. IsIrInstr(call.instr, g, d, s)
    BY <2>1 DEF IsIrCall
  <2>3. i64_ir_to_raw(call.instr) \in Seq(Byte)
    BY <2>2, IrInstrWrites
  <2>4. Accepts(call.instr)
    BY <2>2, IrInstrConverted
  <2> QED BY <1>1, <2>3, <2>4 DEF BytesOf
<1>2. CASE call.via # "ir"
  <2>1. call.via = "operands" /\ call.opcode \in [len : {1}, val : 0 .. 255] /\ call.ops \in Operand \X Operand
    BY <1>0, <1>2 DEF Calls
  <2> QED BY <1>2, <2>1, EmitsBytes DEF BytesOf
<1> QED BY <1>1, <1>2

LEMMA CodeInvInit == Init => CodeInv
<1> SUFFICES ASSUME Init PROVE CodeInv
  OBVIOUS
<1>1. prog \in Seq(Calls)
  BY ProgramsAssumption DEF Init
<1>2. code = <<>> /\ next = 0 /\ next \in 0 .. Len(prog)
  BY <1>1 DEF Init
<1>3. Written(code, next, [i \in 1 .. 1 |-> 1], [i \in 1 .. next |-> BytesOf(prog[i])])
  BY <1>2, WrittenNone, Zenon
<1> QED BY <1>1, <1>2, <1>3, Zenon DEF CodeInv

LEMMA CodeInvStep == CodeInv /\ [Next]_vars => CodeInv'
<1> SUFFICES ASSUME CodeInv, [Next]_vars PROVE CodeInv'
  OBVIOUS
<1>1. CASE UNCHANGED vars
  <2>1. prog' = prog /\ next' = next /\ code' = code
    BY <1>1 DEF vars
  <2> QED BY <2>1, Zenon DEF CodeInv
<1> DEFINE call == prog[next + 1]
           W == [i \in 1 .. next |-> BytesOf(prog[i])]
           V == [i \in 1 .. next + 1 |-> BytesOf(prog[i])]
<1>2. CASE Next
  <2>1. /\ next < Len(prog) /\ next' = next + 1 /\ prog' = prog
        /\ code' = code \o BytesOf(call)
    BY <1>2, Zenon DEF Next, EmitIr, EmitOperands, BytesOf
  <2>2. prog \in Seq(Calls) /\ next \in Nat /\ next + 1 \in 1 .. Len(prog) /\ next + 1 \in 0 .. Len(prog)
    BY <2>1 DEF CodeInv
  <2>3. call \in Calls
    BY <2>2
  <2>4. BytesOf(call) \in Seq(Byte)
    BY <2>3, CallBytes
  <2>5. PICK at : Written(code, next, at, W)
    BY Zenon DEF CodeInv
  <2>6. (\A i \in 1 .. next : V[i] = W[i]) /\ V[next + 1] = BytesOf(call)
    BY <2>2
  <2> HIDE DEF V, W, call
  <2>7. \E a : Written(code \o BytesOf(call), next + 1, a, V)
    BY <2>4, <2>5, <2>6, WrittenOneMore, Zenon
  <2>8. V = [i \in 1 .. next' |-> BytesOf(prog'[i])]
    BY <2>1, Zenon DEF V
  <2> QED BY <2>1, <2>2, <2>7, <2>8, Zenon DEF CodeInv
<1> QED BY <1>1, <1>2

LEMMA CodeInvHolds == Spec => []CodeInv
BY CodeInvInit, CodeInvStep, PTL DEF Spec

\* The bytes of a call are read as the instruction x, whatever follows them.
ReadsAs(call, x) ==
    /\ x # Undecodable /\ x.len = Len(BytesOf(call)) /\ Len(BytesOf(call)) > 0
    /\ \A e \in Seq(Byte) : Begins(e, BytesOf(call)) => Decoded(e) = x

\* Code is read as one instruction for each call, if each call is.
LEMMA CallsAreRead ==
    ASSUME CodeInv, NEW X, \A i \in 1 .. next : ReadsAs(prog[i], X[i])
    PROVE  Read = [i \in 1 .. next |-> [op |-> X[i].op, width |-> X[i].width, ops |-> X[i].ops]]
<1> DEFINE W == [i \in 1 .. next |-> BytesOf(prog[i])]
<1>1. PICK at : Written(code, next, at, W)
  BY Zenon DEF CodeInv
<1>2. ASSUME NEW i \in 1 .. next
      PROVE  /\ X[i] # Undecodable /\ X[i].len = Len(W[i]) /\ Len(W[i]) > 0
             /\ \A e \in Seq(Byte) : Begins(e, W[i]) => Decoded(e) = X[i]
  <2>1. W[i] = BytesOf(prog[i]) /\ ReadsAs(prog[i], X[i])
    OBVIOUS
  <2> HIDE DEF W
  <2> QED BY <2>1, Zenon DEF ReadsAs
<1> HIDE DEF W
<1>3. Disassembly(code) = [i \in 1 .. next |-> X[i]]
  <2>1. \A i \in 1 .. next : X[i] # Undecodable /\ X[i].len = Len(W[i]) /\ Len(W[i]) > 0
    BY <1>2, Zenon
  <2>2. \A i \in 1 .. next : \A e \in Seq(Byte) : Begins(e, W[i]) => Decoded(e) = X[i]
    BY <1>2, Zenon
  <2> QED BY <1>1, <2>1, <2>2, WrittenIsRead
<1> QED BY <1>3 DEF Read, Listing

\* The instruction read from a call with IR.
IrRead(g, d, s) == [op |-> Operation[g], width |-> 64, len |-> 3, ops |-> ReadBack(d, s)]

LEMMA IrCallIsRead ==
    ASSUME NEW call, NEW g, NEW d, NEW s, IsIrCall(call, g, d, s)
    PROVE  ReadsAs(call, IrRead(g, d, s))
<1>1. call.via = "ir" /\ IsIrInstr(call.instr, g, d, s)
  BY DEF IsIrCall
<1>2. BytesOf(call) = i64_ir_to_raw(call.instr) /\ Len(BytesOf(call)) = 3
  BY <1>1, IrInstrWrites DEF BytesOf
<1>3. IrRead(g, d, s) # Undecodable /\ IrRead(g, d, s).len = 3
  BY DEF IrRead, Undecodable
<1>4. \A e \in Seq(Byte) : Begins(e, BytesOf(call)) => Decoded(e) = IrRead(g, d, s)
  <2> SUFFICES ASSUME NEW e \in Seq(Byte), Begins(e, i64_ir_to_raw(call.instr))
               PROVE  Decoded(e) = IrRead(g, d, s)
    BY <1>2
  <2>1. Decoded(e) = [op |-> Operation[g], width |-> 64, len |-> 3, ops |-> ReadBack(d, s)]
    BY <1>1, IrInstrIsRead
  <2> QED BY <2>1, Zenon DEF IrRead
<1> QED BY <1>2, <1>3, <1>4 DEF ReadsAs
-----------------------------------------------------------------------------
(* Code from IR. *)

AllIr == \A i \in 1 .. Len(prog) : prog[i].via = "ir"

\* Code from IR is right exactly as far as no instruction exchanges extensions.
IrRightExactly ==
    AllIr => (Read = AskedSoFar <=> \A i \in 1 .. next : ~KnownCause(prog[i]))

LEMMA IrCodeIsRead ==
    ASSUME CodeInv, AllIr
    PROVE  /\ DOMAIN Read = 1 .. next /\ Read = [i \in 1 .. next |-> Read[i]] /\ Len(Read) = next
           /\ \A i \in 1 .. next :
                 /\ Read[i].op = Asked(prog[i]).op /\ Read[i].width = 64
                 /\ \A k \in 1 .. 2 : Read[i].ops[k].kind = "reg"
                 /\ Read[i] = Asked(prog[i]) <=> ~KnownCause(prog[i])
<1> DEFINE X == [i \in 1 .. next |-> CHOOSE x : \E g, d, s : IsIrCall(prog[i], g, d, s) /\ x = IrRead(g, d, s)]
<1>1. ASSUME NEW i \in 1 .. next
      PROVE  \E g, d, s : IsIrCall(prog[i], g, d, s) /\ X[i] = IrRead(g, d, s)
  <2>1. prog[i] \in Calls /\ prog[i].via = "ir"
    BY DEF CodeInv, AllIr
  <2>2. \E x : \E g, d, s : IsIrCall(prog[i], g, d, s) /\ x = IrRead(g, d, s)
    BY <2>1, IrCallIs, Zenon
  <2> QED BY <2>2, Zenon
<1> HIDE DEF X
<1>2. \A i \in 1 .. next : ReadsAs(prog[i], X[i])
  BY <1>1, IrCallIsRead
<1>3. Read = [i \in 1 .. next |-> [op |-> X[i].op, width |-> X[i].width, ops |-> X[i].ops]]
  BY <1>2, CallsAreRead
<1>4. ASSUME NEW i \in 1 .. next
      PROVE  /\ Read[i].op = Asked(prog[i]).op /\ Read[i].width = 64
             /\ \A k \in 1 .. 2 : Read[i].ops[k].kind = "reg"
             /\ Read[i] = Asked(prog[i]) <=> ~KnownCause(prog[i])
  <2>1. PICK g, d, s : IsIrCall(prog[i], g, d, s) /\ X[i] = IrRead(g, d, s)
    BY <1>1
  <2>2. Read[i] = [op |-> Operation[g], width |-> 64, ops |-> ReadBack(d, s)]
    BY <1>3, <2>1 DEF IrRead
  <2>3. /\ Asked(prog[i]) = [op |-> Operation[g], width |-> 64, ops |-> <<RegRead(d), RegRead(s)>>]
        /\ KnownCause(prog[i]) <=> ~(Extended(d) <=> Extended(s))
    BY <2>1, IrCallAsks
  <2>4. ReadBack(d, s) = <<RegRead(d), RegRead(s)>> <=> (Extended(d) <=> Extended(s))
    BY <2>1, ReadBackIsRight DEF IsIrCall, IsIrInstr
  <2>5. \A k \in 1 .. 2 : ReadBack(d, s)[k].kind = "reg"
    BY DEF ReadBack, RegRead
  <2> QED BY <2>2, <2>3, <2>4, <2>5
<1>5. next \in Nat
  BY DEF CodeInv
<1> QED BY <1>3, <1>4, <1>5

LEMMA InvIsInStep == CodeInv => IrStaysInStep
<1> SUFFICES ASSUME CodeInv, AllIr
             PROVE  InStep(Read) /\ (next < Len(prog) => Accepts(prog[next + 1].instr))
  BY DEF IrStaysInStep, AllIr
<1>1. InStep(Read)
  BY IrCodeIsRead, Zenon DEF InStep
<1>2. ASSUME next < Len(prog) PROVE Accepts(prog[next + 1].instr)
  <2>1. next + 1 \in 1 .. Len(prog) /\ prog[next + 1] \in Calls
    BY <1>2 DEF CodeInv
  <2>2. prog[next + 1].via = "ir"
    BY <2>1 DEF AllIr
  <2> QED BY <2>1, <2>2, CallBytes
<1> QED BY <1>1, <1>2

LEMMA InvIsRight == CodeInv => IrRightExactly
<1> SUFFICES ASSUME CodeInv, AllIr
             PROVE  Read = AskedSoFar <=> \A i \in 1 .. next : ~KnownCause(prog[i])
  BY DEF IrRightExactly
<1>1. Read = AskedSoFar <=> \A i \in 1 .. next : Read[i] = Asked(prog[i])
  <2>1. DOMAIN Read = 1 .. next /\ Read = [i \in 1 .. next |-> Read[i]]
    BY IrCodeIsRead
  <2> QED BY <2>1 DEF AskedSoFar
<1> QED BY <1>1, IrCodeIsRead
-----------------------------------------------------------------------------
(* Calls with a register or memory in the r/m field: the bytes. *)

\* The opcodes that a ModRM byte follows.
IsModRM(val) == val \in Byte /\ 8 * (val \div 8) \in AluGroups \cup {MovGroup} /\ val % 8 < 4

\* A call's operands by the fields they go to: rm in r/m, reg in reg.
HasModRM(val, ops, rm, reg) ==
    /\ IsModRM(val)
    /\ rm \in Operand /\ reg \in Operand
    /\ IsRegister(reg, IF val % 2 = 0 THEN {8} ELSE {16, 32, 64})
    /\ IsAddress(rm) \/ IsRegister(rm, {reg.width})
    /\ ops = IF val % 8 < 2 THEN <<rm, reg>> ELSE <<reg, rm>>

\* What the tables say of these opcodes.
LEMMA ModRMDesc ==
    ASSUME NEW val, IsModRM(val)
    PROVE  LET desc == _i64_lookup_opcode_meta(I64Opcode(val)) IN
           /\ Given(desc) = 1 .. 2
           /\ desc.form = (IF val % 8 < 2 THEN "RM_R" ELSE "R_RM")
           /\ "MODRM" \in desc.flags
           /\ "REX" \in desc.flags <=> val % 2 = 1
<1> DEFINE form == (val % 8) + 1
           desc == _i64_lookup_opcode_meta(I64Opcode(val))
           Good(d) == /\ Given(d) = 1 .. 2
                      /\ d.form = (IF form < 3 THEN "RM_R" ELSE "R_RM")
                      /\ "MODRM" \in d.flags
                      /\ "REX" \in d.flags <=> form \in {2, 4}
<1>1. desc = L1_OPCODE_META_TABLE[val] /\ val \in 0 .. 255
  BY DEF _i64_lookup_opcode_meta, I64Opcode, IsModRM, Byte
<1>2. L1_OPCODE_META_TABLE[val]
        = CASE 8 * (val \div 8) \in AluGroups /\ form <= Len(AluRow) -> AluRow[form]
            [] 8 * (val \div 8) = MovGroup /\ form <= Len(MovRow) -> MovRow[form]
            [] val = PUSH_R64 -> PushRow
            [] OTHER -> NoDesc
  BY <1>1, Zenon DEF L1_OPCODE_META_TABLE
<1>3. form \in 1 .. 4 /\ form <= 4 /\ form <= 6 /\ Len(AluRow) = 6 /\ Len(MovRow) = 4
      /\ MovGroup \notin AluGroups
  BY <1>1 DEF IsModRM, AluRow, MovRow, MovGroup, AluGroups
<1>4. /\ AluRow[1] = Desc(<<RM(8), R(8)>>, {"MODRM", "LEGACY"}, "RM_R")
      /\ AluRow[2] = Desc(<<RM(64), R(64)>>, {"REX", "MODRM", "LEGACY"}, "RM_R")
      /\ AluRow[3] = Desc(<<R(8), RM(8)>>, {"MODRM"}, "R_RM")
      /\ AluRow[4] = Desc(<<R(64), RM(64)>>, {"REX", "MODRM"}, "R_RM")
  BY DEF AluRow
<1>5. /\ MovRow[1] = Desc(<<RM(8), R(8)>>, {"MODRM"}, "RM_R")
      /\ MovRow[2] = Desc(<<RM(64), R(64)>>, {"REX", "MODRM"}, "RM_R")
      /\ MovRow[3] = Desc(<<R(8), RM(8)>>, {"MODRM"}, "R_RM")
      /\ MovRow[4] = Desc(<<R(64), RM(64)>>, {"REX", "MODRM"}, "R_RM")
  BY DEF MovRow
<1>6. ASSUME NEW x, NEW y, NEW flags, NEW f
      PROVE  /\ Given(Desc(<<x, y>>, flags, f)) = 1 .. 2
             /\ Desc(<<x, y>>, flags, f).form = f /\ Desc(<<x, y>>, flags, f).flags = flags
  BY DEF Given, Desc
<1>7. val # PUSH_R64
  BY <1>1 DEF IsModRM, AluGroups, MovGroup, PUSH_R64
<1>8. desc = AluRow[form] \/ desc = MovRow[form]
  <2>1. CASE 8 * (val \div 8) \in AluGroups
    <3>1. 8 * (val \div 8) # MovGroup
      BY <1>3, <2>1
    <3> HIDE DEF form
    <3> QED BY <1>1, <1>2, <1>3, <1>7, <2>1, <3>1, Zenon
  <2>2. CASE 8 * (val \div 8) = MovGroup
    <3>1. 8 * (val \div 8) \notin AluGroups
      BY <1>3, <2>2
    <3> HIDE DEF form
    <3> QED BY <1>1, <1>2, <1>3, <1>7, <2>2, <3>1, Zenon
  <2> QED BY <2>1, <2>2 DEF IsModRM
<1> HIDE DEF desc, form
<1>9. ASSUME form = 1 PROVE Good(desc)
  BY <1>4, <1>5, <1>6, <1>8, <1>9
<1>10. ASSUME form = 2 PROVE Good(desc)
  BY <1>4, <1>5, <1>6, <1>8, <1>10
<1>11. ASSUME form = 3 PROVE Good(desc)
  BY <1>4, <1>5, <1>6, <1>8, <1>11
<1>12. ASSUME form = 4 PROVE Good(desc)
  BY <1>4, <1>5, <1>6, <1>8, <1>12
<1>13. Good(desc)
  BY <1>3, <1>9, <1>10, <1>11, <1>12
<1>14. form < 3 <=> val % 8 < 2
  BY <1>1 DEF form
<1>15. form \in {2, 4} <=> val % 2 = 1
  BY <1>1, <1>3 DEF form
<1> QED BY <1>13, <1>14, <1>15 DEF desc

\* The operands as the fields hold them.
LEMMA ModRMOperands ==
    ASSUME NEW val, NEW ops, NEW rm, NEW reg, HasModRM(val, ops, rm, reg)
    PROVE  /\ reg.id \in 0 .. 15 /\ rm.id \in 0 .. 15 /\ rm.index \in 0 .. 15 /\ rm.scale \in 0 .. 3
           /\ reg.type = {"REG"} /\ reg.index = 0 /\ reg.scale = 0 /\ reg.disp = <<0, 0, 0, 0>>
           /\ reg.width \in {8, 16, 32, 64} /\ (reg.width = 8 <=> val % 2 = 0)
           /\ rm.disp \in [1 .. 4 -> Byte]
           /\ ~IsMem(rm) => rm.type = {"REG"} /\ rm.width = reg.width
           /\ ~IsMem(rm) => rm.index = 0 /\ rm.scale = 0 /\ rm.disp = <<0, 0, 0, 0>>
           /\ IsMem(rm) => /\ rm.width \in {32, 64}
                           /\ ~("DISP8" \in rm.type /\ "DISP32" \in rm.type)
                           /\ "DISP8" \in rm.type => rm.disp = SignExtended(rm.disp[1])
           /\ val % 8 < 2 => ops[1] = rm /\ ops[2] = reg
           /\ ~(val % 8 < 2) => ops[1] = reg /\ ops[2] = rm
<1>1. ASSUME NEW id, NEW w
      PROVE  /\ RegOperand(id, w).type = {"REG"} /\ RegOperand(id, w).index = 0
             /\ RegOperand(id, w).scale = 0 /\ RegOperand(id, w).disp = <<0, 0, 0, 0>>
             /\ RegOperand(id, w).id = id /\ RegOperand(id, w).width = w
  BY DEF RegOperand, NoOperand
<1>2. PICK id \in 0 .. 15, w \in IF val % 2 = 0 THEN {8} ELSE {16, 32, 64} : reg = RegOperand(id, w)
  BY DEF HasModRM, IsRegister
<1>3. /\ reg.type = {"REG"} /\ reg.index = 0 /\ reg.scale = 0 /\ reg.disp = <<0, 0, 0, 0>>
      /\ reg.id \in 0 .. 15 /\ reg.width \in {8, 16, 32, 64} /\ (reg.width = 8 <=> val % 2 = 0)
  BY <1>1, <1>2
<1>4. \A op \in Operand : /\ op.id \in 0 .. 15 /\ op.index \in 0 .. 15
                          /\ op.scale \in 0 .. 3 /\ op.disp \in [1 .. 4 -> Byte]
  BY DEF Operand, Byte
<1>5. IsRegister(rm, {reg.width}) =>
        /\ rm.type = {"REG"} /\ rm.width = reg.width /\ rm.index = 0 /\ rm.scale = 0
        /\ rm.disp = <<0, 0, 0, 0>>
  BY <1>1 DEF IsRegister
<1>6. IsRegister(rm, {reg.width}) => ~IsMem(rm)
  BY <1>5 DEF IsMem
<1>7. rm \in Operand /\ (IsAddress(rm) \/ IsRegister(rm, {reg.width}))
  BY DEF HasModRM
<1>8. IsAddress(rm) => /\ IsMem(rm) /\ rm.width \in {32, 64}
                       /\ ~("DISP8" \in rm.type /\ "DISP32" \in rm.type)
                       /\ "DISP8" \in rm.type => rm.disp = SignExtended(rm.disp[1])
  BY DEF IsAddress
<1>9. (val % 8 < 2 => ops[1] = rm /\ ops[2] = reg) /\ (~(val % 8 < 2) => ops[1] = reg /\ ops[2] = rm)
  BY DEF HasModRM
<1>10. rm.id \in 0 .. 15 /\ rm.index \in 0 .. 15 /\ rm.scale \in 0 .. 3 /\ rm.disp \in [1 .. 4 -> Byte]
  BY <1>4, <1>7
<1>11. IsMem(rm) => /\ rm.width \in {32, 64}
                    /\ ~("DISP8" \in rm.type /\ "DISP32" \in rm.type)
                    /\ "DISP8" \in rm.type => rm.disp = SignExtended(rm.disp[1])
  BY <1>6, <1>7, <1>8
<1>12. ~IsMem(rm) => /\ rm.type = {"REG"} /\ rm.width = reg.width /\ rm.index = 0 /\ rm.scale = 0
                     /\ rm.disp = <<0, 0, 0, 0>>
  BY <1>5, <1>7, <1>8
<1> QED BY <1>3, <1>9, <1>10, <1>11, <1>12

\* Memory with a displacement, or with a SIB.
Mem8(op) == IsMem(op) /\ "DISP8" \in op.type
Mem32(op) == IsMem(op) /\ "DISP32" \in op.type
MemSib(op) == IsMem(op) /\ IsSib(op)

\* The summary of the operands.
IsSum(sum, val, ops, rm, reg) ==
    /\ sum.flip <=> val % 8 < 2
    /\ sum.sibAt = 1
    /\ sum.wide <=> reg.width = 64
    /\ sum.dest <=> Extended(reg.id)
    /\ sum.src <=> Extended(rm.id)
    /\ sum.mem <=> IsMem(rm)
    /\ sum.sib <=> MemSib(rm)
    /\ sum.index <=> MemSib(rm) /\ Extended(rm.id)
    /\ sum.address32 <=> IsMem(rm) /\ rm.width = 32
    /\ sum.is16 <=> reg.width = 16
    /\ sum.disp8 <=> Mem8(rm)
    /\ sum.disp32 <=> Mem32(rm)

\* What i64_sum_calc makes of the operands.
LEMMA ModRMSum ==
    ASSUME NEW val, NEW ops, NEW rm, NEW reg, HasModRM(val, ops, rm, reg)
    PROVE  IsSum(SumCalc(_i64_lookup_opcode_meta(I64Opcode(val)), ops), val, ops, rm, reg)
<1> DEFINE desc == _i64_lookup_opcode_meta(I64Opcode(val))
           flip == Flips(desc.form)
           sum == SumCalc(desc, ops)
<1>1. /\ Given(desc) = 1 .. 2
      /\ desc.form = (IF val % 8 < 2 THEN "RM_R" ELSE "R_RM")
  BY ModRMDesc DEF HasModRM
<1> HIDE DEF desc
<1>2. flip <=> val % 8 < 2
  BY <1>1 DEF Flips
<1>4. /\ ~IsMem(reg) /\ ~IsSib(reg) /\ "DISP8" \notin reg.type /\ "DISP32" \notin reg.type
      /\ IsSib(rm) <=> MemSib(rm)
      /\ "DISP8" \in rm.type <=> Mem8(rm)
      /\ "DISP32" \in rm.type <=> Mem32(rm)
      /\ rm.width = 16 => reg.width = 16
  BY ModRMOperands DEF IsMem, IsSib, MemSib, Mem8, Mem32
<1>5. /\ (\E i \in Given(desc) : IsMem(ops[i])) <=> IsMem(rm)
      /\ (\E i \in Given(desc) : IsSib(ops[i])) <=> MemSib(rm)
      /\ (\E i \in Given(desc) : IsSib(ops[i]) /\ Extended(ops[i].id)) <=> MemSib(rm) /\ Extended(rm.id)
      /\ (\E i \in Given(desc) : IsMem(ops[i]) /\ ops[i].width = 32) <=> IsMem(rm) /\ rm.width = 32
      /\ (\E i \in Given(desc) : "DISP8" \in ops[i].type) <=> Mem8(rm)
      /\ (\E i \in Given(desc) : "DISP32" \in ops[i].type) <=> Mem32(rm)
      /\ (\E i \in Given(desc) : ops[i].width = 16) <=> reg.width = 16
  <2>2. Given(desc) = {1, 2}
    BY <1>1
  <2>3. (ops[1] = rm /\ ops[2] = reg) \/ (ops[1] = reg /\ ops[2] = rm)
    BY ModRMOperands
  <2> HIDE DEF desc
  <2>4. CASE ops[1] = rm /\ ops[2] = reg
    BY <1>4, <2>2, <2>4
  <2>5. CASE ops[1] = reg /\ ops[2] = rm
    BY <1>4, <2>2, <2>5
  <2> QED BY <2>3, <2>4, <2>5
<1>6. AllWide(desc, ops) <=> reg.width = 64
  <2>1. AllWide(desc, ops) <=> (ops[1].width = 64 \/ IsMem(ops[1])) /\ (ops[2].width = 64 \/ IsMem(ops[2]))
    BY <1>1 DEF AllWide
  <2> QED BY <1>4, <2>1, ModRMOperands
<1>7. /\ (IF flip THEN ops[2] ELSE ops[1]) = reg
      /\ (IF flip THEN ops[1] ELSE ops[2]) = rm
  BY <1>2, ModRMOperands
<1>8. /\ sum.flip <=> flip
      /\ sum.sibAt = 1
      /\ sum.wide <=> AllWide(desc, ops)
      /\ sum.dest <=> Extended((IF flip THEN ops[2] ELSE ops[1]).id)
      /\ sum.src <=> Extended((IF flip THEN ops[1] ELSE ops[2]).id)
      /\ sum.mem <=> \E i \in Given(desc) : IsMem(ops[i])
      /\ sum.sib <=> \E i \in Given(desc) : IsSib(ops[i])
      /\ sum.index <=> \E i \in Given(desc) : IsSib(ops[i]) /\ Extended(ops[i].id)
      /\ sum.address32 <=> \E i \in Given(desc) : IsMem(ops[i]) /\ ops[i].width = 32
      /\ sum.is16 <=> \E i \in Given(desc) : ops[i].width = 16
      /\ sum.disp8 <=> \E i \in Given(desc) : "DISP8" \in ops[i].type
      /\ sum.disp32 <=> \E i \in Given(desc) : "DISP32" \in ops[i].type
  BY Zenon DEF SumCalc
<1> HIDE DEF sum, flip
<1> QED BY <1>2, <1>5, <1>6, <1>7, <1>8, Zenon DEF IsSum, sum, desc

\* The parts of the bytes, the operands being known.
HasLegacy(val) == "LEGACY" \in _i64_lookup_opcode_meta(I64Opcode(val)).flags

\* _i64_leg_resolve and _i64_rex_resolve.
LegOf(val, rm, reg) ==
    LET address32 == IsMem(rm) /\ rm.width = 32
        is16 == reg.width = 16
    IN  CASE HasLegacy(val) /\ address32 /\ ~is16 -> 103
          [] HasLegacy(val) /\ is16 /\ ~address32 -> 102
          [] OTHER -> 0
RexOf(val, rm, reg) ==
    IF val % 2 = 1
    THEN 8 * Bit(reg.width = 64) + 4 * Bit(Extended(IF val % 8 < 2 THEN rm.id ELSE reg.id))
         + 2 * Bit(MemSib(rm) /\ Extended(rm.id))
         + Bit(Extended(IF val % 8 < 2 THEN reg.id ELSE rm.id))
    ELSE 0

\* _i64_modrm_resolve, _i64_sib_resolve and the displacement, the last two of the
\* first operand.
ModOf(rm) == IF ~IsMem(rm) THEN 3 ELSE IF Mem8(rm) THEN 1 ELSE IF Mem32(rm) THEN 2 ELSE 0
LowOf(rm) == IF MemSib(rm) THEN 4 ELSE rm.id % 8
ModRMOf(rm, reg) == 64 * ModOf(rm) + 8 * (reg.id % 8) + LowOf(rm)
SibOf(first, rm) ==
    IF MemSib(rm) THEN 64 * first.scale + 8 * (first.index % 8) + (first.id % 8) ELSE 0
DispOf(first, rm) ==
    IF Mem32(rm) THEN first.disp ELSE IF Mem8(rm) THEN <<first.disp[1]>> ELSE <<>>

\* The bytes that i64_emit_64 makes of such a call.
LEMMA ModRMEmits ==
    ASSUME NEW val, NEW ops, NEW rm, NEW reg, HasModRM(val, ops, rm, reg)
    PROVE  Laid(i64_emit_64(I64Opcode(val), ops), LegOf(val, rm, reg),
                RexByte(RexOf(val, rm, reg)), val, ModRMOf(rm, reg), SibOf(ops[1], rm),
                DispOf(ops[1], rm))
<1> DEFINE desc == _i64_lookup_opcode_meta(I64Opcode(val))
           sum == SumCalc(desc, ops)
           With(flag, byte) == IF flag \in desc.flags THEN Present(byte) ELSE <<>>
<1>1. IsSum(sum, val, ops, rm, reg)
  BY ModRMSum
<1>2. "MODRM" \in desc.flags /\ ("REX" \in desc.flags <=> val % 2 = 1)
  BY ModRMDesc DEF HasModRM
<1>3. sum.sibAt = 1 /\ I64Opcode(val).val = val
  BY <1>1 DEF IsSum, I64Opcode
<1>4. i64_emit_64(I64Opcode(val), ops)
        = With("LEGACY", _i64_leg_resolve(sum)) \o With("REX", _i64_rex_resolve(sum))
          \o <<I64Opcode(val).val>> \o With("MODRM", _i64_modrm_resolve(ops, sum))
          \o Present(_i64_sib_resolve(ops[sum.sibAt], sum)) \o Displacement(ops[sum.sibAt], sum)
  BY Zenon DEF i64_emit_64
<1>5. HasLegacy(val) <=> "LEGACY" \in desc.flags
  BY DEF HasLegacy
<1> HIDE DEF desc, sum
<1>6. With("LEGACY", _i64_leg_resolve(sum)) = Present(LegOf(val, rm, reg))
  <2>1. Present(0) = <<>>
    BY DEF Present
  <2>2. sum.address32 <=> IsMem(rm) /\ rm.width = 32
    BY <1>1 DEF IsSum
  <2>3. sum.is16 <=> reg.width = 16
    BY <1>1 DEF IsSum
  <2>4. CASE HasLegacy(val)
    <3>1. _i64_leg_resolve(sum) = LegOf(val, rm, reg)
      BY <2>2, <2>3, <2>4 DEF LegOf, _i64_leg_resolve
    <3> QED BY <1>5, <2>4, <3>1
  <2>5. CASE ~HasLegacy(val)
    <3>1. LegOf(val, rm, reg) = 0
      BY <2>5 DEF LegOf
    <3> QED BY <1>5, <2>1, <2>5, <3>1
  <2> QED BY <2>4, <2>5
<1>7. With("REX", _i64_rex_resolve(sum)) = Present(RexByte(RexOf(val, rm, reg)))
  <2>1. Present(0) = <<>>
    BY DEF Present
  <2>2. CASE val % 2 = 1
    <3> DEFINE r == IF sum.flip THEN sum.src ELSE sum.dest
               b == IF sum.flip THEN sum.dest ELSE sum.src
               rex == 64 + 8 * Bit(sum.wide) + 4 * Bit(r) + 2 * Bit(sum.index) + Bit(b)
    <3>1. _i64_rex_resolve(sum) = IF rex = 64 THEN 0 ELSE rex
      BY Zenon DEF _i64_rex_resolve
    <3>2. /\ sum.wide <=> reg.width = 64
          /\ sum.index <=> MemSib(rm) /\ Extended(rm.id)
      BY <1>1 DEF IsSum
    <3>3. r <=> Extended(IF val % 8 < 2 THEN rm.id ELSE reg.id)
      BY <1>1 DEF IsSum
    <3>4. b <=> Extended(IF val % 8 < 2 THEN reg.id ELSE rm.id)
      BY <1>1 DEF IsSum
    <3> HIDE DEF r, b
    <3>5. /\ Bit(sum.wide) = Bit(reg.width = 64)
          /\ Bit(sum.index) = Bit(MemSib(rm) /\ Extended(rm.id))
          /\ Bit(r) = Bit(Extended(IF val % 8 < 2 THEN rm.id ELSE reg.id))
          /\ Bit(b) = Bit(Extended(IF val % 8 < 2 THEN reg.id ELSE rm.id))
      <4>1. Bit(sum.wide) = Bit(reg.width = 64)
        BY <3>2 DEF Bit
      <4>2. Bit(sum.index) = Bit(MemSib(rm) /\ Extended(rm.id))
        BY <3>2 DEF Bit
      <4>3. Bit(r) = Bit(Extended(IF val % 8 < 2 THEN rm.id ELSE reg.id))
        BY <3>3 DEF Bit
      <4>4. Bit(b) = Bit(Extended(IF val % 8 < 2 THEN reg.id ELSE rm.id))
        BY <3>4 DEF Bit
      <4> QED BY <4>1, <4>2, <4>3, <4>4
    <3>6. /\ Bit(sum.wide) \in 0 .. 1 /\ Bit(r) \in 0 .. 1 /\ Bit(sum.index) \in 0 .. 1
          /\ Bit(b) \in 0 .. 1
      BY BitIs
    <3>7. RexOf(val, rm, reg) = 8 * Bit(sum.wide) + 4 * Bit(r) + 2 * Bit(sum.index) + Bit(b)
      BY <2>2, <3>5 DEF RexOf
    <3>8. rex = 64 + RexOf(val, rm, reg) /\ (rex = 64 <=> RexOf(val, rm, reg) = 0)
      BY <3>6, <3>7
    <3> HIDE DEF rex
    <3>9. _i64_rex_resolve(sum) = RexByte(RexOf(val, rm, reg))
      BY <3>1, <3>8 DEF RexByte
    <3> QED BY <1>2, <2>2, <3>9
  <2>3. CASE ~(val % 2 = 1)
    <3>1. RexByte(RexOf(val, rm, reg)) = 0
      BY <2>3 DEF RexOf, RexByte
    <3> QED BY <1>2, <2>1, <2>3, <3>1
  <2> QED BY <2>2, <2>3
<1>8. _i64_modrm_resolve(ops, sum) = ModRMOf(rm, reg)
  <2> DEFINE m == IF sum.flip THEN ops[1].id ELSE ops[2].id
             g == IF sum.flip THEN ops[2].id ELSE ops[1].id
  <2>1. _i64_modrm_resolve(ops, sum) = 64 * Mod(sum) + 8 * (g % 8) + (IF sum.sib THEN 4 ELSE m % 8)
    BY Zenon DEF _i64_modrm_resolve
  <2>2. m = rm.id /\ g = reg.id
    BY <1>1, ModRMOperands DEF IsSum
  <2>3. Mod(sum) = ModOf(rm)
    <3>1. /\ sum.mem <=> IsMem(rm)
          /\ sum.disp8 <=> Mem8(rm)
          /\ sum.disp32 <=> Mem32(rm)
      BY <1>1 DEF IsSum
    <3>2. ~(Mem8(rm) /\ Mem32(rm))
      BY ModRMOperands DEF Mem8, Mem32
    <3> QED BY <3>1, <3>2 DEF Mod, ModOf, Mem8, Mem32
  <2>4. (IF sum.sib THEN 4 ELSE m % 8) = LowOf(rm)
    BY <1>1, <2>2 DEF IsSum, LowOf
  <2> QED BY <2>1, <2>2, <2>3, <2>4 DEF ModRMOf
<1>9. _i64_sib_resolve(ops[1], sum) = SibOf(ops[1], rm)
  BY <1>1 DEF IsSum, SibOf, _i64_sib_resolve
<1>10. Displacement(ops[1], sum) = DispOf(ops[1], rm)
  <2>1. /\ sum.disp8 <=> Mem8(rm)
        /\ sum.disp32 <=> Mem32(rm)
    BY <1>1 DEF IsSum
  <2> QED BY <2>1 DEF DispOf, Displacement
<1>11. With("MODRM", _i64_modrm_resolve(ops, sum)) = Present(ModRMOf(rm, reg))
  BY <1>2, <1>8
<1> HIDE DEF With
<1> QED BY <1>3, <1>4, <1>6, <1>7, <1>9, <1>10, <1>11, Zenon DEF Laid

\* They are bytes.
LEMMA ModRMBytes ==
    ASSUME NEW val, NEW ops, NEW rm, NEW reg, HasModRM(val, ops, rm, reg)
    PROVE  /\ LegOf(val, rm, reg) \in {0, 102, 103} /\ LegOf(val, rm, reg) \in Byte
           /\ RexOf(val, rm, reg) \in 0 .. 15 /\ RexByte(RexOf(val, rm, reg)) \in Byte
           /\ val \in Byte /\ val % 8 \in 0 .. 3
           /\ ModOf(rm) \in 0 .. 3 /\ LowOf(rm) \in 0 .. 7 /\ ModRMOf(rm, reg) \in Byte
           /\ SibOf(ops[1], rm) \in Byte
           /\ DispOf(ops[1], rm) \in Seq(Byte)
           /\ Len(DispOf(ops[1], rm)) = IF Mem32(rm) THEN 4 ELSE IF Mem8(rm) THEN 1 ELSE 0
<1>1. LegOf(val, rm, reg) \in {0, 102, 103}
  BY DEF LegOf
<1>2. RexOf(val, rm, reg) \in 0 .. 15
  <2> DEFINE w == Bit(reg.width = 64)
             r == Bit(Extended(IF val % 8 < 2 THEN rm.id ELSE reg.id))
             x == Bit(MemSib(rm) /\ Extended(rm.id))
             b == Bit(Extended(IF val % 8 < 2 THEN reg.id ELSE rm.id))
  <2>1. w \in 0 .. 1 /\ r \in 0 .. 1 /\ x \in 0 .. 1 /\ b \in 0 .. 1
    BY BitIs
  <2>2. RexOf(val, rm, reg) = IF val % 2 = 1 THEN 8 * w + 4 * r + 2 * x + b ELSE 0
    BY DEF RexOf
  <2> HIDE DEF w, r, x, b
  <2> QED BY <2>1, <2>2
<1>3. RexByte(RexOf(val, rm, reg)) \in Byte
  BY <1>2 DEF RexByte, Byte
<1>4. val \in Byte /\ val % 8 \in 0 .. 3
  BY DEF HasModRM, IsModRM, Byte
<1>5. ModOf(rm) \in 0 .. 3
  BY DEF ModOf
<1>6. LowOf(rm) \in 0 .. 7 /\ reg.id % 8 \in 0 .. 7
  BY ModRMOperands DEF LowOf
<1>7. ModRMOf(rm, reg) \in Byte
  BY <1>5, <1>6 DEF ModRMOf, Byte
<1>8. ops[1].scale \in 0 .. 3 /\ ops[1].index \in 0 .. 15 /\ ops[1].id \in 0 .. 15
      /\ ops[1].disp \in [1 .. 4 -> Byte]
  <2>1. <<0, 0, 0, 0>> \in [1 .. 4 -> Byte]
    BY DEF Byte
  <2>2. /\ rm.scale \in 0 .. 3 /\ rm.index \in 0 .. 15 /\ rm.id \in 0 .. 15 /\ rm.disp \in [1 .. 4 -> Byte]
        /\ reg.scale \in 0 .. 3 /\ reg.index \in 0 .. 15 /\ reg.id \in 0 .. 15 /\ reg.disp \in [1 .. 4 -> Byte]
    BY <2>1, ModRMOperands
  <2>3. ops[1] = rm \/ ops[1] = reg
    BY ModRMOperands
  <2> QED BY <2>2, <2>3
<1>9. SibOf(ops[1], rm) \in Byte
  BY <1>8 DEF SibOf, Byte
<1>10. ASSUME NEW f \in [1 .. 4 -> Byte]
       PROVE  f \in Seq(Byte) /\ Len(f) = 4 /\ <<f[1]>> \in Seq(Byte) /\ Len(<<f[1]>>) = 1
  <2>1. [i \in 1 .. 4 |-> f[i]] \in Seq(Byte) /\ Len([i \in 1 .. 4 |-> f[i]]) = 4
    OBVIOUS
  <2>2. f = [i \in 1 .. 4 |-> f[i]] /\ f[1] \in Byte
    OBVIOUS
  <2> QED BY <2>1, <2>2
<1>11. /\ DispOf(ops[1], rm) \in Seq(Byte)
       /\ Len(DispOf(ops[1], rm)) = IF Mem32(rm) THEN 4 ELSE IF Mem8(rm) THEN 1 ELSE 0
  <2> DEFINE f == ops[1].disp
  <2>1. /\ f \in Seq(Byte) /\ Len(f) = 4 /\ <<f[1]>> \in Seq(Byte) /\ Len(<<f[1]>>) = 1
        /\ <<>> \in Seq(Byte) /\ Len(<<>>) = 0
    BY <1>8, <1>10
  <2>2. DispOf(ops[1], rm) = IF Mem32(rm) THEN f ELSE IF Mem8(rm) THEN <<f[1]>> ELSE <<>>
    BY Zenon DEF DispOf
  <2> HIDE DEF f
  <2>3. CASE Mem32(rm)
    BY <2>1, <2>2, <2>3
  <2>4. CASE ~Mem32(rm) /\ Mem8(rm)
    <3>1. DispOf(ops[1], rm) = <<f[1]>>
      BY <2>2, <2>4, Zenon
    <3> QED BY <2>1, <2>4, <3>1
  <2>5. CASE ~Mem32(rm) /\ ~Mem8(rm)
    <3>1. DispOf(ops[1], rm) = <<>>
      BY <2>2, <2>5, Zenon
    <3> QED BY <2>1, <2>5, <3>1
  <2> QED BY <2>3, <2>4, <2>5
<1> QED BY <1>1, <1>2, <1>3, <1>4, <1>5, <1>6, <1>7, <1>9, <1>11 DEF Byte

\* Where the opcode is, the ModRM byte if there is one, and so on.
OpcodeAt(val, rm, reg) == There(LegOf(val, rm, reg)) + There(RexByte(RexOf(val, rm, reg))) + 1

\* What the prefixes say.
WidthOf(val, rm, reg) == Width(val, RexOf(val, rm, reg), LegOf(val, rm, reg))
AddressOf(val, rm, reg) == IF LegOf(val, rm, reg) = 103 THEN 32 ELSE 64
Rexed(val, rm, reg) == RexOf(val, rm, reg) # 0
-----------------------------------------------------------------------------
(* And what is read of them. *)

\* What is read of a call's bytes, in code b that begins with them.
RmRead(b, val, rm, reg) ==
    LET o == OpcodeAt(val, rm, reg)
    IN  RmField(b, o + 2, b[o + 1], RexOf(val, rm, reg), WidthOf(val, rm, reg),
                Rexed(val, rm, reg), AddressOf(val, rm, reg))
RegField(b, val, rm, reg) ==
    Register(8 * ((RexOf(val, rm, reg) \div 4) % 2) + ((b[OpcodeAt(val, rm, reg) + 1] \div 8) % 8),
             WidthOf(val, rm, reg), Rexed(val, rm, reg))

\* The bytes of a call stand at the front of code e.
StandsAt(e, val, ops, rm, reg) ==
    LET b == e \o Zeros
        w == i64_emit_64(I64Opcode(val), ops)
        o == OpcodeAt(val, rm, reg)
        s == o + There(ModRMOf(rm, reg)) + There(SibOf(ops[1], rm))
        D == DispOf(ops[1], rm)
    IN  /\ o \in 1..3 /\ Len(w) = s + Len(D) /\ Len(w) <= Len(e)
        /\ Instruction(b) = WithModRM(val, WidthOf(val, rm, reg), RmRead(b, val, rm, reg),
                                      RegField(b, val, rm, reg))
        /\ ModRMOf(rm, reg) # 0 => b[o + 1] = ModRMOf(rm, reg)
        /\ SibOf(ops[1], rm) # 0 => b[s] = SibOf(ops[1], rm)
        /\ \A k \in 1 .. Len(D) : b[s + k] = D[k]

\* Code that begins with a call's bytes has them there, and is read there.
LEMMA ModRMIsAt ==
    ASSUME NEW val, NEW ops, NEW rm, NEW reg, HasModRM(val, ops, rm, reg),
           NEW e \in Seq(Byte), Begins(e, i64_emit_64(I64Opcode(val), ops))
    PROVE  StandsAt(e, val, ops, rm, reg)
<1> DEFINE b == e \o Zeros
           w == i64_emit_64(I64Opcode(val), ops)
           leg == LegOf(val, rm, reg)
           rex == RexOf(val, rm, reg)
           modrm == ModRMOf(rm, reg)
           sib == SibOf(ops[1], rm)
           D == DispOf(ops[1], rm)
           o == OpcodeAt(val, rm, reg)
           m == o + There(modrm)
           s == m + There(sib)
<1>1. /\ leg \in {0, 102, 103} /\ leg \in Byte /\ rex \in 0 .. 15 /\ RexByte(rex) \in Byte
      /\ val \in Byte /\ modrm \in Byte /\ sib \in Byte /\ D \in Seq(Byte)
  BY ModRMBytes
<1>2. Laid(w, leg, RexByte(rex), val, modrm, sib, D)
  BY ModRMEmits
<1>3. o = There(leg) + There(RexByte(rex)) + 1
  BY DEF OpcodeAt
<1>4. There(leg) \in 0 .. 1 /\ There(RexByte(rex)) \in 0 .. 1 /\ There(modrm) \in 0 .. 1
      /\ There(sib) \in 0 .. 1 /\ (modrm # 0 => There(modrm) = 1)
      /\ (leg # 0 => There(leg) = 1) /\ (RexByte(rex) # 0 => There(RexByte(rex)) = 1)
      /\ (sib # 0 => There(sib) = 1)
  BY DEF There
<1>5. /\ w \in Seq(Byte) /\ Len(w) = s + Len(D)
      /\ leg # 0 => w[1] = leg
      /\ RexByte(rex) # 0 => w[o - 1] = RexByte(rex)
      /\ w[o] = val
      /\ modrm # 0 => w[m] = modrm
      /\ sib # 0 => w[s] = sib
      /\ \A k \in 1 .. Len(D) : w[s + k] = D[k]
  <2>1. LaidAt(w, leg, RexByte(rex), val, modrm, sib, D)
    <3> HIDE DEF w, leg, rex, modrm, sib, D
    <3> QED BY <1>1, <1>2, LaidOut, Zenon
  <2> HIDE DEF w, leg, rex, modrm, sib, D, o
  <2> QED BY <1>3, <2>1, Zenon DEF LaidAt
<1>6. /\ val \notin 64 .. 79 /\ val \notin {102, 103}
      /\ (val < 64 /\ val % 8 < 4) \/ val \in 136 .. 139
  BY DEF HasModRM, IsModRM, AluGroups, MovGroup, Byte
<1>7. Len(w) <= Len(e) /\ \A k \in 1 .. Len(w) : e[k] = w[k]
  BY DEF Begins
<1>8. \A k \in 1 .. Len(e) : b[k] = e[k]
  <2>1. Zeros \in Seq(Byte)
    BY DEF Byte, Zeros
  <2> QED BY <2>1, Appended
<1>9. Len(D) \in Nat /\ Len(e) \in Nat /\ Len(w) \in Nat
  BY <1>1, <1>5
<1> DEFINE rexed == Rexed(val, rm, reg)
<1>11. rexed \in BOOLEAN /\ (rexed <=> rex # 0)
  BY DEF Rexed
<1> HIDE DEF b, w, leg, rex, modrm, sib, D, o, rexed
<1>12. o \in 1 .. 3 /\ o <= m /\ m \in 1 .. 4 /\ s \in m .. m + 1 /\ s + Len(D) <= Len(e)
  BY <1>3, <1>4, <1>5, <1>7, <1>9
<1>10. \A k \in 1 .. s + Len(D) : b[k] = w[k]
  <2>1. \A k \in 1 .. s + Len(D) : k \in 1 .. Len(w) /\ k \in 1 .. Len(e)
    BY <1>5, <1>7, <1>9, <1>12
  <2> QED BY <1>7, <1>8, <2>1
<1> HIDE DEF m, s
<1>13. /\ o \in 1 .. s + Len(D) /\ m \in 1 .. s + Len(D) /\ s \in 1 .. s + Len(D)
       /\ \A k \in 1 .. Len(D) : s + k \in 1 .. s + Len(D)
  BY <1>9, <1>12
<1>14. /\ b[o] = val
       /\ leg # 0 => b[1] = leg
       /\ RexByte(rex) # 0 => b[o - 1] = RexByte(rex)
       /\ modrm # 0 => b[m] = modrm
       /\ sib # 0 => b[s] = sib
       /\ \A k \in 1 .. Len(D) : b[s + k] = D[k]
  <2>1. RexByte(rex) # 0 => o - 1 \in 1 .. s + Len(D)
    BY <1>3, <1>4, <1>12, <1>13
  <2>2. 1 \in 1 .. s + Len(D)
    BY <1>13
  <2> QED BY <1>5, <1>10, <1>13, <2>1, <2>2
<1>15. Instruction(b) = AfterPrefixes(b, o, val, leg, rexed, rex, Width(val, rex, leg))
  <2>1. /\ rex = 0 => Instruction(b) = AfterPrefixes(b, o, val, leg, FALSE, rex, Width(val, rex, leg))
        /\ rex # 0 => Instruction(b) = AfterPrefixes(b, o, val, leg, TRUE, rex, Width(val, rex, leg))
    <3>1. Prefixed(b, leg, rex, o, val)
      BY <1>1, <1>3, <1>6, <1>14, Zenon DEF Prefixed
    <3>2. ReadBehind(b, leg, rex, o, val)
      BY <3>1, PrefixesAreRead, Zenon
    <3> QED BY <3>2, Zenon DEF ReadBehind
  <2>2. (rex = 0 => rexed = FALSE) /\ (rex # 0 => rexed = TRUE)
    BY <1>11
  <2> QED BY <2>1, <2>2, Zenon
<1>16. Instruction(b) = WithModRM(val, Width(val, rex, leg),
                         RmField(b, o + 2, b[o + 1], rex, Width(val, rex, leg), rexed,
                                 IF leg = 103 THEN 32 ELSE 64),
                         Register(8 * ((rex \div 4) % 2) + ((b[o + 1] \div 8) % 8),
                                  Width(val, rex, leg), rexed))
  <2>1. (val < 64 /\ val % 8 < 4) \/ val \in 136 .. 139
    BY <1>6
  <2>2. ASSUME NEW wd, NEW rx
        PROVE  AfterPrefixes(b, o, val, leg, rx, rex, wd)
                 = WithModRM(val, wd, RmField(b, o + 2, b[o + 1], rex, wd, rx, IF leg = 103 THEN 32 ELSE 64),
                             Register(8 * ((rex \div 4) % 2) + ((b[o + 1] \div 8) % 8), wd, rx))
    BY <2>1, ReadsModRM
  <2> QED BY <1>15, <2>2, Zenon
<1>17. Instruction(b) = WithModRM(val, WidthOf(val, rm, reg), RmRead(b, val, rm, reg),
                                  RegField(b, val, rm, reg))
  BY <1>16, Zenon DEF WidthOf, RmRead, RegField, AddressOf, o, leg, rex, rexed
<1>18. modrm # 0 => b[o + 1] = modrm
  BY <1>4, <1>14 DEF m
<1> QED BY <1>5, <1>7, <1>12, <1>14, <1>17, <1>18, Zenon DEF StandsAt, b, w, o, m, s, D, modrm, sib

\* The bits of REX.
BitR(val, rm, reg) == (RexOf(val, rm, reg) \div 4) % 2
BitX(val, rm, reg) == (RexOf(val, rm, reg) \div 2) % 2
BitB(val, rm, reg) == RexOf(val, rm, reg) % 2

\* They are the bits of the operand that each of them is taken from.
LEMMA RexBits ==
    ASSUME NEW val, NEW rm, NEW reg
    PROVE  /\ val % 2 = 1 => /\ BitR(val, rm, reg) = Bit(Extended(IF val % 8 < 2 THEN rm.id ELSE reg.id))
                             /\ BitX(val, rm, reg) = Bit(MemSib(rm) /\ Extended(rm.id))
                             /\ BitB(val, rm, reg) = Bit(Extended(IF val % 8 < 2 THEN reg.id ELSE rm.id))
                             /\ RexOf(val, rm, reg) >= 8 <=> reg.width = 64
           /\ val % 2 # 1 => /\ BitR(val, rm, reg) = 0 /\ BitX(val, rm, reg) = 0 /\ BitB(val, rm, reg) = 0
                             /\ RexOf(val, rm, reg) = 0 /\ ~Rexed(val, rm, reg)
<1> DEFINE w == Bit(reg.width = 64)
           r == Bit(Extended(IF val % 8 < 2 THEN rm.id ELSE reg.id))
           x == Bit(MemSib(rm) /\ Extended(rm.id))
           b == Bit(Extended(IF val % 8 < 2 THEN reg.id ELSE rm.id))
           rex == RexOf(val, rm, reg)
<1>1. w \in 0 .. 1 /\ r \in 0 .. 1 /\ x \in 0 .. 1 /\ b \in 0 .. 1 /\ (w = 1 <=> reg.width = 64)
  BY BitIs
<1>2. rex = IF val % 2 = 1 THEN 8 * w + 4 * r + 2 * x + b ELSE 0
  BY DEF RexOf
<1>3. CASE val % 2 = 1
  <2> HIDE DEF w, r, x, b, rex
  <2>1. /\ rex % 2 = b /\ (rex \div 2) % 2 = x /\ (rex \div 4) % 2 = r
        /\ rex >= 8 <=> w = 1
    BY <1>1, <1>2, <1>3, RexFields
  <2> QED BY <1>1, <1>3, <2>1 DEF BitR, BitX, BitB, w, r, x, b, rex
<1>4. CASE val % 2 # 1
  <2>1. rex = 0
    BY <1>2, <1>4
  <2> QED BY <1>4, <2>1 DEF BitR, BitX, BitB, Rexed
<1> QED BY <1>3, <1>4

\* The fields of the ModRM byte.
LEMMA ModRMFields ==
    ASSUME NEW val, NEW ops, NEW rm, NEW reg, HasModRM(val, ops, rm, reg)
    PROVE  LET x == ModRMOf(rm, reg) IN
           /\ x \div 64 = ModOf(rm) /\ (x \div 8) % 8 = reg.id % 8 /\ x % 8 = LowOf(rm)
           /\ x = 0 <=> ModOf(rm) = 0 /\ reg.id % 8 = 0 /\ LowOf(rm) = 0
<1>1. ModOf(rm) \in 0 .. 3 /\ LowOf(rm) \in 0 .. 7 /\ reg.id % 8 \in 0 .. 7
  BY ModRMBytes, ModRMOperands
<1> QED BY <1>1, Fields DEF ModRMOf

\* Prefixes are there as they are needed, or one is lacking.
Lacks(val, rm, reg) ==
    LET address32 == IsMem(rm) /\ rm.width = 32
        is16 == reg.width = 16
    IN  IF HasLegacy(val) THEN address32 /\ is16 ELSE address32 \/ is16

\* The widths are read exactly if no prefix is lacking.
LEMMA WidthIsRead ==
    ASSUME NEW val, NEW ops, NEW rm, NEW reg, HasModRM(val, ops, rm, reg)
    PROVE  /\ ~Lacks(val, rm, reg)
                <=> /\ WidthOf(val, rm, reg) = reg.width
                    /\ IsMem(rm) => AddressOf(val, rm, reg) = rm.width
           /\ val % 2 # 1 => WidthOf(val, rm, reg) = 8
           /\ val % 2 = 1 => WidthOf(val, rm, reg) # 8
<1> DEFINE leg == LegOf(val, rm, reg)
           rex == RexOf(val, rm, reg)
           address32 == IsMem(rm) /\ rm.width = 32
           is16 == reg.width = 16
<1>1. /\ leg = 103 <=> HasLegacy(val) /\ address32 /\ ~is16
      /\ leg = 102 <=> HasLegacy(val) /\ is16 /\ ~address32
  BY DEF LegOf
<1>2. /\ reg.width \in {8, 16, 32, 64} /\ (reg.width = 8 <=> val % 2 = 0)
      /\ IsMem(rm) => rm.width \in {32, 64}
  BY ModRMOperands
<1>3. val % 2 \in 0 .. 1
  <2>1. val \in 0 .. 255
    BY DEF HasModRM, IsModRM, Byte
  <2> QED BY <2>1
<1>4. /\ val % 2 = 1 => (rex >= 8 <=> reg.width = 64)
      /\ rex \in 0 .. 15
  BY RexBits, ModRMBytes
<1>5. WidthOf(val, rm, reg) = Width(val, rex, leg)
  BY DEF WidthOf
<1>6. AddressOf(val, rm, reg) = IF leg = 103 THEN 32 ELSE 64
  BY DEF AddressOf
<1>7. Lacks(val, rm, reg) <=> IF HasLegacy(val) THEN address32 /\ is16 ELSE address32 \/ is16
  BY DEF Lacks
<1> HIDE DEF leg, rex
<1>8. WidthOf(val, rm, reg)
        = IF val % 2 = 0 THEN 8 ELSE IF rex >= 8 THEN 64 ELSE IF leg = 102 THEN 16 ELSE 32
  BY <1>3, <1>4, <1>5 DEF Width
<1>9. WidthOf(val, rm, reg) = reg.width <=> ~(is16 /\ (~HasLegacy(val) \/ address32))
  BY <1>1, <1>2, <1>3, <1>4, <1>8
<1>10. IsMem(rm) => (AddressOf(val, rm, reg) = rm.width <=> ~(address32 /\ (~HasLegacy(val) \/ is16)))
  BY <1>1, <1>2, <1>6
<1>11. (val % 2 # 1 => WidthOf(val, rm, reg) = 8) /\ (val % 2 = 1 => WidthOf(val, rm, reg) # 8)
  BY <1>3, <1>8
<1> QED BY <1>7, <1>9, <1>10, <1>11

\* The register in the reg field is read rightly where the extensions are.
GoodExt(val, rm, reg) ==
    IF val % 2 = 1 THEN ~(val % 8 < 2) \/ (Extended(rm.id) <=> Extended(reg.id)) ELSE reg.id < 4

\* The register in the reg field is read exactly if its extension is its own.
LEMMA RegFieldIsRead ==
    ASSUME NEW val, NEW ops, NEW rm, NEW reg, HasModRM(val, ops, rm, reg),
           NEW b, b[OpcodeAt(val, rm, reg) + 1] = ModRMOf(rm, reg)
    PROVE  RegField(b, val, rm, reg) = RegRead(reg.id) <=> GoodExt(val, rm, reg)
<1> DEFINE id == 8 * BitR(val, rm, reg) + (reg.id % 8)
           W == WidthOf(val, rm, reg)
           rexed == Rexed(val, rm, reg)
<1>1. RegField(b, val, rm, reg) = Register(id, W, rexed)
  <2>1. (ModRMOf(rm, reg) \div 8) % 8 = reg.id % 8
    BY ModRMFields
  <2> QED BY <2>1, Zenon DEF RegField, BitR
<1>2. reg.id \in 0 .. 15 /\ rm.id \in 0 .. 15
  BY ModRMOperands
<1>3. CASE val % 2 = 1
  <2>1. BitR(val, rm, reg) = Bit(Extended(IF val % 8 < 2 THEN rm.id ELSE reg.id))
    BY <1>3, RexBits
  <2>2. BitR(val, rm, reg) \in 0 .. 1
    BY <2>1, BitIs
  <2>3. id \in 0 .. 15 /\ (id = reg.id <=> BitR(val, rm, reg) = Bit(Extended(reg.id)))
    BY <1>2, <2>2, Halves
  <2>4. W # 8
    BY <1>3, WidthIsRead
  <2> HIDE DEF id, W, rexed
  <2>5. Register(id, W, rexed) = RegRead(id)
    BY <2>3, <2>4, RegisterIs
  <2>6. RegField(b, val, rm, reg) = RegRead(reg.id) <=> id = reg.id
    BY <1>1, <2>5, KindsDiffer
  <2>7. BitR(val, rm, reg) = Bit(Extended(reg.id))
          <=> ~(val % 8 < 2) \/ (Extended(rm.id) <=> Extended(reg.id))
    BY <2>1 DEF Bit
  <2> QED BY <1>3, <2>3, <2>6, <2>7 DEF GoodExt
<1>4. CASE val % 2 # 1
  <2>1. BitR(val, rm, reg) = 0 /\ ~rexed /\ W = 8
    BY <1>4, RexBits, WidthIsRead
  <2>2. id = reg.id % 8 /\ id \in 0 .. 7 /\ (reg.id < 8 => id = reg.id)
    BY <1>2, <2>1
  <2> HIDE DEF id, W, rexed
  <2>3. Register(id, W, rexed) = IF id \in 4 .. 7 THEN HighByte(id - 4) ELSE RegRead(id)
    BY <2>1, <2>2 DEF Register
  <2>4. RegField(b, val, rm, reg) = RegRead(reg.id) <=> id \notin 4 .. 7 /\ id = reg.id
    BY <1>1, <2>3, KindsDiffer
  <2>5. id \notin 4 .. 7 /\ id = reg.id <=> reg.id < 4
    BY <1>2, <2>2
  <2> QED BY <1>4, <2>4, <2>5 DEF GoodExt
<1> QED BY <1>3, <1>4

\* The bytes of a call from the ModRM byte on, none of them left out.
From(o, rm) == IF MemSib(rm) THEN o + 3 ELSE o + 2
ReadyAt(b, o, ops, rm, reg) ==
    /\ b \in Seq(Byte) /\ o \in Nat \ {0}
    /\ b[o + 1] = ModRMOf(rm, reg)
    /\ MemSib(rm) => b[o + 2] = SibOf(ops[1], rm)
    /\ IsMem(rm) /\ ~MemSib(rm) => rm.id % 8 # 4
    /\ From(o, rm) - 1 + Len(DispOf(ops[1], rm)) <= Len(b)
    /\ \A k \in 1 .. Len(DispOf(ops[1], rm)) : b[From(o, rm) - 1 + k] = DispOf(ops[1], rm)[k]

\* A register in the r/m field.
LEMMA RmRegisterIsRead ==
    ASSUME NEW val, NEW ops, NEW rm, NEW reg, HasModRM(val, ops, rm, reg), ~IsMem(rm),
           NEW b, ReadyAt(b, OpcodeAt(val, rm, reg), ops, rm, reg), GoodExt(val, rm, reg)
    PROVE  /\ RmRead(b, val, rm, reg).next = OpcodeAt(val, rm, reg) + 2
           /\ RmRead(b, val, rm, reg).operand = RegRead(rm.id) <=> val % 2 = 1 \/ rm.id < 4
<1> DEFINE o == OpcodeAt(val, rm, reg)
           id == 8 * BitB(val, rm, reg) + (rm.id % 8)
           W == WidthOf(val, rm, reg)
           rexed == Rexed(val, rm, reg)
<1>1. b[o + 1] \div 64 = 3 /\ b[o + 1] % 8 = rm.id % 8
  <2>1. ModOf(rm) = 3 /\ LowOf(rm) = rm.id % 8
    BY DEF ModOf, LowOf, MemSib
  <2> QED BY <2>1, ModRMFields DEF ReadyAt
<1>2. RmRead(b, val, rm, reg) = [operand |-> Register(id, W, rexed), next |-> o + 2]
  BY <1>1, Zenon DEF RmRead, RmField, BitB
<1>3. RmRead(b, val, rm, reg).next = o + 2 /\ RmRead(b, val, rm, reg).operand = Register(id, W, rexed)
  BY <1>2
<1>4. reg.id \in 0 .. 15 /\ rm.id \in 0 .. 15
  BY ModRMOperands
<1>5. CASE val % 2 = 1
  <2>1. BitB(val, rm, reg) = Bit(Extended(IF val % 8 < 2 THEN reg.id ELSE rm.id))
    BY <1>5, RexBits
  <2>2. BitB(val, rm, reg) = Bit(Extended(rm.id))
    BY <1>5, <2>1 DEF GoodExt, Bit
  <2>3. id = rm.id
    BY <1>4, <2>2, Halves
  <2>4. W # 8
    BY <1>5, WidthIsRead
  <2> HIDE DEF id, W, rexed, o
  <2>5. Register(id, W, rexed) = RegRead(id)
    BY <1>4, <2>3, <2>4, RegisterIs
  <2> QED BY <1>3, <1>5, <2>3, <2>5 DEF o
<1>6. CASE val % 2 # 1
  <2>1. BitB(val, rm, reg) = 0 /\ ~rexed /\ W = 8
    BY <1>6, RexBits, WidthIsRead
  <2>2. id = rm.id % 8 /\ id \in 0 .. 7 /\ (rm.id < 8 => id = rm.id)
    BY <1>4, <2>1
  <2> HIDE DEF id, W, rexed, o
  <2>3. Register(id, W, rexed) = IF id \in 4 .. 7 THEN HighByte(id - 4) ELSE RegRead(id)
    BY <2>1, <2>2 DEF Register
  <2>4. Register(id, W, rexed) = RegRead(rm.id) <=> id \notin 4 .. 7 /\ id = rm.id
    BY <2>3, KindsDiffer
  <2>5. id \notin 4 .. 7 /\ id = rm.id <=> rm.id < 4
    BY <1>4, <2>2
  <2> QED BY <1>3, <1>6, <2>4, <2>5 DEF o
<1> QED BY <1>5, <1>6

\* The displacement that is read is the one of the first operand.
LEMMA DispIsRead ==
    ASSUME NEW val, NEW ops, NEW rm, NEW reg, HasModRM(val, ops, rm, reg), IsMem(rm),
           NEW b, NEW o, ReadyAt(b, o, ops, rm, reg)
    PROVE  /\ Mem8(rm) => SignExtended(b[From(o, rm)]) = ops[1].disp
           /\ Mem32(rm) => SubSeq(b, From(o, rm), From(o, rm) + 3) = ops[1].disp
<1> DEFINE from == From(o, rm)
           D == DispOf(ops[1], rm)
           f == ops[1].disp
<1>1. f \in [1 .. 4 -> Byte] /\ (Mem8(rm) => f = SignExtended(f[1]))
  <2>1. <<0, 0, 0, 0>> \in [1 .. 4 -> Byte] /\ <<0, 0, 0, 0>> = SignExtended(<<0, 0, 0, 0>>[1])
    BY DEF Byte, SignExtended
  <2>2. /\ rm.disp \in [1 .. 4 -> Byte] /\ (Mem8(rm) => rm.disp = SignExtended(rm.disp[1]))
        /\ reg.disp = <<0, 0, 0, 0>>
        /\ ops[1] = rm \/ ops[1] = reg
    BY ModRMOperands DEF Mem8
  <2> QED BY <2>1, <2>2
<1>2. /\ b \in Seq(Byte) /\ from \in Nat \ {0} /\ from - 1 + Len(D) <= Len(b)
      /\ \A k \in 1 .. Len(D) : b[from - 1 + k] = D[k]
  BY DEF ReadyAt, From
<1>3. ASSUME Mem8(rm) PROVE SignExtended(b[from]) = f
  <2>1. ~Mem32(rm)
    BY <1>3, ModRMOperands DEF Mem8, Mem32
  <2>2. D = <<f[1]>>
    BY <1>3, <2>1 DEF DispOf
  <2> HIDE DEF D, from, f
  <2>3. Len(D) = 1 /\ D[1] = f[1] /\ from - 1 + 1 = from
    BY <1>2, <2>2
  <2>4. b[from] = f[1]
    BY <1>2, <2>3
  <2> QED BY <1>1, <1>3, <2>4
<1>4. ASSUME Mem32(rm) PROVE SubSeq(b, from, from + 3) = f
  <2>1. D = f
    BY <1>4 DEF DispOf
  <2>2. Len(D) = 4
    <3>1. f \in [1 .. 4 -> Byte] => Len(f) = 4
      OBVIOUS
    <3> QED BY <1>1, <2>1, <3>1
  <2> HIDE DEF D, from, f
  <2>3. from + 3 <= Len(b) /\ \A k \in 1 .. 4 : b[from + k - 1] = f[k]
    <3>1. \A k \in 1 .. 4 : from - 1 + k = from + k - 1
      BY <1>2
    <3>2. Len(b) \in Nat
      BY <1>2
    <3> QED BY <1>2, <2>1, <2>2, <3>1, <3>2
  <2>4. ASSUME NEW S, NEW u \in Seq(S), NEW i \in Nat \ {0}, i + 3 <= Len(u)
        PROVE  SubSeq(u, i, i + 3) = [k \in 1 .. 4 |-> u[i + k - 1]]
    <3> DEFINE v == SubSeq(u, i, i + 3)
    <3>1. v \in Seq(S) /\ Len(v) = 4 /\ \A k \in 1 .. 4 : v[k] = u[i + k - 1]
      BY <2>4
    <3> HIDE DEF v
    <3>2. v = [k \in 1 .. 4 |-> v[k]]
      BY <3>1
    <3>3. v = [k \in 1 .. 4 |-> u[i + k - 1]]
      BY <3>1, <3>2
    <3> QED BY <3>3 DEF v
  <2>5. SubSeq(b, from, from + 3) = [k \in 1 .. 4 |-> b[from + k - 1]]
    BY <1>2, <2>3, <2>4
  <2>6. f = [k \in 1 .. 4 |-> f[k]]
    BY <1>1
  <2> QED BY <2>3, <2>5, <2>6
<1> QED BY <1>3, <1>4

\* What a SIB byte holds.
SibFields(op) == <<op.scale, op.index % 8, op.id % 8>>

\* The SIB or displacement of the second operand is not the one of the first.
Taken(val, rm, reg) ==
    /\ ~(val % 8 < 2)
    /\ \/ MemSib(rm) /\ SibFields(reg) # SibFields(rm)
       \/ Displaced(rm) /\ reg.disp # rm.disp

\* Without REX there are no upper registers.
NeedsRexInMemory(val, rm) ==
    val % 2 # 1 /\ (Extended(rm.id) \/ (MemSib(rm) /\ Extended(rm.index)))

\* Memory in the r/m field.
LEMMA RmMemoryIsRead ==
    ASSUME NEW val, NEW ops, NEW rm, NEW reg, HasModRM(val, ops, rm, reg), IsMem(rm),
           NEW b, ReadyAt(b, OpcodeAt(val, rm, reg), ops, rm, reg), GoodExt(val, rm, reg),
           AddressOf(val, rm, reg) = rm.width
    PROVE  /\ RmRead(b, val, rm, reg).operand = OperandRead(rm)
                <=> /\ ~NeedsRexInMemory(val, rm)
                    /\ ~Taken(val, rm, reg)
                    /\ ~NoSuchAddress(rm)
           /\ ~Taken(val, rm, reg) /\ ~NoSuchAddress(rm)
                => RmRead(b, val, rm, reg).next
                     = From(OpcodeAt(val, rm, reg), rm) + Len(DispOf(ops[1], rm))
<1> DEFINE o == OpcodeAt(val, rm, reg)
           at == o + 2
           mod == ModOf(rm)
           low == LowOf(rm)
           X == BitX(val, rm, reg)
           B == BitB(val, rm, reg)
           f == ops[1]
           bits == IF MemSib(rm) THEN f.id % 8 ELSE rm.id % 8
           based == Displaced(rm) \/ bits # 5
           mem == Memory(b, at, mod, low, X, B, rm.width)
<1>1. /\ o \in Nat \ {0} /\ b[o + 1] = ModRMOf(rm, reg)
      /\ MemSib(rm) => b[at] = SibOf(f, rm)
      /\ ~MemSib(rm) => rm.id % 8 # 4
  BY DEF ReadyAt
<1>2. /\ rm.id \in 0 .. 15 /\ rm.index \in 0 .. 15 /\ rm.scale \in 0 .. 3
      /\ f.id \in 0 .. 15 /\ f.index \in 0 .. 15 /\ f.scale \in 0 .. 3
      /\ IF val % 8 < 2 THEN f = rm ELSE f = reg
      /\ ~("DISP8" \in rm.type /\ "DISP32" \in rm.type)
  BY ModRMOperands
<1>3. /\ mod \in 0 .. 2 /\ low \in 0 .. 7
      /\ mod = 0 <=> ~Displaced(rm)
      /\ mod = 1 <=> Mem8(rm)
      /\ mod = 2 <=> Mem32(rm)
      /\ low = 4 <=> MemSib(rm)
      /\ ~MemSib(rm) => low = rm.id % 8
  <2>1. Displaced(rm) <=> Mem8(rm) \/ Mem32(rm)
    BY DEF Displaced, Mem8, Mem32
  <2>2. ~(Mem8(rm) /\ Mem32(rm))
    BY <1>2 DEF Mem8, Mem32
  <2> QED BY <1>1, <1>2, <2>1, <2>2 DEF ModOf, LowOf
<1>4. RmRead(b, val, rm, reg) = mem
  <2>1. b[o + 1] \div 64 = mod /\ b[o + 1] % 8 = low /\ mod # 3
    BY <1>1, <1>3, ModRMFields
  <2>2. (RexOf(val, rm, reg) \div 2) % 2 = X /\ RexOf(val, rm, reg) % 2 = B
    BY DEF BitX, BitB
  <2> HIDE DEF o, mod, low, X, B
  <2>3. RmRead(b, val, rm, reg)
          = RmField(b, o + 2, b[o + 1], RexOf(val, rm, reg), WidthOf(val, rm, reg),
                    Rexed(val, rm, reg), rm.width)
    BY Zenon DEF RmRead, o
  <2> QED BY <2>1, <2>2, <2>3, Zenon DEF RmField
<1>5. at \in Nat
  BY <1>1
<1>6. MemSib(rm) => b[at] \div 64 = f.scale /\ (b[at] \div 8) % 8 = f.index % 8 /\ b[at] % 8 = f.id % 8
  <2>1. f.index % 8 \in 0 .. 7 /\ f.id % 8 \in 0 .. 7
    BY <1>2
  <2>2. MemSib(rm) => b[at] = 64 * f.scale + 8 * (f.index % 8) + (f.id % 8)
    BY <1>1 DEF SibOf
  <2> HIDE DEF f, at
  <2> QED BY <1>2, <2>1, <2>2, Fields
<1>7. bits \in 0 .. 7 /\ BaseBits(b, at, low) = bits
  BY <1>2, <1>3, <1>6 DEF BaseBits
<1>8. Based(b, at, mod, low) <=> based
  BY <1>3, <1>7 DEF Based
<1>9. /\ B \in 0 .. 1 /\ X \in 0 .. 1
      /\ val % 2 = 1 => B = Bit(Extended(rm.id)) /\ X = Bit(MemSib(rm) /\ Extended(rm.id))
      /\ val % 2 # 1 => B = 0 /\ X = 0
  <2>1. CASE val % 2 = 1
    <3>1. /\ B = Bit(Extended(IF val % 8 < 2 THEN reg.id ELSE rm.id))
          /\ X = Bit(MemSib(rm) /\ Extended(rm.id))
      BY <2>1, RexBits
    <3>2. B = Bit(Extended(rm.id))
      BY <2>1, <3>1 DEF GoodExt, Bit
    <3> HIDE DEF B, X
    <3> QED BY <2>1, <3>1, <3>2, BitIs
  <2>2. CASE val % 2 # 1
    <3>1. B = 0 /\ X = 0
      BY <2>2, RexBits
    <3> QED BY <2>2, <3>1
  <2> QED BY <2>1, <2>2
<1>10. DispFrom(at, low) = From(o, rm)
  BY <1>1, <1>3 DEF DispFrom, From
<1>11. /\ Displaced(rm) => DispRead(b, at, mod, low) = f.disp
       /\ ~Displaced(rm) /\ based => DispRead(b, at, mod, low) = <<0, 0, 0, 0>>
  <2>1. /\ Mem8(rm) => SignExtended(b[From(o, rm)]) = f.disp
        /\ Mem32(rm) => SubSeq(b, From(o, rm), From(o, rm) + 3) = f.disp
    BY DispIsRead
  <2>2. DispRead(b, at, mod, low)
          = IF mod = 1 THEN SignExtended(b[From(o, rm)])
            ELSE IF mod = 2 \/ ~Based(b, at, mod, low)
                 THEN SubSeq(b, From(o, rm), From(o, rm) + 3) ELSE <<0, 0, 0, 0>>
    BY <1>10, Zenon DEF DispRead
  <2>3. Displaced(rm) => Mem8(rm) \/ Mem32(rm)
    BY DEF Displaced, Mem8, Mem32
  <2>4. /\ Mem8(rm) => mod = 1
        /\ Mem32(rm) => mod # 1 /\ mod = 2
        /\ ~Displaced(rm) => mod # 1 /\ mod # 2
    BY <1>3, <2>3
  <2>5. based => Based(b, at, mod, low)
    BY <1>8
  <2> HIDE DEF mod, low, f, based, at
  <2>6. ASSUME Mem8(rm) PROVE DispRead(b, at, mod, low) = f.disp
    BY <2>1, <2>2, <2>4, <2>6, Zenon DEF f
  <2>7. ASSUME Mem32(rm) PROVE DispRead(b, at, mod, low) = f.disp
    BY <2>1, <2>2, <2>4, <2>7, Zenon DEF f
  <2>8. ASSUME ~Displaced(rm), based PROVE DispRead(b, at, mod, low) = <<0, 0, 0, 0>>
    BY <2>2, <2>4, <2>5, <2>8, Zenon
  <2> QED BY <2>3, <2>6, <2>7, <2>8, Zenon
<1>12. DispSize(b, at, mod, low) = IF mod = 1 THEN 1 ELSE IF mod = 2 \/ ~based THEN 4 ELSE 0
  BY <1>8 DEF DispSize
<1> DEFINE indexed == Indexed(b, at, low, X)
           index == IndexBits(b, at, X)
           base == BaseRead(b, at, mod, low, B)
           disp == DispRead(b, at, mod, low)
<1>13. /\ mem.operand = MemRead(base, IF indexed THEN index ELSE -1, IF indexed THEN b[at] \div 64 ELSE 0,
                                disp, rm.width)
       /\ mem.next = DispFrom(at, low) + DispSize(b, at, mod, low)
  <2> HIDE DEF o, at, mod, low, X, B, f, bits, based
  <2>1. mem = [operand |-> MemRead(base, IF indexed THEN index ELSE -1,
                                   IF indexed THEN b[at] \div 64 ELSE 0, disp, rm.width),
               next |-> DispFrom(at, low) + DispSize(b, at, mod, low)]
    BY <1>3, <1>5, MemoryIs
  <2> HIDE DEF mem
  <2> QED BY <2>1
<1>14. OperandRead(rm) = MemRead(rm.id, IF MemSib(rm) THEN rm.index ELSE -1,
                                 IF MemSib(rm) THEN rm.scale ELSE 0,
                                 IF Displaced(rm) THEN rm.disp ELSE <<0, 0, 0, 0>>, rm.width)
  <2>1. MemSib(rm) <=> IsSib(rm)
    BY DEF MemSib
  <2>2. Displaced(rm) <=> ~(rm.type \cap {"DISP8", "DISP32"} = {})
    BY DEF Displaced
  <2> QED BY <2>1, <2>2 DEF OperandRead
<1>15. base = rm.id <=> based /\ bits = rm.id % 8 /\ (val % 2 # 1 => ~Extended(rm.id))
  <2>1. base = IF based THEN 8 * B + bits ELSE IF low = 4 THEN -1 ELSE -2
    BY <1>7, <1>8 DEF BaseRead
  <2>2. base = rm.id <=> based /\ 8 * B + bits = rm.id
    <3> HIDE DEF base, based, bits, B, low
    <3> QED BY <1>2, <2>1
  <2>3. 8 * B + bits = rm.id <=> bits = rm.id % 8 /\ B = Bit(Extended(rm.id))
    <3> HIDE DEF bits, B
    <3>2. (8 * B + bits) % 8 = bits
      BY <1>7, <1>9, LowBits
    <3>1. 8 * B + bits = rm.id => bits = rm.id % 8
      BY <3>2
    <3> QED BY <1>2, <1>9, <3>1, Halves
  <2>4. B = Bit(Extended(rm.id)) <=> (val % 2 # 1 => ~Extended(rm.id))
    <3> HIDE DEF B
    <3> QED BY <1>9, BitIs
  <2> QED BY <2>2, <2>3, <2>4
<1>16. MemSib(rm) =>
         ((IF indexed THEN index ELSE -1) = rm.index /\ (IF indexed THEN b[at] \div 64 ELSE 0) = rm.scale
           <=> /\ f.index % 8 = rm.index % 8 /\ f.scale = rm.scale /\ rm.index # 4
               /\ val % 2 = 1 => (Extended(rm.id) <=> Extended(rm.index))
               /\ val % 2 # 1 => ~Extended(rm.index))
  <2> SUFFICES ASSUME MemSib(rm)
               PROVE  (IF indexed THEN index ELSE -1) = rm.index
                        /\ (IF indexed THEN b[at] \div 64 ELSE 0) = rm.scale
                      <=> /\ f.index % 8 = rm.index % 8 /\ f.scale = rm.scale /\ rm.index # 4
                          /\ val % 2 = 1 => (Extended(rm.id) <=> Extended(rm.index))
                          /\ val % 2 # 1 => ~Extended(rm.index)
    OBVIOUS
  <2>1. index = 8 * X + (f.index % 8) /\ (indexed <=> index # 4) /\ b[at] \div 64 = f.scale
    BY <1>3, <1>6 DEF IndexBits, Indexed
  <2>2. index = rm.index <=> f.index % 8 = rm.index % 8 /\ X = Bit(Extended(rm.index))
    <3>1. f.index % 8 \in 0 .. 7
      BY <1>2
    <3> HIDE DEF index, X, f
    <3>3. (8 * X + (f.index % 8)) % 8 = f.index % 8
      BY <1>9, <3>1, LowBits
    <3>2. index = rm.index => f.index % 8 = rm.index % 8
      BY <2>1, <3>3
    <3> QED BY <1>2, <1>9, <2>1, <3>2, Halves
  <2>3. X = Bit(Extended(rm.index)) <=> /\ val % 2 = 1 => (Extended(rm.id) <=> Extended(rm.index))
                                        /\ val % 2 # 1 => ~Extended(rm.index)
    <3>4. Bit(MemSib(rm) /\ Extended(rm.id)) = Bit(Extended(rm.id))
      BY DEF Bit
    <3>1. val % 2 = 1 => X = Bit(Extended(rm.id))
      BY <1>9, <3>4
    <3>2. Bit(Extended(rm.id)) = Bit(Extended(rm.index)) <=> (Extended(rm.id) <=> Extended(rm.index))
      BY DEF Bit
    <3>3. 0 = Bit(Extended(rm.index)) <=> ~Extended(rm.index)
      BY DEF Bit
    <3> HIDE DEF X
    <3> QED BY <1>9, <3>1, <3>2, <3>3
  <2>4. (IF indexed THEN index ELSE -1) = rm.index /\ (IF indexed THEN b[at] \div 64 ELSE 0) = rm.scale
          <=> index # 4 /\ index = rm.index /\ f.scale = rm.scale
    <3> HIDE DEF index, indexed, at, f
    <3> QED BY <1>2, <2>1
  <2> HIDE DEF index, indexed, X, at, f
  <2> QED BY <2>2, <2>3, <2>4
<1>17. ~MemSib(rm) => (IF indexed THEN index ELSE -1) = -1 /\ (IF indexed THEN b[at] \div 64 ELSE 0) = 0
  BY <1>3 DEF Indexed
<1>18. Taken(val, rm, reg) <=> \/ MemSib(rm) /\ ~ /\ f.scale = rm.scale /\ f.index % 8 = rm.index % 8
                                                  /\ f.id % 8 = rm.id % 8
                               \/ Displaced(rm) /\ f.disp # rm.disp
  BY <1>2 DEF Taken, SibFields
<1>19. NoSuchAddress(rm) <=> \/ ~Displaced(rm) /\ rm.id % 8 = 5
                             \/ MemSib(rm) /\ (~(Extended(rm.id) <=> Extended(rm.index)) \/ rm.index = 4)
  BY <1>1 DEF NoSuchAddress, MemSib, Extended
<1>20. mem.operand = OperandRead(rm)
         <=> /\ base = rm.id
             /\ (IF indexed THEN index ELSE -1) = (IF MemSib(rm) THEN rm.index ELSE -1)
             /\ (IF indexed THEN b[at] \div 64 ELSE 0) = (IF MemSib(rm) THEN rm.scale ELSE 0)
             /\ disp = (IF Displaced(rm) THEN rm.disp ELSE <<0, 0, 0, 0>>)
  <2> HIDE DEF base, indexed, index, disp, mem, at
  <2> QED BY <1>13, <1>14, MemReadIs
<1>21. bits = IF MemSib(rm) THEN f.id % 8 ELSE rm.id % 8
  OBVIOUS
<1>22. based <=> Displaced(rm) \/ bits # 5
  OBVIOUS
<1>23. mem.operand = OperandRead(rm)
         <=> ~NeedsRexInMemory(val, rm) /\ ~Taken(val, rm, reg) /\ ~NoSuchAddress(rm)
  <2> DEFINE same == (IF indexed THEN index ELSE -1) = (IF MemSib(rm) THEN rm.index ELSE -1)
                     /\ (IF indexed THEN b[at] \div 64 ELSE 0) = (IF MemSib(rm) THEN rm.scale ELSE 0)
             fits == /\ f.index % 8 = rm.index % 8 /\ f.scale = rm.scale /\ rm.index # 4
                     /\ val % 2 = 1 => (Extended(rm.id) <=> Extended(rm.index))
                     /\ val % 2 # 1 => ~Extended(rm.index)
             shown == disp = (IF Displaced(rm) THEN rm.disp ELSE <<0, 0, 0, 0>>)
  <2>1. same <=> (MemSib(rm) => fits)
    <3> HIDE DEF indexed, index, at, f
    <3> QED BY <1>16, <1>17
  <2>2. based => (shown <=> (Displaced(rm) => f.disp = rm.disp))
    <3>1. /\ Displaced(rm) => disp = f.disp
          /\ ~Displaced(rm) /\ based => disp = <<0, 0, 0, 0>>
      BY <1>11
    <3> HIDE DEF disp, based, f
    <3> QED BY <3>1
  <2> HIDE DEF same, shown, based, bits, disp, base, index, indexed, mem, at, f
  <2>3. mem.operand = OperandRead(rm) <=> base = rm.id /\ same /\ shown
    BY <1>20 DEF same, shown
  <2>4. NeedsRexInMemory(val, rm) <=> val % 2 # 1 /\ (Extended(rm.id) \/ (MemSib(rm) /\ Extended(rm.index)))
    BY DEF NeedsRexInMemory
  <2>5. based /\ bits = rm.id % 8
          <=> /\ ~(~Displaced(rm) /\ rm.id % 8 = 5)
              /\ MemSib(rm) => f.id % 8 = rm.id % 8
    BY <1>21, <1>22
  <2>6. CASE MemSib(rm)
    <3>1. ASSUME base = rm.id, fits, shown
          PROVE  ~NeedsRexInMemory(val, rm) /\ ~Taken(val, rm, reg) /\ ~NoSuchAddress(rm)
      BY <1>15, <1>18, <1>19, <2>2, <2>4, <2>5, <2>6, <3>1
    <3>2. ASSUME ~NeedsRexInMemory(val, rm), ~Taken(val, rm, reg), ~NoSuchAddress(rm)
          PROVE  base = rm.id /\ fits /\ shown
      BY <1>15, <1>18, <1>19, <2>2, <2>4, <2>5, <2>6, <3>2
    <3> QED BY <2>1, <2>3, <2>6, <3>1, <3>2
  <2>7. CASE ~MemSib(rm)
    <3>1. ASSUME base = rm.id, shown
          PROVE  ~NeedsRexInMemory(val, rm) /\ ~Taken(val, rm, reg) /\ ~NoSuchAddress(rm)
      BY <1>15, <1>18, <1>19, <2>2, <2>4, <2>5, <2>7, <3>1
    <3>2. ASSUME ~NeedsRexInMemory(val, rm), ~Taken(val, rm, reg), ~NoSuchAddress(rm)
          PROVE  base = rm.id /\ shown
      <4>1. based /\ bits = rm.id % 8
        BY <1>19, <2>5, <2>7, <3>2
      <4>2. val % 2 # 1 => ~Extended(rm.id)
        BY <3>2, Zenon DEF NeedsRexInMemory
      <4>3. Displaced(rm) => f.disp = rm.disp
        BY <1>18, <3>2
      <4> QED BY <1>15, <2>2, <4>1, <4>2, <4>3, Zenon
    <3> QED BY <2>1, <2>3, <2>7, <3>1, <3>2
  <2> QED BY <2>6, <2>7
<1>24. ASSUME ~Taken(val, rm, reg), ~NoSuchAddress(rm)
       PROVE  mem.next = From(o, rm) + Len(DispOf(ops[1], rm))
  <2>1. based
    <3> HIDE DEF based, bits, f
    <3> QED BY <1>18, <1>19, <1>21, <1>22, <1>24
  <2>2. Len(DispOf(ops[1], rm)) = IF Mem32(rm) THEN 4 ELSE IF Mem8(rm) THEN 1 ELSE 0
    BY ModRMBytes
  <2>3. mod = IF Mem8(rm) THEN 1 ELSE IF Mem32(rm) THEN 2 ELSE 0
    BY <1>3
  <2>4. ~(Mem8(rm) /\ Mem32(rm))
    BY <1>2 DEF Mem8, Mem32
  <2>5. DispSize(b, at, mod, low) = Len(DispOf(ops[1], rm))
    <3> HIDE DEF mod, based, at, low
    <3> QED BY <1>12, <2>1, <2>2, <2>3, <2>4
  <2> QED BY <1>10, <1>13, <2>5
<1> HIDE DEF mem, o
<1> QED BY <1>4, <1>23, <1>24 DEF o
-----------------------------------------------------------------------------
(* The known causes are all there are, and each is one. *)

\* The known causes, apart from a byte that is left out.
Misread(val, rm, reg) ==
    \/ ~GoodExt(val, rm, reg)
    \/ Lacks(val, rm, reg)
    \/ ~IsMem(rm) /\ ~(val % 2 = 1 \/ rm.id < 4)
    \/ IsMem(rm) /\ (NeedsRexInMemory(val, rm) \/ Taken(val, rm, reg) \/ NoSuchAddress(rm))

\* No byte is left out that the ModRM byte promises.
Clear(ops, rm, reg) ==
    /\ ModRMOf(rm, reg) # 0
    /\ MemSib(rm) => SibOf(ops[1], rm) # 0
    /\ IsMem(rm) /\ ~MemSib(rm) => rm.id % 8 # 4

\* The operands and the width as they were asked for.
ReadRightly(b, val, rm, reg) ==
    /\ WidthOf(val, rm, reg) = reg.width
    /\ RegField(b, val, rm, reg) = RegRead(reg.id)
    /\ RmRead(b, val, rm, reg).operand = OperandRead(rm)

\* Memory at an address of the other width is another one.
LEMMA RmAddressIsRead ==
    ASSUME NEW val, NEW ops, NEW rm, NEW reg, HasModRM(val, ops, rm, reg), IsMem(rm),
           NEW b, ReadyAt(b, OpcodeAt(val, rm, reg), ops, rm, reg),
           RmRead(b, val, rm, reg).operand = OperandRead(rm)
    PROVE  AddressOf(val, rm, reg) = rm.width
<1> DEFINE o == OpcodeAt(val, rm, reg)
           mod == ModOf(rm)
           low == LowOf(rm)
           X == BitX(val, rm, reg)
           B == BitB(val, rm, reg)
           A == AddressOf(val, rm, reg)
<1>1. b[o + 1] \div 64 = mod /\ b[o + 1] % 8 = low
  BY ModRMFields DEF ReadyAt
<1>2. mod \in 0 .. 2 /\ low \in 0 .. 7 /\ o + 2 \in Nat
  <2>1. mod \in 0 .. 2
    BY DEF ModOf
  <2>2. low \in 0 .. 7 /\ o \in Nat
    BY ModRMBytes DEF ReadyAt
  <2> QED BY <2>1, <2>2
<1>3. RmRead(b, val, rm, reg) = Memory(b, o + 2, mod, low, X, B, A)
  <2>1. (RexOf(val, rm, reg) \div 2) % 2 = X /\ RexOf(val, rm, reg) % 2 = B
    BY DEF BitX, BitB
  <2>2. mod # 3
    BY <1>2
  <2> HIDE DEF o, mod, low, X, B, A
  <2>3. RmRead(b, val, rm, reg)
          = RmField(b, o + 2, b[o + 1], RexOf(val, rm, reg), WidthOf(val, rm, reg),
                    Rexed(val, rm, reg), A)
    BY Zenon DEF RmRead, o, A
  <2> QED BY <1>1, <2>1, <2>2, <2>3, Zenon DEF RmField
<1> HIDE DEF o, mod, low, X, B, A
<1> DEFINE at == o + 2
           indexed == Indexed(b, at, low, X)
           mem == Memory(b, at, mod, low, X, B, A)
           base == BaseRead(b, at, mod, low, B)
           index == IF indexed THEN IndexBits(b, at, X) ELSE -1
           scale == IF indexed THEN b[at] \div 64 ELSE 0
           disp == DispRead(b, at, mod, low)
<1>4. mem = [operand |-> MemRead(base, index, scale, disp, A),
             next |-> DispFrom(at, low) + DispSize(b, at, mod, low)]
  <2> HIDE DEF at
  <2> QED BY <1>2, MemoryIs DEF at
<1> HIDE DEF at, mem, base, index, scale, disp
<1>5. mem.operand = MemRead(base, index, scale, disp, A)
  BY <1>4
<1>6. OperandRead(rm) = MemRead(rm.id, IF IsSib(rm) THEN rm.index ELSE -1, IF IsSib(rm) THEN rm.scale ELSE 0,
                 IF rm.type \cap {"DISP8", "DISP32"} = {} THEN <<0, 0, 0, 0>> ELSE rm.disp, rm.width)
  BY Zenon DEF OperandRead
<1>7. A = rm.width
  <2>1. mem.operand = OperandRead(rm)
    BY <1>3, Zenon DEF mem, at
  <2>2. mem.operand.address = A
    BY <1>5 DEF MemRead
  <2>3. OperandRead(rm).address = rm.width
    BY <1>6 DEF MemRead
  <2> QED BY <2>1, <2>2, <2>3
<1> QED BY <1>7 DEF A

\* What is read of the bytes, none of them left out.
LEMMA ReadyIsRead ==
    ASSUME NEW val, NEW ops, NEW rm, NEW reg, HasModRM(val, ops, rm, reg),
           NEW b, ReadyAt(b, OpcodeAt(val, rm, reg), ops, rm, reg)
    PROVE  /\ ReadRightly(b, val, rm, reg) <=> ~Misread(val, rm, reg)
           /\ ~Misread(val, rm, reg)
                => RmRead(b, val, rm, reg).next
                     = From(OpcodeAt(val, rm, reg), rm) + Len(DispOf(ops[1], rm))
<1> DEFINE o == OpcodeAt(val, rm, reg)
           next0 == RmRead(b, val, rm, reg).next
<1>1. RegField(b, val, rm, reg) = RegRead(reg.id) <=> GoodExt(val, rm, reg)
  BY RegFieldIsRead DEF ReadyAt
<1>2. ~Lacks(val, rm, reg)
        <=> /\ WidthOf(val, rm, reg) = reg.width
            /\ IsMem(rm) => AddressOf(val, rm, reg) = rm.width
  BY WidthIsRead
<1>3. CASE ~IsMem(rm)
  <2>1. OperandRead(rm) = RegRead(rm.id)
    BY <1>3 DEF OperandRead
  <2>2. GoodExt(val, rm, reg) =>
          /\ next0 = o + 2
          /\ RmRead(b, val, rm, reg).operand = RegRead(rm.id) <=> val % 2 = 1 \/ rm.id < 4
    BY <1>3, RmRegisterIsRead
  <2>3. From(o, rm) + Len(DispOf(ops[1], rm)) = o + 2
    <3>1. DispOf(ops[1], rm) = <<>> /\ From(o, rm) = o + 2
      BY <1>3 DEF DispOf, Mem8, Mem32, From, MemSib
    <3>2. o \in Nat
      BY DEF ReadyAt
    <3> QED BY <3>1, <3>2
  <2>4. Misread(val, rm, reg)
          <=> ~GoodExt(val, rm, reg) \/ Lacks(val, rm, reg) \/ ~(val % 2 = 1 \/ rm.id < 4)
    BY <1>3 DEF Misread
  <2>5. ReadRightly(b, val, rm, reg)
          <=> /\ WidthOf(val, rm, reg) = reg.width
              /\ RegField(b, val, rm, reg) = RegRead(reg.id)
              /\ RmRead(b, val, rm, reg).operand = RegRead(rm.id)
    BY <2>1, Zenon DEF ReadRightly
  <2> HIDE DEF o, next0
  <2> QED BY <1>1, <1>2, <1>3, <2>2, <2>3, <2>4, <2>5, Zenon DEF o, next0
<1>4. CASE IsMem(rm)
  <2>1. GoodExt(val, rm, reg) /\ AddressOf(val, rm, reg) = rm.width =>
          /\ RmRead(b, val, rm, reg).operand = OperandRead(rm)
                <=> /\ ~NeedsRexInMemory(val, rm)
                    /\ ~Taken(val, rm, reg)
                    /\ ~NoSuchAddress(rm)
          /\ ~Taken(val, rm, reg) /\ ~NoSuchAddress(rm)
                => next0 = From(o, rm) + Len(DispOf(ops[1], rm))
    BY <1>4, RmMemoryIsRead
  <2>2. RmRead(b, val, rm, reg).operand = OperandRead(rm) => AddressOf(val, rm, reg) = rm.width
    BY <1>4, RmAddressIsRead
  <2>3. ASSUME ReadRightly(b, val, rm, reg) PROVE ~Misread(val, rm, reg)
    <3>1. GoodExt(val, rm, reg) /\ AddressOf(val, rm, reg) = rm.width /\ ~Lacks(val, rm, reg)
      BY <1>1, <1>2, <2>2, <2>3, Zenon DEF ReadRightly
    <3>2. ~NeedsRexInMemory(val, rm) /\ ~Taken(val, rm, reg) /\ ~NoSuchAddress(rm)
      BY <2>1, <2>3, <3>1, Zenon DEF ReadRightly
    <3> QED BY <1>4, <3>1, <3>2, Zenon DEF Misread
  <2>4. ASSUME ~Misread(val, rm, reg)
        PROVE  ReadRightly(b, val, rm, reg) /\ next0 = From(o, rm) + Len(DispOf(ops[1], rm))
    <3>1. /\ GoodExt(val, rm, reg) /\ ~Lacks(val, rm, reg)
          /\ ~NeedsRexInMemory(val, rm) /\ ~Taken(val, rm, reg) /\ ~NoSuchAddress(rm)
      BY <1>4, <2>4, Zenon DEF Misread
    <3>2. WidthOf(val, rm, reg) = reg.width /\ AddressOf(val, rm, reg) = rm.width
      BY <1>2, <1>4, <3>1
    <3> HIDE DEF o, next0
    <3> QED BY <1>1, <2>1, <3>1, <3>2, Zenon DEF ReadRightly, o, next0
  <2> QED BY <2>3, <2>4
<1> QED BY <1>3, <1>4

\* A byte is left out only by LosesByte, or behind a cause that is one without
\* it.
LEMMA NothingLost ==
    ASSUME NEW val, NEW ops, NEW rm, NEW reg, HasModRM(val, ops, rm, reg)
    PROVE  /\ ~Misread(val, rm, reg) /\ ~(IsMem(rm) /\ LosesByte(rm, reg)) => Clear(ops, rm, reg)
           /\ Clear(ops, rm, reg) /\ IsMem(rm) /\ LosesByte(rm, reg) => Misread(val, rm, reg)
<1>1. ModRMOf(rm, reg) = 0 <=> ModOf(rm) = 0 /\ reg.id % 8 = 0 /\ LowOf(rm) = 0
  BY ModRMFields
<1>2. ModOf(rm) = 0 <=> IsMem(rm) /\ ~Displaced(rm)
  BY ModRMOperands DEF ModOf, Mem8, Mem32, Displaced
<1>3. LowOf(rm) = 0 <=> ~MemSib(rm) /\ rm.id % 8 = 0
  BY DEF LowOf
<1>4. MemSib(rm) => (SibOf(ops[1], rm) = 0 <=> SibFields(ops[1]) = <<0, 0, 0>>)
  <2>1. ops[1].scale \in 0 .. 3 /\ ops[1].index \in 0 .. 15 /\ ops[1].id \in 0 .. 15
    BY ModRMOperands
  <2>2. ops[1].index % 8 \in 0 .. 7 /\ ops[1].id % 8 \in 0 .. 7
    BY <2>1
  <2>3. MemSib(rm) => SibOf(ops[1], rm) = 64 * ops[1].scale + 8 * (ops[1].index % 8) + (ops[1].id % 8)
    BY DEF SibOf
  <2>4. MemSib(rm) => (SibOf(ops[1], rm) = 0
          <=> ops[1].scale = 0 /\ ops[1].index % 8 = 0 /\ ops[1].id % 8 = 0)
    BY <2>1, <2>2, <2>3, Fields
  <2> QED BY <2>4 DEF SibFields
<1>5. LosesByte(rm, reg) <=> IF IsSib(rm) THEN SibFields(rm) = <<0, 0, 0>>
                             ELSE ~Displaced(rm) /\ rm.id % 8 = 0 /\ reg.id % 8 = 0
  BY DEF LosesByte, SibFields
<1>6. IsMem(rm) => (IsSib(rm) <=> MemSib(rm))
  BY DEF MemSib
<1>7. (val % 8 < 2 => ops[1] = rm) /\ (~(val % 8 < 2) => ops[1] = reg)
  BY ModRMOperands
<1>8. MemSib(rm) /\ ~Taken(val, rm, reg) => SibFields(ops[1]) = SibFields(rm)
  BY <1>7 DEF Taken
<1>9. ASSUME ~Misread(val, rm, reg), ~(IsMem(rm) /\ LosesByte(rm, reg)) PROVE Clear(ops, rm, reg)
  <2>1. IsMem(rm) => ~Taken(val, rm, reg) /\ ~NoSuchAddress(rm)
    BY <1>9, Zenon DEF Misread
  <2>2. MemSib(rm) => IsMem(rm)
    BY DEF MemSib
  <2>3. ModRMOf(rm, reg) # 0
    BY <1>1, <1>2, <1>3, <1>5, <1>6, <1>9
  <2>4. MemSib(rm) => SibOf(ops[1], rm) # 0
    BY <1>4, <1>5, <1>6, <1>8, <1>9, <2>1, <2>2
  <2>5. IsMem(rm) /\ ~MemSib(rm) => rm.id % 8 # 4
    BY <1>6, <2>1 DEF NoSuchAddress
  <2> QED BY <2>3, <2>4, <2>5 DEF Clear
<1>10. ASSUME Clear(ops, rm, reg), IsMem(rm), LosesByte(rm, reg) PROVE Misread(val, rm, reg)
  <2>1. MemSib(rm) /\ Taken(val, rm, reg)
    <3>1. MemSib(rm)
      BY <1>1, <1>2, <1>3, <1>5, <1>6, <1>10 DEF Clear
    <3>2. Taken(val, rm, reg)
      BY <1>4, <1>5, <1>6, <1>8, <1>10, <3>1 DEF Clear
    <3> QED BY <3>1, <3>2
  <2> QED BY <1>10, <2>1, Zenon DEF Misread
<1> QED BY <1>9, <1>10

\* The causes of a call with a register or memory in the r/m field.
LEMMA KnownCauseIs ==
    ASSUME NEW val, NEW ops, NEW rm, NEW reg, HasModRM(val, ops, rm, reg),
           NEW call, call.via = "operands", call.opcode = I64Opcode(val), call.ops = ops
    PROVE  KnownCause(call) <=> Misread(val, rm, reg) \/ (IsMem(rm) /\ LosesByte(rm, reg))
<1> DEFINE desc == _i64_lookup_opcode_meta(I64Opcode(val))
           given == [i \in Given(desc) |-> ops[i]]
           at == IF desc.form = "RM_R" THEN 1 ELSE 2
           first == val % 8 < 2
<1>1. /\ Given(desc) = {1, 2}
      /\ desc.form = (IF first THEN "RM_R" ELSE "R_RM")
      /\ "REX" \in desc.flags <=> val % 2 = 1
      /\ HasLegacy(val) <=> "LEGACY" \in desc.flags
  <2>1. 1 .. 2 = {1, 2}
    OBVIOUS
  <2> QED BY <2>1, ModRMDesc DEF HasModRM, HasLegacy
<1> HIDE DEF desc
<1>2. desc.form # "R" /\ (desc.form = "RM_R" <=> first) /\ (desc.form = "R_RM" <=> ~first)
  BY <1>1
<1>3. KnownCause(call)
        <=> \/ "REX" \in desc.flags /\ SwapsExtensions(desc.form, given)
            \/ "REX" \notin desc.flags /\ NeedsRex(given)
            \/ LacksPrefix(desc, given)
            \/ TakenFromFirst(desc.form, given)
            \/ IsMem(given[at]) /\ NoSuchAddress(given[at])
            \/ IsMem(given[at]) /\ LosesByte(given[at], given[3 - at])
  <2>1. call.via # "ir"
    OBVIOUS
  <2> QED BY <1>2, <2>1, Zenon DEF KnownCause, desc
<1>4. /\ DOMAIN given = {1, 2}
      /\ first => given[1] = rm /\ given[2] = reg
      /\ ~first => given[1] = reg /\ given[2] = rm
  BY <1>1, ModRMOperands
<1>5. given[at] = rm /\ given[3 - at] = reg
  BY <1>2, <1>4
<1>6. /\ ~IsMem(reg) /\ ~IsSib(reg) /\ ~Displaced(reg)
      /\ IsSib(rm) <=> MemSib(rm)
      /\ Displaced(rm) => IsMem(rm)
      /\ rm.width = 16 => reg.width = 16
      /\ MemSib(rm) => IsMem(rm)
  BY ModRMOperands DEF IsMem, IsSib, MemSib, Displaced
<1> HIDE DEF given, at, first
<1>7. SwapsExtensions(desc.form, given) <=> first /\ ~(Extended(rm.id) <=> Extended(reg.id))
  BY <1>2, <1>4 DEF SwapsExtensions, Extended
<1> DEFINE bad(op) == \/ Extended(op.id)
                      \/ IsSib(op) /\ Extended(op.index)
                      \/ ~IsMem(op) /\ op.id \in 4 .. 7
<1>8. NeedsRex(given) <=> bad(rm) \/ bad(reg)
  <2>1. NeedsRex(given) <=> bad(given[1]) \/ bad(given[2])
    BY <1>4 DEF NeedsRex
  <2> HIDE DEF bad
  <2> QED BY <1>4, <2>1
<1>9. LacksPrefix(desc, given) <=> Lacks(val, rm, reg)
  <2>1. (\E i \in DOMAIN given : IsMem(given[i]) /\ given[i].width = 32) <=> IsMem(rm) /\ rm.width = 32
    BY <1>4, <1>6
  <2>2. (\E i \in DOMAIN given : given[i].width = 16) <=> reg.width = 16
    BY <1>4, <1>6
  <2>3. LacksPrefix(desc, given)
          <=> LET address32 == \E i \in DOMAIN given : IsMem(given[i]) /\ given[i].width = 32
                  is16 == \E i \in DOMAIN given : given[i].width = 16
              IN  IF "LEGACY" \in desc.flags THEN address32 /\ is16 ELSE address32 \/ is16
    BY Zenon DEF LacksPrefix
  <2> QED BY <1>1, <2>1, <2>2, <2>3, Zenon DEF Lacks
<1>10. TakenFromFirst(desc.form, given) <=> Taken(val, rm, reg)
  <2>1. Taken(val, rm, reg) <=> /\ ~first
                                /\ \/ MemSib(rm) /\ SibFields(reg) # SibFields(rm)
                                   \/ Displaced(rm) /\ reg.disp # rm.disp
    BY DEF Taken, first
  <2>2. TakenFromFirst(desc.form, given)
          <=> /\ ~first
              /\ \/ IsSib(given[2]) /\ SibFields(given[1]) # SibFields(given[2])
                 \/ Displaced(given[2]) /\ given[1].disp # given[2].disp
    BY <1>2 DEF TakenFromFirst, SibFields
  <2> QED BY <1>4, <1>6, <2>1, <2>2
<1>11. ("REX" \in desc.flags /\ SwapsExtensions(desc.form, given)) <=> (val % 2 = 1 /\ ~GoodExt(val, rm, reg))
  BY <1>1, <1>7 DEF GoodExt, first
<1>12. ("REX" \notin desc.flags /\ NeedsRex(given))
         <=> /\ val % 2 # 1
             /\ \/ ~GoodExt(val, rm, reg)
                \/ ~IsMem(rm) /\ ~(rm.id < 4)
                \/ IsMem(rm) /\ NeedsRexInMemory(val, rm)
  <2> SUFFICES ASSUME val % 2 # 1
               PROVE  bad(rm) \/ bad(reg) <=> \/ ~GoodExt(val, rm, reg)
                                              \/ ~IsMem(rm) /\ ~(rm.id < 4)
                                              \/ IsMem(rm) /\ NeedsRexInMemory(val, rm)
    BY <1>1, <1>8
  <2>1. rm.id \in 0 .. 15 /\ reg.id \in 0 .. 15
    BY ModRMOperands
  <2>2. bad(reg) <=> ~GoodExt(val, rm, reg)
    BY <1>6, <2>1 DEF GoodExt, Extended
  <2>3. ~IsMem(rm) => (bad(rm) <=> ~(rm.id < 4))
    BY <1>6, <2>1 DEF Extended
  <2>4. IsMem(rm) => (bad(rm) <=> NeedsRexInMemory(val, rm))
    BY <1>6 DEF NeedsRexInMemory
  <2> HIDE DEF bad
  <2> QED BY <2>2, <2>3, <2>4
<1>13. NeedsRexInMemory(val, rm) => val % 2 # 1
  BY DEF NeedsRexInMemory
<1>14. Taken(val, rm, reg) => IsMem(rm)
  BY <1>6 DEF Taken
<1>15. KnownCause(call)
         <=> \/ val % 2 = 1 /\ ~GoodExt(val, rm, reg)
             \/ /\ val % 2 # 1
                /\ \/ ~GoodExt(val, rm, reg)
                   \/ ~IsMem(rm) /\ ~(rm.id < 4)
                   \/ IsMem(rm) /\ NeedsRexInMemory(val, rm)
             \/ Lacks(val, rm, reg) \/ Taken(val, rm, reg)
             \/ IsMem(rm) /\ NoSuchAddress(rm)
             \/ IsMem(rm) /\ LosesByte(rm, reg)
  BY <1>3, <1>5, <1>9, <1>10, <1>11, <1>12, Zenon
<1> QED BY <1>13, <1>14, <1>15, Zenon DEF Misread

\* Where a byte is left out that the ModRM byte promises, or there is none, the
\* instruction goes on behind what was written for it.
LEMMA UnclearIsLonger ==
    ASSUME NEW val, NEW ops, NEW rm, NEW reg, HasModRM(val, ops, rm, reg), ~Clear(ops, rm, reg),
           NEW e \in Seq(Byte), Begins(e, i64_emit_64(I64Opcode(val), ops))
    PROVE  Instruction(e \o Zeros).len > Len(i64_emit_64(I64Opcode(val), ops))
<1> DEFINE b == e \o Zeros
           w == i64_emit_64(I64Opcode(val), ops)
           o == OpcodeAt(val, rm, reg)
           modrm == ModRMOf(rm, reg)
           sib == SibOf(ops[1], rm)
           D == DispOf(ops[1], rm)
           R0 == RmRead(b, val, rm, reg)
<1>1. /\ o \in 1 .. 3 /\ Len(w) = o + There(modrm) + There(sib) + Len(D)
      /\ Instruction(b) = WithModRM(val, WidthOf(val, rm, reg), R0, RegField(b, val, rm, reg))
      /\ modrm # 0 => b[o + 1] = modrm
  <2>1. StandsAt(e, val, ops, rm, reg)
    BY ModRMIsAt
  <2> QED BY <2>1, Zenon DEF StandsAt
<1>2. Instruction(b).len = R0.next - 1
  <2> HIDE DEF R0, b
  <2> QED BY <1>1 DEF WithModRM
<1>3. Len(D) = IF Mem32(rm) THEN 4 ELSE IF Mem8(rm) THEN 1 ELSE 0
  BY ModRMBytes
<1>4. /\ There(modrm) = IF modrm = 0 THEN 0 ELSE 1
      /\ There(sib) = IF sib = 0 THEN 0 ELSE 1
  BY DEF There
<1>5. modrm = 0 <=> ModOf(rm) = 0 /\ reg.id % 8 = 0 /\ LowOf(rm) = 0
  BY ModRMFields
<1>6. CASE modrm = 0
  <2>1. ~Mem8(rm) /\ ~Mem32(rm) /\ ~MemSib(rm)
    BY <1>5, <1>6 DEF ModOf, LowOf, Mem8, Mem32
  <2>2. Len(D) = 0 /\ sib = 0
    BY <1>3, <2>1 DEF SibOf
  <2>3. Len(w) = o
    <3> HIDE DEF w, D, sib, modrm, o
    <3> QED BY <1>1, <1>4, <1>6, <2>2
  <2>4. R0.next \in Nat /\ R0.next >= o + 2
    <3>1. R0 = RmField(b, o + 2, b[o + 1], RexOf(val, rm, reg), WidthOf(val, rm, reg),
                       Rexed(val, rm, reg), AddressOf(val, rm, reg))
      BY Zenon DEF RmRead
    <3>2. o + 2 \in Nat
      BY <1>1
    <3> HIDE DEF R0, o, b
    <3> QED BY <3>1, <3>2, RmFieldNext
  <2> HIDE DEF R0, w, o
  <2> QED BY <1>1, <1>2, <2>3, <2>4 DEF w
<1>7. CASE modrm # 0
  <2> DEFINE mod == ModOf(rm)
             mem == Memory(b, o + 2, mod, 4, BitX(val, rm, reg), BitB(val, rm, reg), AddressOf(val, rm, reg))
  <2>1. IsMem(rm) /\ LowOf(rm) = 4 /\ sib = 0
    BY <1>7 DEF Clear, MemSib, SibOf, LowOf
  <2>2. mod \in 0 .. 2
    BY <2>1 DEF ModOf
  <2>3. b[o + 1] \div 64 = mod /\ b[o + 1] % 8 = 4
    <3>1. modrm \div 64 = mod /\ modrm % 8 = LowOf(rm)
      BY ModRMFields
    <3>2. b[o + 1] = modrm
      BY <1>1, <1>7
    <3> HIDE DEF modrm, mod, b, o
    <3> QED BY <2>1, <3>1, <3>2
  <2>4. R0 = mem
    <3>1. (RexOf(val, rm, reg) \div 2) % 2 = BitX(val, rm, reg) /\ RexOf(val, rm, reg) % 2 = BitB(val, rm, reg)
      BY DEF BitX, BitB
    <3>2. mod # 3
      BY <2>2
    <3> HIDE DEF b, mod, o
    <3>3. R0 = RmField(b, o + 2, b[o + 1], RexOf(val, rm, reg), WidthOf(val, rm, reg),
                       Rexed(val, rm, reg), AddressOf(val, rm, reg))
      BY Zenon DEF RmRead, o
    <3> HIDE DEF R0
    <3> QED BY <2>3, <3>1, <3>2, <3>3, Zenon DEF RmField
  <2>5. mem.next = DispFrom(o + 2, 4) + DispSize(b, o + 2, mod, 4)
    <3>1. o + 2 \in Nat /\ 4 \in 0 .. 7
      BY <1>1
    <3> HIDE DEF b, mod, o
    <3>2. mem = [operand |-> MemRead(BaseRead(b, o + 2, mod, 4, BitB(val, rm, reg)),
                    IF Indexed(b, o + 2, 4, BitX(val, rm, reg)) THEN IndexBits(b, o + 2, BitX(val, rm, reg)) ELSE -1,
                    IF Indexed(b, o + 2, 4, BitX(val, rm, reg)) THEN b[o + 2] \div 64 ELSE 0,
                    DispRead(b, o + 2, mod, 4), AddressOf(val, rm, reg)),
                 next |-> DispFrom(o + 2, 4) + DispSize(b, o + 2, mod, 4)]
      BY <2>2, <3>1, MemoryIs
    <3> HIDE DEF mem
    <3> QED BY <3>2
  <2>6. DispFrom(o + 2, 4) = o + 3
    BY <1>1 DEF DispFrom
  <2>7. DispSize(b, o + 2, mod, 4) \in Nat /\ DispSize(b, o + 2, mod, 4) >= Len(D)
    <3>1. mod = IF Mem8(rm) THEN 1 ELSE IF Mem32(rm) THEN 2 ELSE 0
      BY <2>1 DEF ModOf
    <3>2. ~(Mem8(rm) /\ Mem32(rm))
      BY ModRMOperands DEF Mem8, Mem32
    <3> HIDE DEF mod, D, b, o
    <3> QED BY <1>3, <3>1, <3>2 DEF DispSize
  <2>8. Len(w) = o + 1 + Len(D) /\ Len(D) \in Nat
    <3>1. Len(D) \in Nat
      BY <1>3
    <3> HIDE DEF w, D, sib, modrm, o
    <3> QED BY <1>1, <1>4, <1>7, <2>1, <3>1
  <2>9. Instruction(b).len = o + 2 + DispSize(b, o + 2, mod, 4)
    <3> HIDE DEF R0, mem, b, o, mod
    <3>1. o \in Nat
      BY <1>1
    <3> QED BY <1>2, <2>4, <2>5, <2>6, <2>7, <3>1
  <2> HIDE DEF w, b, o, D, mod
  <2> QED BY <1>1, <2>7, <2>8, <2>9 DEF w, b
<1> QED BY <1>6, <1>7

\* Where none is left out, they are there to be read.
LEMMA ClearIsReady ==
    ASSUME NEW val, NEW ops, NEW rm, NEW reg, HasModRM(val, ops, rm, reg), Clear(ops, rm, reg),
           NEW e \in Seq(Byte), Begins(e, i64_emit_64(I64Opcode(val), ops))
    PROVE  /\ ReadyAt(e \o Zeros, OpcodeAt(val, rm, reg), ops, rm, reg)
           /\ Len(i64_emit_64(I64Opcode(val), ops))
                = From(OpcodeAt(val, rm, reg), rm) - 1 + Len(DispOf(ops[1], rm))
<1> DEFINE b == e \o Zeros
           w == i64_emit_64(I64Opcode(val), ops)
           o == OpcodeAt(val, rm, reg)
           modrm == ModRMOf(rm, reg)
           sib == SibOf(ops[1], rm)
           D == DispOf(ops[1], rm)
           s == o + There(modrm) + There(sib)
<1>1. /\ o \in 1 .. 3 /\ Len(w) = s + Len(D) /\ Len(w) <= Len(e)
      /\ modrm # 0 => b[o + 1] = modrm
      /\ sib # 0 => b[s] = sib
      /\ \A k \in 1 .. Len(D) : b[s + k] = D[k]
  <2>1. StandsAt(e, val, ops, rm, reg)
    BY ModRMIsAt
  <2> QED BY <2>1, Zenon DEF StandsAt
<1>2. /\ modrm # 0 /\ There(modrm) = 1
      /\ MemSib(rm) => sib # 0
      /\ ~MemSib(rm) => sib = 0
      /\ IsMem(rm) /\ ~MemSib(rm) => rm.id % 8 # 4
  BY DEF Clear, There, SibOf
<1>3. There(sib) = IF MemSib(rm) THEN 1 ELSE 0
  BY <1>2 DEF There
<1>4. b \in Seq(Byte) /\ Len(b) = Len(e) + 8
  <2>1. Zeros \in Seq(Byte) /\ Len(Zeros) = 8
    BY DEF Byte, Zeros
  <2> HIDE DEF w, D
  <2>2. /\ e \o Zeros \in Seq(Byte) /\ Len(e \o Zeros) = Len(e) + Len(Zeros)
    BY <2>1, Appended
  <2> QED BY <2>1, <2>2
<1>5. Len(D) \in Nat /\ Len(e) \in Nat
  BY ModRMBytes
<1> HIDE DEF b, w, o, modrm, sib, D
<1>6. s = From(o, rm) - 1 /\ s \in Nat
  BY <1>1, <1>2, <1>3 DEF From
<1>7. MemSib(rm) => s = o + 2
  BY <1>1, <1>2, <1>3
<1>8. From(o, rm) - 1 + Len(D) <= Len(b)
  <2> HIDE DEF s
  <2> QED BY <1>1, <1>4, <1>5, <1>6
<1>9. \A k \in 1 .. Len(D) : b[From(o, rm) - 1 + k] = D[k]
  <2> HIDE DEF s
  <2> QED BY <1>1, <1>6
<1>10. MemSib(rm) => b[o + 2] = sib
  <2> HIDE DEF s
  <2> QED BY <1>1, <1>2, <1>7
<1>11. o \in Nat \ {0}
  BY <1>1
<1>12. ReadyAt(b, o, ops, rm, reg)
  BY <1>1, <1>2, <1>4, <1>8, <1>9, <1>10, <1>11, Zenon DEF ReadyAt, modrm, sib, D
<1> HIDE DEF s
<1> QED BY <1>1, <1>6, <1>12 DEF b, w, o, D

\* The instruction that would be right.
AskedInstr(call) ==
    [op |-> Asked(call).op, width |-> Asked(call).width, len |-> Len(BytesOf(call)),
     ops |-> Asked(call).ops]

\* An instruction without its length.
Listed(x) == [op |-> x.op, width |-> x.width, ops |-> x.ops]

\* A call's bytes are read as what it asks for, exactly if it meets no cause.
ReadExactly(call) ==
    /\ Len(BytesOf(call)) > 0
    /\ ~KnownCause(call) => ReadsAs(call, AskedInstr(call))
    /\ Listed(Decoded(BytesOf(call))) = Asked(call) => ~KnownCause(call)

\* What such a call asks for.
LEMMA ModRMAsks ==
    ASSUME NEW val, NEW ops, NEW rm, NEW reg, HasModRM(val, ops, rm, reg),
           NEW call, call.via = "operands", call.opcode = I64Opcode(val), call.ops = ops
    PROVE  Asked(call) = [op |-> 8 * (val \div 8), width |-> reg.width,
                          ops |-> IF (val \div 2) % 2 = 1 THEN <<RegRead(reg.id), OperandRead(rm)>>
                                  ELSE <<OperandRead(rm), RegRead(reg.id)>>]
<1> DEFINE given == Given(_i64_lookup_opcode_meta(I64Opcode(val)))
           width == IF IsMem(call.ops[1]) THEN call.ops[2].width ELSE call.ops[1].width
<1>1. given = 1 .. 2
  BY ModRMDesc DEF HasModRM
<1>2. /\ val % 8 < 2 => ops[1] = rm /\ ops[2] = reg
      /\ ~(val % 8 < 2) => ops[1] = reg /\ ops[2] = rm
      /\ ~IsMem(rm) => rm.width = reg.width
      /\ ~IsMem(reg)
  BY ModRMOperands DEF IsMem
<1>3. (val \div 2) % 2 = 1 <=> ~(val % 8 < 2)
  <2>1. val \in 0 .. 255 /\ val % 8 < 4
    BY DEF HasModRM, IsModRM, Byte
  <2> QED BY <2>1
<1>4. OperandRead(reg) = RegRead(reg.id)
  BY <1>2 DEF OperandRead
<1>5. [i \in given |-> OperandRead(call.ops[i])] = <<OperandRead(call.ops[1]), OperandRead(call.ops[2])>>
  <2> HIDE DEF given
  <2> QED BY <1>1
<1>6. width = reg.width
  BY <1>2
<1>7. call.opcode.val = val
  BY DEF I64Opcode
<1>8. Asked(call) = [op |-> 8 * (val \div 8), width |-> width,
                     ops |-> [i \in given |-> OperandRead(call.ops[i])]]
  <2>1. call.via # "ir"
    OBVIOUS
  <2> QED BY <1>7, <2>1, Zenon DEF Asked
<1> HIDE DEF given, width
<1>9. CASE val % 8 < 2
  <2>1. call.ops[1] = rm /\ call.ops[2] = reg /\ ~((val \div 2) % 2 = 1)
    BY <1>2, <1>3, <1>9
  <2> QED BY <1>4, <1>5, <1>6, <1>8, <2>1, Zenon
<1>10. CASE ~(val % 8 < 2)
  <2>1. call.ops[1] = reg /\ call.ops[2] = rm /\ (val \div 2) % 2 = 1
    BY <1>2, <1>3, <1>10
  <2> QED BY <1>4, <1>5, <1>6, <1>8, <2>1, Zenon
<1> QED BY <1>9, <1>10

\* Calls with a ModRM byte.
LEMMA ModRMCallIsRead ==
    ASSUME NEW val, NEW ops, NEW rm, NEW reg, HasModRM(val, ops, rm, reg),
           NEW call, call.via = "operands", call.opcode = I64Opcode(val), call.ops = ops
    PROVE  ReadExactly(call)
<1> DEFINE w == BytesOf(call)
           o == OpcodeAt(val, rm, reg)
           lost == IsMem(rm) /\ LosesByte(rm, reg)
<1>1. w = i64_emit_64(I64Opcode(val), ops)
  BY DEF BytesOf
<1>2. KnownCause(call) <=> Misread(val, rm, reg) \/ lost
  BY KnownCauseIs
<1>3. Asked(call) = [op |-> 8 * (val \div 8), width |-> reg.width,
                     ops |-> IF (val \div 2) % 2 = 1 THEN <<RegRead(reg.id), OperandRead(rm)>>
                             ELSE <<OperandRead(rm), RegRead(reg.id)>>]
  BY ModRMAsks
<1>4. val \in 0 .. 255
  BY DEF HasModRM, IsModRM, Byte
<1>5. Asked(call).op = 8 * (val \div 8) /\ Asked(call).op \in Nat
  BY <1>3, <1>4
<1>6. ASSUME NEW e \in Seq(Byte), Begins(e, w)
      PROVE  /\ Len(w) \in Nat \ {0} /\ Len(w) <= Len(e)
             /\ ~Clear(ops, rm, reg) => Instruction(e \o Zeros).len > Len(w)
             /\ Clear(ops, rm, reg) => (Misread(val, rm, reg) <=> Misread(val, rm, reg) \/ lost)
             /\ Clear(ops, rm, reg) => (Listed(Instruction(e \o Zeros)) = Asked(call) <=> ~Misread(val, rm, reg))
             /\ Clear(ops, rm, reg) /\ ~Misread(val, rm, reg)
                  => Instruction(e \o Zeros) = AskedInstr(call)
  <2> DEFINE b == e \o Zeros
             W == WidthOf(val, rm, reg)
             M == RmRead(b, val, rm, reg)
             G == RegField(b, val, rm, reg)
             A == OperandRead(rm)
  <2>1. Begins(e, i64_emit_64(I64Opcode(val), ops))
    BY <1>1, <1>6
  <2>2. /\ o \in 1 .. 3 /\ Instruction(b) = WithModRM(val, W, M, G)
        /\ Len(i64_emit_64(I64Opcode(val), ops))
             = o + There(ModRMOf(rm, reg)) + There(SibOf(ops[1], rm)) + Len(DispOf(ops[1], rm))
        /\ Len(i64_emit_64(I64Opcode(val), ops)) <= Len(e)
    <3>1. StandsAt(e, val, ops, rm, reg)
      BY <2>1, ModRMIsAt
    <3> QED BY <3>1, Zenon DEF StandsAt
  <2>3. Len(w) \in Nat \ {0} /\ Len(w) <= Len(e)
    <3>1. There(ModRMOf(rm, reg)) \in Nat /\ There(SibOf(ops[1], rm)) \in Nat
      BY DEF There
    <3>2. Len(DispOf(ops[1], rm)) \in Nat
      BY ModRMBytes
    <3> HIDE DEF w, o
    <3> QED BY <1>1, <2>2, <3>1, <3>2
  <2>4. ~Clear(ops, rm, reg) => Instruction(b).len > Len(w)
    BY <1>1, <2>1, UnclearIsLonger
  <2>5. Clear(ops, rm, reg) => (lost => Misread(val, rm, reg))
    BY NothingLost
  <2>6. Clear(ops, rm, reg) => /\ ReadyAt(b, o, ops, rm, reg)
                               /\ Len(w) = From(o, rm) - 1 + Len(DispOf(ops[1], rm))
    <3> SUFFICES ASSUME Clear(ops, rm, reg)
                 PROVE  ReadyAt(b, o, ops, rm, reg) /\ Len(w) = From(o, rm) - 1 + Len(DispOf(ops[1], rm))
      OBVIOUS
    <3> QED BY <1>1, <2>1, ClearIsReady
  <2>7. Clear(ops, rm, reg) => (ReadRightly(b, val, rm, reg) <=> ~Misread(val, rm, reg))
    BY <2>6, ReadyIsRead
  <2>8. Clear(ops, rm, reg) /\ ~Misread(val, rm, reg) => M.next = From(o, rm) + Len(DispOf(ops[1], rm))
    BY <2>6, ReadyIsRead
  <2>9. Instruction(b) = [op |-> 8 * (val \div 8), width |-> W, len |-> M.next - 1,
                          ops |-> IF (val \div 2) % 2 = 1 THEN <<G, M.operand>> ELSE <<M.operand, G>>]
    BY <2>2, Zenon DEF WithModRM
  <2>10. ReadRightly(b, val, rm, reg) <=> W = reg.width /\ G = RegRead(reg.id) /\ M.operand = A
    BY Zenon DEF ReadRightly
  <2> HIDE DEF b, W, M, G, A, w, o, lost
  <2>11. Listed(Instruction(b)) = Asked(call) <=> ReadRightly(b, val, rm, reg)
    <3>1. Listed(Instruction(b))
            = [op |-> 8 * (val \div 8), width |-> W,
               ops |-> IF (val \div 2) % 2 = 1 THEN <<G, M.operand>> ELSE <<M.operand, G>>]
      BY <2>9 DEF Listed
    <3>2. Asked(call) = [op |-> 8 * (val \div 8), width |-> reg.width,
                         ops |-> IF (val \div 2) % 2 = 1 THEN <<RegRead(reg.id), A>>
                                 ELSE <<A, RegRead(reg.id)>>]
      BY <1>3 DEF A
    <3> QED BY <2>10, <3>1, <3>2
  <2>12. ASSUME Clear(ops, rm, reg), ~Misread(val, rm, reg) PROVE Instruction(b) = AskedInstr(call)
    <3>1. M.next - 1 = Len(w)
      <4>1. From(o, rm) \in Nat
        BY <2>2 DEF From
      <4>2. Len(DispOf(ops[1], rm)) \in Nat
        BY ModRMBytes
      <4> QED BY <2>6, <2>8, <2>12, <4>1, <4>2
    <3>2. W = reg.width /\ G = RegRead(reg.id) /\ M.operand = A
      BY <2>7, <2>10, <2>12
    <3>3. /\ Asked(call).op = 8 * (val \div 8) /\ Asked(call).width = reg.width
          /\ Asked(call).ops = IF (val \div 2) % 2 = 1 THEN <<RegRead(reg.id), A>> ELSE <<A, RegRead(reg.id)>>
      BY <1>3 DEF A
    <3>4. AskedInstr(call) = [op |-> Asked(call).op, width |-> Asked(call).width, len |-> Len(w),
                              ops |-> Asked(call).ops]
      BY Zenon DEF AskedInstr, w
    <3> QED BY <2>9, <3>1, <3>2, <3>3, <3>4, Zenon
  <2> QED BY <2>3, <2>4, <2>5, <2>7, <2>11, <2>12 DEF b
<1>7. w \in Seq(Byte)
  <2>1. I64Opcode(val) \in [len : {1}, val : 0 .. 255]
    BY <1>4 DEF I64Opcode
  <2>2. ops \in Operand \X Operand
    BY DEF HasModRM
  <2> QED BY <1>1, <2>1, <2>2, EmitsBytes
<1>8. Begins(w, w)
  BY <1>7 DEF Begins
<1>9. AskedInstr(call).op = 8 * (val \div 8) /\ AskedInstr(call).len = Len(w)
  BY <1>5 DEF AskedInstr
<1>10. Undecodable.op = -1
  BY DEF Undecodable
<1>11. \A e : Decoded(e) = IF Instruction(e \o Zeros).len > Len(e) THEN Undecodable ELSE Instruction(e \o Zeros)
  BY Zenon DEF Decoded, Complete, Zeros
<1> HIDE DEF w, lost
<1>12. ASSUME ~KnownCause(call) PROVE ReadsAs(call, AskedInstr(call))
  <2>1. ~Misread(val, rm, reg) /\ ~lost
    BY <1>2, <1>12
  <2>2. Clear(ops, rm, reg)
    BY <2>1, NothingLost DEF lost
  <2>3. Len(w) \in Nat \ {0}
    BY <1>6, <1>7, <1>8
  <2>4. ASSUME NEW e \in Seq(Byte), Begins(e, w) PROVE Decoded(e) = AskedInstr(call)
    <3>1. Instruction(e \o Zeros) = AskedInstr(call) /\ Len(w) <= Len(e)
      BY <1>6, <2>1, <2>2, <2>4
    <3>2. ~(Instruction(e \o Zeros).len > Len(e))
      BY <1>9, <2>3, <3>1
    <3> QED BY <1>11, <3>1, <3>2
  <2>5. AskedInstr(call) # Undecodable
    BY <1>4, <1>9, <1>10
  <2> QED BY <1>9, <2>3, <2>4, <2>5 DEF ReadsAs, w
<1>13. ASSUME Listed(Decoded(w)) = Asked(call) PROVE ~KnownCause(call)
  <2> DEFINE x == Instruction(w \o Zeros)
  <2>1. ~(x.len > Len(w))
    <3>1. Listed(Undecodable).op = -1
      BY <1>10 DEF Listed
    <3>2. Listed(Undecodable) # Asked(call)
      BY <1>5, <3>1
    <3> HIDE DEF x
    <3> QED BY <1>11, <1>13, <3>2 DEF x
  <2>2. Decoded(w) = x
    BY <1>11, <2>1
  <2>3. Clear(ops, rm, reg)
    BY <1>6, <1>7, <1>8, <2>1
  <2> QED BY <1>2, <1>6, <1>7, <1>8, <1>13, <2>2, <2>3
<1>14. Len(w) > 0
  BY <1>6, <1>7, <1>8
<1> QED BY <1>12, <1>13, <1>14 DEF ReadExactly, w

\* PUSH of a register.
LEMMA PushIsRead ==
    ASSUME NEW call, call.via = "operands", call.opcode = I64Opcode(PUSH_R64),
           IsRegister(call.ops[1], {64})
    PROVE  ReadExactly(call)
<1> DEFINE desc == _i64_lookup_opcode_meta(call.opcode)
           sum == SumCalc(desc, call.ops)
           op == call.ops[1]
           w == BytesOf(call)
           x == [op |-> 80, width |-> 64, len |-> 1, ops |-> <<RegRead(0)>>]
<1>1. PICK id \in 0 .. 15 : op = RegOperand(id, 64)
  BY DEF IsRegister
<1>2. op.id = id /\ op.width = 64 /\ ~IsMem(op) /\ ~IsSib(op) /\ "DISP8" \notin op.type /\ "DISP32" \notin op.type
  BY <1>1 DEF RegOperand, NoOperand, IsMem, IsSib
<1>3. desc = PushRow
  <2>1. desc = L1_OPCODE_META_TABLE[80]
    BY DEF _i64_lookup_opcode_meta, I64Opcode, PUSH_R64
  <2>2. 8 * (80 \div 8) = 80 /\ 80 \notin AluGroups /\ 80 # MovGroup /\ 80 \in 0 .. 255
    BY DEF AluGroups, MovGroup
  <2>3. L1_OPCODE_META_TABLE[80]
          = CASE 8 * (80 \div 8) \in AluGroups /\ (80 % 8) + 1 <= Len(AluRow) -> AluRow[(80 % 8) + 1]
              [] 8 * (80 \div 8) = MovGroup /\ (80 % 8) + 1 <= Len(MovRow) -> MovRow[(80 % 8) + 1]
              [] 80 = PUSH_R64 -> PushRow
              [] OTHER -> NoDesc
    BY <2>2, Zenon DEF L1_OPCODE_META_TABLE
  <2>4. PUSH_R64 = 80
    BY DEF PUSH_R64
  <2> HIDE DEF desc
  <2> QED BY <2>1, <2>2, <2>3, <2>4, Zenon
<1>4. Given(desc) = {1} /\ desc.flags = {} /\ desc.form = "R"
  <2>1. PushRow.ops = <<R(64)>> /\ PushRow.flags = {} /\ PushRow.form = "R"
    BY DEF PushRow, Desc
  <2>2. DOMAIN <<R(64)>> = {1}
    OBVIOUS
  <2> HIDE DEF desc
  <2> QED BY <1>3, <2>1, <2>2 DEF Given
<1> HIDE DEF desc
<1>5. /\ sum.sibAt = 1
      /\ ~sum.sib /\ ~sum.disp8 /\ ~sum.disp32
  <2>1. /\ sum.sibAt = 1
        /\ sum.sib <=> \E i \in Given(desc) : IsSib(call.ops[i])
        /\ sum.disp8 <=> \E i \in Given(desc) : "DISP8" \in call.ops[i].type
        /\ sum.disp32 <=> \E i \in Given(desc) : "DISP32" \in call.ops[i].type
    BY Zenon DEF SumCalc
  <2> HIDE DEF sum
  <2> QED BY <1>2, <1>4, <2>1
<1>6. w = <<80>>
  <2> DEFINE With(flag, byte) == IF flag \in desc.flags THEN Present(byte) ELSE <<>>
  <2>1. w = With("LEGACY", _i64_leg_resolve(sum)) \o With("REX", _i64_rex_resolve(sum))
            \o <<call.opcode.val>> \o With("MODRM", _i64_modrm_resolve(call.ops, sum))
            \o Present(_i64_sib_resolve(call.ops[sum.sibAt], sum)) \o Displacement(call.ops[sum.sibAt], sum)
    <3>1. w = i64_emit_64(call.opcode, call.ops)
      BY DEF BytesOf
    <3> HIDE DEF w
    <3> QED BY <3>1, Zenon DEF i64_emit_64, sum, desc
  <2>2. \A flag, byte : With(flag, byte) = <<>>
    BY <1>4
  <2>3. Present(_i64_sib_resolve(op, sum)) = <<>>
    <3>1. _i64_sib_resolve(op, sum) = 0
      BY <1>5, Zenon DEF _i64_sib_resolve
    <3> QED BY <3>1, Zenon DEF Present
  <2>4. Displacement(op, sum) = <<>>
    <3> HIDE DEF sum
    <3> QED BY <1>5 DEF Displacement
  <2>5. call.opcode.val = 80
    BY DEF I64Opcode, PUSH_R64
  <2>6. w = <<>> \o <<>> \o <<80>> \o <<>> \o <<>> \o <<>>
    <3> HIDE DEF w, With, sum
    <3> QED BY <1>5, <2>1, <2>2, <2>3, <2>4, <2>5, Zenon
  <2> HIDE DEF w
  <2> QED BY <2>6
<1>7. Asked(call) = [op |-> 80, width |-> 64, ops |-> <<RegRead(id)>>]
  <2>1. [i \in Given(desc) |-> OperandRead(call.ops[i])] = <<RegRead(id)>>
    <3>1. OperandRead(call.ops[1]) = RegRead(id)
      BY <1>2 DEF OperandRead
    <3>2. ASSUME NEW y PROVE [i \in {1} |-> y] = <<y>>
      OBVIOUS
    <3>3. [i \in Given(desc) |-> OperandRead(call.ops[i])] = [i \in {1} |-> RegRead(id)]
      BY <1>4, <3>1
    <3> QED BY <3>2, <3>3
  <2>2. call.opcode.val = 80 /\ 8 * (80 \div 8) = 80
    BY DEF I64Opcode, PUSH_R64
  <2>3. Asked(call) = [op |-> 8 * (call.opcode.val \div 8),
                       width |-> IF IsMem(op) THEN call.ops[2].width ELSE op.width,
                       ops |-> [i \in Given(desc) |-> OperandRead(call.ops[i])]]
    <3>1. call.via # "ir"
      OBVIOUS
    <3> QED BY <3>1, Zenon DEF Asked, desc
  <2> HIDE DEF op
  <2> QED BY <1>2, <2>1, <2>2, <2>3
<1>8. KnownCause(call) <=> id # 0
  <2>1. KnownCause(call) <=> [i \in Given(desc) |-> call.ops[i]][1].id # 0
    <3>1. call.via # "ir"
      OBVIOUS
    <3> QED BY <1>4, <3>1, Zenon DEF KnownCause, desc
  <2> QED BY <1>2, <1>4, <2>1
<1>9. ASSUME NEW e \in Seq(Byte), Begins(e, w) PROVE Decoded(e) = x
  <2> DEFINE b == e \o Zeros
  <2>1. b[1] = 80 /\ Len(e) \in Nat /\ Len(e) >= 1
    <3>1. Len(e) \in Nat /\ Len(e) >= 1 /\ e[1] = 80
      BY <1>6, <1>9 DEF Begins
    <3>2. Zeros \in Seq(Byte)
      BY DEF Byte, Zeros
    <3>3. \A k \in 1 .. Len(e) : (e \o Zeros)[k] = e[k]
      BY <3>2, Appended
    <3> QED BY <3>1, <3>3
  <2>2. Prefixed(b, 0, 0, 1, 80)
    <3>1. There(0) = 0 /\ RexByte(0) = 0
      BY DEF There, RexByte
    <3> HIDE DEF b
    <3> QED BY <2>1, <3>1 DEF Prefixed
  <2> HIDE DEF b
  <2>3. Instruction(b) = AfterPrefixes(b, 1, 80, 0, FALSE, 0, Width(80, 0, 0))
    BY <2>2, PrefixesAreRead, Zenon DEF ReadBehind
  <2>6. Instruction(b) = x
    BY <2>3, ReadsPlainPush
  <2>7. Decoded(e) = IF Instruction(b).len > Len(e) THEN Undecodable ELSE Instruction(b)
    BY Zenon DEF Decoded, Complete, Zeros, b
  <2>8. ~(Instruction(b).len > Len(e))
    <3>1. x.len = 1
      OBVIOUS
    <3> HIDE DEF x
    <3> QED BY <2>1, <2>6, <3>1
  <2> QED BY <2>6, <2>7, <2>8, Zenon
<1>10. w \in Seq(Byte) /\ Len(w) = 1 /\ Begins(w, w)
  <2> HIDE DEF w
  <2> QED BY <1>6 DEF Byte, Begins
<1>11. RegRead(0) = RegRead(id) <=> id = 0
  BY DEF RegRead
<1>12. ASSUME ~KnownCause(call) PROVE ReadsAs(call, AskedInstr(call))
  <2>1. id = 0
    BY <1>8, <1>12
  <2>2. AskedInstr(call) = x
    <3> HIDE DEF w
    <3>1. AskedInstr(call) = [op |-> Asked(call).op, width |-> Asked(call).width, len |-> Len(w),
                              ops |-> Asked(call).ops]
      BY Zenon DEF AskedInstr, w
    <3> QED BY <1>7, <1>10, <2>1, <3>1
  <2>3. x # Undecodable /\ x.len = 1
    BY DEF Undecodable
  <2> HIDE DEF x
  <2> QED BY <1>9, <1>10, <2>2, <2>3 DEF ReadsAs
<1>13. ASSUME Listed(Decoded(w)) = Asked(call) PROVE ~KnownCause(call)
  <2>1. Decoded(w) = x
    BY <1>9, <1>10
  <2>2. Listed(x) = [op |-> 80, width |-> 64, ops |-> <<RegRead(0)>>]
    BY DEF Listed
  <2>3. <<RegRead(0)>> = <<RegRead(id)>>
    <3> HIDE DEF x, w
    <3> QED BY <1>7, <1>13, <2>1, <2>2
  <2> QED BY <1>8, <1>11, <2>3
<1> QED BY <1>10, <1>12, <1>13 DEF ReadExactly

\* Calls with IR.
LEMMA IrCallIsExact ==
    ASSUME NEW call, NEW g, NEW d, NEW s, IsIrCall(call, g, d, s)
    PROVE  ReadExactly(call)
<1> DEFINE w == BytesOf(call)
<1>1. ReadsAs(call, IrRead(g, d, s))
  BY IrCallIsRead
<1>2. /\ Asked(call) = [op |-> Operation[g], width |-> 64, ops |-> <<RegRead(d), RegRead(s)>>]
      /\ KnownCause(call) <=> ~(Extended(d) <=> Extended(s))
  BY IrCallAsks
<1>3. ReadBack(d, s) = <<RegRead(d), RegRead(s)>> <=> (Extended(d) <=> Extended(s))
  BY ReadBackIsRight DEF IsIrCall, IsIrInstr
<1>4. Len(w) = 3 /\ IrRead(g, d, s) = [op |-> Operation[g], width |-> 64, len |-> 3, ops |-> ReadBack(d, s)]
  BY <1>1, Zenon DEF ReadsAs, IrRead
<1>5. ASSUME ~KnownCause(call) PROVE ReadsAs(call, AskedInstr(call))
  <2>1. AskedInstr(call) = [op |-> Asked(call).op, width |-> Asked(call).width, len |-> Len(w),
                            ops |-> Asked(call).ops]
    BY Zenon DEF AskedInstr
  <2> HIDE DEF w
  <2>2. AskedInstr(call) = IrRead(g, d, s)
    BY <1>2, <1>3, <1>4, <1>5, <2>1
  <2> QED BY <1>1, <2>2
<1>6. ASSUME Listed(Decoded(w)) = Asked(call) PROVE ~KnownCause(call)
  <2>1. IsIrInstr(call.instr, g, d, s) /\ w = i64_ir_to_raw(call.instr)
    BY DEF IsIrCall, BytesOf
  <2>2. w \in Seq(Byte) /\ Begins(w, w)
    <3>1. w \in Seq(Byte)
      BY <2>1, IrInstrWrites
    <3> HIDE DEF w
    <3> QED BY <3>1 DEF Begins
  <2>3. Decoded(w) = IrRead(g, d, s)
    BY <1>1, <2>2, Zenon DEF ReadsAs
  <2> HIDE DEF w
  <2>4. ReadBack(d, s) = <<RegRead(d), RegRead(s)>>
    BY <1>2, <1>4, <1>6, <2>3 DEF Listed
  <2> QED BY <1>2, <1>3, <2>4
<1> QED BY <1>4, <1>5, <1>6 DEF ReadExactly

\* Calls of all three kinds.
LEMMA WellFormedIsExact ==
    ASSUME NEW call \in Calls, WellFormed(call)
    PROVE  ReadExactly(call)
<1>1. CASE call.via = "ir"
  <2>1. PICK g, d, s : IsIrCall(call, g, d, s)
    BY <1>1, IrCallIs
  <2> QED BY <2>1, IrCallIsExact
<1>2. CASE call.via # "ir"
  <2>1. call \notin IrCalls(0 .. 15)
    <3>1. \A g, ops : FromIr(g, ops).via = "ir"
      BY DEF FromIr
    <3> QED BY <1>2, <3>1, Zenon DEF IrCalls
  <2>2. call.via = "operands" /\ call.opcode \in [len : {1}, val : 0 .. 255] /\ call.ops \in Operand \X Operand
    BY <2>1 DEF Calls
  <2> DEFINE val == call.opcode.val
             rm == call.ops[IF val % 8 < 2 THEN 1 ELSE 2]
             reg == call.ops[IF val % 8 < 2 THEN 2 ELSE 1]
  <2>3. call.opcode = I64Opcode(val) /\ val \in 0 .. 255
    BY <2>2 DEF I64Opcode
  <2>4. \/ /\ 8 * (val \div 8) \in AluGroups \cup {MovGroup} /\ val % 8 < 4
           /\ IsRegister(reg, IF val % 2 = 0 THEN {8} ELSE {16, 32, 64})
           /\ IsAddress(rm) \/ IsRegister(rm, {reg.width})
        \/ val = PUSH_R64 /\ IsRegister(call.ops[1], {64})
    BY <1>2, Zenon DEF WellFormed
  <2>5. CASE val = PUSH_R64 /\ IsRegister(call.ops[1], {64})
    BY <2>2, <2>3, <2>5, PushIsRead
  <2>6. CASE /\ 8 * (val \div 8) \in AluGroups \cup {MovGroup} /\ val % 8 < 4
             /\ IsRegister(reg, IF val % 2 = 0 THEN {8} ELSE {16, 32, 64})
             /\ IsAddress(rm) \/ IsRegister(rm, {reg.width})
    <3>1. rm \in Operand /\ reg \in Operand
      BY <2>2
    <3>2. call.ops = IF val % 8 < 2 THEN <<rm, reg>> ELSE <<reg, rm>>
      <4>1. call.ops = <<call.ops[1], call.ops[2]>>
        BY <2>2
      <4> QED BY <4>1
    <3>3. HasModRM(val, call.ops, rm, reg)
      <4> HIDE DEF val, rm, reg
      <4> QED BY <2>3, <2>6, <3>1, <3>2 DEF HasModRM, IsModRM, Byte
    <3> HIDE DEF val, rm, reg
    <3> QED BY <2>2, <2>3, <3>3, ModRMCallIsRead
  <2> QED BY <2>4, <2>5, <2>6
<1> QED BY <1>1, <1>2

\* The program at hand has calls as the test suite makes them.
AllWellFormed == \A i \in 1 .. Len(prog) : WellFormed(prog[i])

\* There are no other causes.
LEMMA InvIsRightWithoutCause == CodeInv /\ AllWellFormed => RightWithoutCause
<1> SUFFICES ASSUME CodeInv, AllWellFormed, \A i \in 1 .. next : ~KnownCause(prog[i])
             PROVE  Read = AskedSoFar
  BY DEF RightWithoutCause
<1>1. ASSUME NEW i \in 1 .. next
      PROVE  /\ ReadsAs(prog[i], AskedInstr(prog[i]))
             /\ Asked(prog[i]) = Listed(AskedInstr(prog[i]))
  <2>1. prog[i] \in Calls /\ WellFormed(prog[i])
    BY DEF CodeInv, AllWellFormed
  <2>2. ReadsAs(prog[i], AskedInstr(prog[i]))
    BY <2>1, WellFormedIsExact, Zenon DEF ReadExactly
  <2>3. Asked(prog[i]) = [op |-> Asked(prog[i]).op, width |-> Asked(prog[i]).width, ops |-> Asked(prog[i]).ops]
    BY DEF Asked
  <2>4. Listed(AskedInstr(prog[i]))
          = [op |-> Asked(prog[i]).op, width |-> Asked(prog[i]).width, ops |-> Asked(prog[i]).ops]
    BY DEF Listed, AskedInstr
  <2> QED BY <2>2, <2>3, <2>4
<1> DEFINE X == [i \in 1 .. next |-> AskedInstr(prog[i])]
<1>2. \A i \in 1 .. next : ReadsAs(prog[i], X[i]) /\ X[i] = AskedInstr(prog[i])
  BY <1>1
<1> HIDE DEF X
<1>3. Read = [i \in 1 .. next |-> [op |-> X[i].op, width |-> X[i].width, ops |-> X[i].ops]]
  BY <1>2, CallsAreRead
<1>4. \A i \in 1 .. next : Asked(prog[i]) = [op |-> X[i].op, width |-> X[i].width, ops |-> X[i].ops]
  BY <1>1, <1>2, Zenon DEF Listed
<1> QED BY <1>3, <1>4, Zenon DEF AskedSoFar

\* The causes are real.
LEMMA InvCausesAreReal == CodeInv /\ AllWellFormed => CausesAreReal
<1> SUFFICES ASSUME CodeInv, AllWellFormed, next = 1, KnownCause(prog[1]), Read = AskedSoFar
             PROVE  FALSE
  BY DEF CausesAreReal
<1> DEFINE call == prog[1]
           w == BytesOf(call)
           W == [i \in 1 .. next |-> BytesOf(prog[i])]
<1>1. call \in Calls /\ WellFormed(call)
  BY DEF CodeInv, AllWellFormed
<1>2. ReadExactly(call)
  BY <1>1, WellFormedIsExact
<1>3. PICK at : Written(code, next, at, W)
  BY Zenon DEF CodeInv
<1>4. W[1] = w /\ 1 \in 1 .. next
  OBVIOUS
<1> HIDE DEF W, w
<1>5. /\ code \in Seq(Byte) /\ at[1] = 1 /\ at[2] = Len(code) + 1 /\ w \in Seq(Byte)
      /\ at[2] = at[1] + Len(w) /\ \A k \in 1 .. Len(w) : code[at[1] + k - 1] = w[k]
  <2>1. /\ code \in Seq(Byte) /\ at[1] = 1 /\ at[next + 1] = Len(code) + 1
        /\ W[1] \in Seq(Byte) /\ at[1 + 1] = at[1] + Len(W[1])
        /\ \A k \in 1 .. Len(W[1]) : code[at[1] + k - 1] = W[1][k]
    BY <1>3, <1>4, Zenon DEF Written
  <2>2. 1 + 1 = 2 /\ next + 1 = 2
    OBVIOUS
  <2> QED BY <1>4, <2>1, <2>2, Zenon
<1>6. code = w
  <2>1. Len(w) = Len(code) /\ \A k \in 1 .. Len(w) : code[k] = w[k]
    BY <1>5
  <2>2. ASSUME NEW S, NEW u \in Seq(S), NEW v \in Seq(S), Len(u) = Len(v),
               \A k \in 1 .. Len(u) : u[k] = v[k]
        PROVE  u = v
    BY <2>2
  <2> QED BY <1>5, <2>1, <2>2
<1>7. Len(code) \in Nat \ {0}
  BY <1>2, <1>5, <1>6 DEF ReadExactly, w
<1>8. Disassembly(code)[1] = Decoded(w)
  <2>1. Progress(code)
    BY <1>5, ReadingProgresses, Zenon
  <2>2. Disassembly(code)[1] = At(code, 1)
    BY <1>7, <2>1, FirstOfDisassembly
  <2>3. SubSeq(code, 1, Len(code)) = code
    BY <1>5
  <2> QED BY <1>6, <2>2, <2>3, Zenon DEF At
<1>9. Read[1] = Asked(call)
  BY <1>4 DEF AskedSoFar
<1>10. Read[1] = Listed(Disassembly(code)[1])
  <2>1. 1 \in DOMAIN Disassembly(code)
    <3>1. DOMAIN Read = DOMAIN Disassembly(code)
      BY DEF Read, Listing
    <3>2. DOMAIN Read = 1 .. next
      BY DEF AskedSoFar
    <3> QED BY <1>4, <3>1, <3>2
  <2> QED BY <2>1 DEF Read, Listing, Listed
<1> QED BY <1>2, <1>8, <1>9, <1>10, Zenon DEF ReadExactly, w
-----------------------------------------------------------------------------
(* The theorems. *)

\* Whatever operands i64_emit_64 is called with, the code is a sequence of bytes,
\* and the turns of tblock_ir_to_raw stay within the program.
THEOREM EmitterTypes == Spec => []EmitterTypeOK
<1>1. CodeInv => EmitterTypeOK
  <2>1. CodeInv => code \in Seq(Byte) /\ next \in 0 .. Len(prog)
    BY Zenon DEF CodeInv, Written
  <2>2. ASSUME NEW S, NEW c \in Seq(S), NEW i \in 1 .. Len(c) PROVE c[i] \in S
    OBVIOUS
  <2> QED BY <2>1, <2>2, Zenon DEF EmitterTypeOK, Byte
<1> QED BY <1>1, CodeInvHolds, PTL

\* For IR code of any length: a processor reads one instruction for each that
\* tblock_ir_to_raw wrote, of its operation, in 64 bits and on registers, and no
\* assertion of i64_ir.c ends the third pass.
THEOREM IrStaysInStepHolds == Spec => []IrStaysInStep
BY CodeInvHolds, InvIsInStep, PTL

\* For IR code of any length: a processor reads what the IR says if and only if
\* no instruction has one register below r8 and one from r8 on, which are the ones
\* that the two exchanges in i64_sum_calc and _i64_rex_resolve turn into others.
THEOREM IrIsRightExactly == Spec => []IrRightExactly
BY CodeInvHolds, InvIsRight, PTL

\* The programs have calls as the test suite makes them.
AllCallsWellFormed == \A p \in Programs : \A i \in 1 .. Len(p) : WellFormed(p[i])

LEMMA ProgramIsWellFormed ==
    ASSUME AllCallsWellFormed
    PROVE  Spec => [](AllWellFormed /\ CodeInv)
<1>1. Init => prog \in Programs
  BY DEF Init
<1>2. prog \in Programs /\ [Next]_vars => (prog \in Programs)'
  BY DEF Next, EmitIr, EmitOperands, vars
<1>3. prog \in Programs => AllWellFormed
  BY DEF AllCallsWellFormed, AllWellFormed
<1> QED BY <1>1, <1>2, <1>3, CodeInvHolds, PTL DEF Spec

\* For programs of any length, of IR calls and of calls of i64_emit_64 with operands
\* of the kinds in the test suite, in registers and in memory: what a processor
\* reads is what was asked for unless a call is met by a known cause, of those in
\* the resolvers of i64_emit_64. There is no further cause.
THEOREM RightWithoutCauseHolds ==
    ASSUME AllCallsWellFormed
    PROVE  Spec => []RightWithoutCause
BY ProgramIsWellFormed, InvIsRightWithoutCause, PTL

\* For the same programs: each known cause is one. A first call of i64_emit_64, or
\* first turn of tblock_ir_to_raw, that meets one is read as something else.
THEOREM CausesAreRealHolds ==
    ASSUME AllCallsWellFormed
    PROVE  Spec => []CausesAreReal
BY ProgramIsWellFormed, InvCausesAreReal, PTL
=============================================================================
