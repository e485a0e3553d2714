---------------------------- MODULE TblockProofs ----------------------------
(* Theorems about modules Tblock and TblockMeaning, for every size of a     *)
(* block, every program and every meaning of the operations.                *)
EXTENDS TblockMeaning, I64Proofs, SequenceTheorems

\* The register asm_alloc_space picks out of a nonempty pool is one of the pool.
LEMMA LowestIsIn ==
    ASSUME NEW S, S \subseteq Nat, S # {}
    PROVE  Lowest(S) \in S
<1>1. PICK i \in S : \A j \in S : ~ (<<j, i>> \in OpToRel(<, Nat))
  BY NatLessThanWellFounded, WFMin, Zenon
<1>2. \A j \in S : i <= j
  <2> SUFFICES ASSUME NEW j \in S PROVE i <= j
    OBVIOUS
  <2>1. ~ (j < i)
    BY <1>1 DEF OpToRel
  <2> QED BY <2>1
<1> QED BY <1>2, Zenon DEF Lowest

\* A block has instructions, and its frag-blocks follow each other.
LEMMA BlockSize == BlockInstrs \in Nat \ {0}
BY TblockAssumption, SMT DEF BlockInstrs

LEMMA FragStep ==
    ASSUME NEW i \in Nat
    PROVE  /\ Frag(i) \in Nat
           /\ Frag(i + 1) = Frag(i) \/ Frag(i + 1) = Frag(i) + 1
BY TblockAssumption, SMT DEF Frag

LEMMA FragEnd ==
    /\ Frag(BlockInstrs) = Frags
    /\ Frag(BlockInstrs - 1) = Frags - 1
BY TblockAssumption, SMT DEF Frag, BlockInstrs
-----------------------------------------------------------------------------
(* The tables while asm_fill_assoc works on them. *)

TabType == [over : BOOLEAN, assoc : [GuestRegs -> Assoc],
            state : [GuestRegs -> {"free", "occupied"}], spills : Nat]

TabSpills(t) ==
    \A g \in GuestRegs : t.assoc[g].used /\ t.assoc[g].spilled =>
        /\ t.assoc[g].id < t.spills
        /\ \A h \in GuestRegs :
               t.assoc[h].used /\ t.assoc[h].spilled /\ t.assoc[h].id = t.assoc[g].id => h = g

TabExclusive(t) ==
    \A g \in GuestRegs : t.assoc[g].used /\ ~t.assoc[g].spilled =>
        /\ t.assoc[g].id \in Pool[Role[g]]
        /\ t.state[t.assoc[g].id] = "occupied"
        /\ \A h \in GuestRegs :
               t.assoc[h].used /\ ~t.assoc[h].spilled /\ t.assoc[h].id = t.assoc[g].id => h = g

\* The allocation of one guest register leaves spill indices distinct and, where
\* they were, host registers exclusive.
LEMMA AllocOne ==
    ASSUME NEW t \in TabType, NEW g \in GuestRegs, TabSpills(t)
    PROVE  /\ AllocSpace(t, g) \in TabType
           /\ TabSpills(AllocSpace(t, g))
           /\ TabExclusive(t) /\ ~t.assoc[g].used => TabExclusive(AllocSpace(t, g))
<1> DEFINE u == AllocSpace(t, g)
<1>1. CASE FreeHosts(t.state, g) = {}
  <2> DEFINE a == [used |-> TRUE, spilled |-> TRUE, id |-> t.spills]
  <2>1. a \in Assoc
    BY DEF TabType, Assoc
  <2>2. u = [over |-> t.over, assoc |-> [t.assoc EXCEPT ![g] = a],
             state |-> t.state, spills |-> t.spills + 1]
    BY <1>1 DEF AllocSpace, TabType
  <2>3. u \in TabType
    BY <2>1, <2>2 DEF TabType
  <2>4. TabSpills(u)
    BY <2>1, <2>2 DEF TabSpills, TabType, Assoc
  <2>5. TabExclusive(t) => TabExclusive(u)
    BY <2>1, <2>2 DEF TabExclusive, TabType, Assoc
  <2> QED BY <2>3, <2>4, <2>5
<1>2. CASE FreeHosts(t.state, g) # {}
  <2> DEFINE h == Lowest(FreeHosts(t.state, g))
             a == [used |-> TRUE, spilled |-> FALSE, id |-> h]
  <2>1. h \in Pool[Role[g]] /\ h \in GuestRegs /\ h \in Nat /\ t.state[h] = "free"
    BY <1>2, LowestIsIn, TblockAssumption DEF FreeHosts
  <2> HIDE DEF h
  <2>2. a \in Assoc
    BY <2>1 DEF Assoc
  <2>3. u = [over |-> t.over, assoc |-> [t.assoc EXCEPT ![g] = a],
             state |-> [t.state EXCEPT ![h] = "occupied"], spills |-> t.spills]
    BY <1>2 DEF AllocSpace, TabType, h
  <2>4. u \in TabType
    BY <2>1, <2>2, <2>3 DEF TabType
  <2>5. TabSpills(u)
    BY <2>2, <2>3 DEF TabSpills, TabType, Assoc
  <2>6. TabExclusive(t) => TabExclusive(u)
    <3> SUFFICES ASSUME TabExclusive(t), NEW k \in GuestRegs,
                        u.assoc[k].used, ~u.assoc[k].spilled
                 PROVE  /\ u.assoc[k].id \in Pool[Role[k]]
                        /\ u.state[u.assoc[k].id] = "occupied"
                        /\ \A j \in GuestRegs :
                               u.assoc[j].used /\ ~u.assoc[j].spilled
                               /\ u.assoc[j].id = u.assoc[k].id => j = k
      BY DEF TabExclusive
    <3>1. \A j \in GuestRegs : u.assoc[j] = IF j = g THEN a ELSE t.assoc[j]
      BY <2>3 DEF TabType
    <3>2. \A j \in GuestRegs : u.state[j] = IF j = h THEN "occupied" ELSE t.state[j]
      BY <2>3 DEF TabType
    <3>3. u.assoc[k].id \in Pool[Role[k]]
      <4>1. CASE k = g
        BY <2>1, <3>1, <4>1
      <4>2. CASE k # g
        BY <3>1, <4>2 DEF TabExclusive
      <4> QED BY <4>1, <4>2
    <3>4. u.assoc[k].id \in GuestRegs
      BY <3>3, TblockAssumption
    <3>5. u.state[u.assoc[k].id] = "occupied"
      <4>1. CASE k = g
        BY <2>1, <3>1, <3>2, <4>1
      <4>2. CASE k # g
        BY <3>1, <3>2, <3>4, <4>2 DEF TabExclusive
      <4> QED BY <4>1, <4>2
    <3>6. ASSUME NEW j \in GuestRegs, u.assoc[j].used, ~u.assoc[j].spilled,
                 u.assoc[j].id = u.assoc[k].id
          PROVE  j = k
      <4>1. \A i \in GuestRegs : i # g /\ t.assoc[i].used /\ ~t.assoc[i].spilled
                                   => t.assoc[i].id # h
        BY <2>1 DEF TabExclusive
      <4>2. CASE j = g /\ k # g
        BY <3>1, <3>6, <4>1, <4>2
      <4>3. CASE j # g /\ k = g
        BY <3>1, <3>6, <4>1, <4>3
      <4>4. CASE j # g /\ k # g
        BY <3>1, <3>6, <4>4 DEF TabExclusive
      <4> QED BY <4>2, <4>3, <4>4
    <3> QED BY <3>3, <3>5, <3>6
  <2> QED BY <2>4, <2>5, <2>6
<1> QED BY <1>1, <1>2

\* The same of one turn of asm_fill_assoc, and of the whole call.
LEMMA FillOneKeeps ==
    ASSUME NEW t \in TabType, NEW g \in GuestRegs, TabSpills(t)
    PROVE  /\ FillOne(t, g) \in TabType
           /\ TabSpills(FillOne(t, g))
           /\ TabExclusive(t) => TabExclusive(FillOne(t, g))
<1>1. CASE t.over \/ t.assoc[g].used
  <2>1. FillOne(t, g) = [over |-> TRUE, assoc |-> t.assoc, state |-> t.state, spills |-> t.spills]
    BY <1>1 DEF FillOne, TabType
  <2> QED BY <2>1 DEF TabType, TabSpills, TabExclusive
<1>2. CASE ~(t.over \/ t.assoc[g].used)
  BY <1>2, AllocOne DEF FillOne
<1> QED BY <1>1, <1>2

LEMMA FillKeeps ==
    ASSUME NEW t \in TabType, NEW ops \in [1 .. 3 -> GuestRegs], TabSpills(t)
    PROVE  /\ FillAssoc(t, ops) \in TabType
           /\ TabSpills(FillAssoc(t, ops))
           /\ TabExclusive(t) => TabExclusive(FillAssoc(t, ops))
<1> DEFINE first == IF ops[1] = ops[2] THEN t ELSE FillOne(t, ops[1])
           second == FillOne(first, ops[2])
<1>0. ops[1] \in GuestRegs /\ ops[2] \in GuestRegs /\ ops[3] \in GuestRegs
  OBVIOUS
<1>1. first \in TabType /\ TabSpills(first) /\ (TabExclusive(t) => TabExclusive(first))
  BY <1>0, FillOneKeeps
<1> HIDE DEF first
<1>2. second \in TabType /\ TabSpills(second) /\ (TabExclusive(t) => TabExclusive(second))
  BY <1>0, <1>1, FillOneKeeps
<1>3. FillAssoc(t, ops) = FillOne(second, ops[3])
  BY DEF FillAssoc, first
<1> HIDE DEF second
<1> QED BY <1>0, <1>2, <1>3, FillOneKeeps
-----------------------------------------------------------------------------
(* The inductive invariant. *)

AllTaken(s) == \A k \in 1 .. Len(s) : TakesIr(s[k])

\* Where a pass is in the block. The IR grows by at most two entries for each
\* instruction, and the host takes each of them.
PassInv ==
    /\ pc \in {"scan", "convert"} => next < BlockInstrs
    /\ pc = "scan" => ir = <<>>
    /\ pc = "convert" => Len(ir) <= 2 * next
    /\ pc = "done" => next = 0
    /\ AllTaken(ir)

\* What has been scanned is in live, and nothing that no instruction names.
Names(g, b, i) == Frag(i) = b /\ g \in RegsOf(prog[i])

LiveInv ==
    \A g \in GuestRegs : \A b \in 0 .. LiveBits - 1 :
        /\ b \in live[g] => \E i \in 0 .. BlockInstrs - 1 : Names(g, b, i)
        /\ pc # "scan" => \A i \in 0 .. BlockInstrs - 1 : Names(g, b, i) => b \in live[g]
        /\ pc = "scan" => \A i \in 0 .. next - 1 : Names(g, b, i) => b \in live[g]

TblockInv ==
    /\ TblockTypeOK
    /\ PassInv
    /\ LiveInv
    /\ EmitsStartFresh
    /\ SpillsAreDistinct
    /\ ExclusiveWhereFresh

\* The tables of a state that satisfies the invariant.
LEMMA TablesOfInv ==
    ASSUME TblockTypeOK, SpillsAreDistinct
    PROVE  /\ Tables \in TabType
           /\ TabSpills(Tables)
<1>1. Tables \in TabType
  BY DEF Tables, TabType, TblockTypeOK
<1>2. TabSpills(Tables)
  BY DEF Tables, TabSpills, SpillsAreDistinct, Spilled
<1> QED BY <1>1, <1>2

\* What the next instruction leaves in them.
LEMMA FilledKeeps ==
    ASSUME TblockTypeOK, SpillsAreDistinct, pc = "convert", next < BlockInstrs
    PROVE  /\ Filled \in TabType
           /\ TabSpills(Filled)
           /\ TabExclusive(Tables) => TabExclusive(Filled)
<1>1. prog[next] \in Instr
  BY TblockAssumption, BlockSize DEF TblockTypeOK
<1>2. prog[next].ops \in [1 .. 3 -> GuestRegs]
  BY <1>1 DEF Instr
<1>3. Tables \in TabType /\ TabSpills(Tables)
  BY TablesOfInv
<1> QED BY <1>2, <1>3, FillKeeps DEF Filled

\* Code appended to code.
LEMMA TakenAppended ==
    ASSUME NEW s \in Seq(IrInstr), NEW t \in Seq(IrInstr), AllTaken(s), AllTaken(t)
    PROVE  s \o t \in Seq(IrInstr) /\ Len(s \o t) = Len(s) + Len(t) /\ AllTaken(s \o t)
BY DEF AllTaken

LEMMA One ==
    ASSUME NEW i \in IrInstr, TakesIr(i)
    PROVE  <<i>> \in Seq(IrInstr) /\ Len(<<i>>) = 1 /\ AllTaken(<<i>>)
BY DEF AllTaken

\* The opcodes of the guest do not have the flag of moves, and a move of the same
\* width has an opcode of its own.
LEMMA GuestOpcode ==
    ASSUME NEW op \in GuestOpcodes, op # IR_INVALID_OPCODE
    PROVE  /\ op \in Nat
           /\ IR_OPCODE_FLAGS(op) # IR_DEST_NEQ_SRC
           /\ ir_opcode_swap_group(op, "MOV") \in Nat
           /\ ir_opcode_swap_group(op, "MOV") # IR_INVALID_OPCODE
<1>1. op \in 49153 .. 49156
  BY DEF GuestOpcodes, IrOpcode, IrWidth, IrGroup
<1>2. IrGroup["MOV"] = 4103
  BY DEF IrGroup, IR_DEST_NEQ_SRC
<1> QED BY <1>1, <1>2 DEF IR_OPCODE_FLAGS, IR_DEST_NEQ_SRC, ir_opcode_swap_group, IR_INVALID_OPCODE

\* No, one or two entries are added to the IR, and each is one the host takes.
LEMMA CodeFits ==
    ASSUME TblockTypeOK, SpillsAreDistinct, pc = "convert", next < BlockInstrs
    PROVE  /\ Code \in Seq(IrInstr)
           /\ Len(Code) <= 2
           /\ AllTaken(Code)
<1>1. prog[next] \in Instr
  BY TblockAssumption, BlockSize DEF TblockTypeOK
<1>2. Filled.assoc \in [GuestRegs -> Assoc]
  BY FilledKeeps DEF TabType
<1> DEFINE f == FixInstr(Filled.assoc, prog[next].ops)
           left == IrCapacity - Len(ir)
<1>3. f[1] \in Nat /\ f[2] \in Nat /\ f[3] \in Nat
  <2>1. \A k \in 1 .. 3 : Filled.assoc[prog[next].ops[k]].id \in Nat
    BY <1>1, <1>2 DEF Assoc, Instr
  <2> QED BY <2>1 DEF FixInstr
<1> DEFINE op == prog[next].opcode
           mov == Mov(op, <<f[1], f[2]>>)
           fold == Fold(op, <<f[1], f[1], f[3]>>)
<1>4. op # IR_INVALID_OPCODE =>
        \/ ExpandInstr(op, f, left) = <<>>
        \/ ExpandInstr(op, f, left) = <<>> \o <<fold>>
        \/ ExpandInstr(op, f, left) = <<mov>> \o <<fold>> /\ f[1] # f[2]
  BY DEF ExpandInstr
<1>5. op # IR_INVALID_OPCODE =>
        /\ op \in Nat /\ IR_OPCODE_FLAGS(op) # IR_DEST_NEQ_SRC
        /\ mov.opcode \in Nat /\ mov.opcode # IR_INVALID_OPCODE
  BY <1>1, GuestOpcode DEF Instr, Mov
<1>6. Code = <<>> \/ (op # IR_INVALID_OPCODE /\ Code = ExpandInstr(op, f, left))
  BY DEF Code
<1>11. op # IR_INVALID_OPCODE =>
        /\ fold \in IrInstr /\ TakesIr(fold)
        /\ mov \in IrInstr /\ (f[1] # f[2] => TakesIr(mov))
  BY <1>3, <1>5 DEF IrInstr, TakesIr, Mov, Fold
<1> HIDE DEF f, left, mov, fold, op
<1> DEFINE Good(s) == s \in Seq(IrInstr) /\ Len(s) <= 2 /\ AllTaken(s)
<1>7. Good(<<>>)
  BY DEF AllTaken
<1>8. op # IR_INVALID_OPCODE => Good(<<>> \o <<fold>>)
  BY <1>11, One, TakenAppended, <1>7
<1>9. ASSUME op # IR_INVALID_OPCODE, f[1] # f[2]
      PROVE  Good(<<mov>> \o <<fold>>)
  <2>1. <<mov>> \in Seq(IrInstr) /\ Len(<<mov>>) = 1 /\ AllTaken(<<mov>>)
    BY <1>9, <1>11, One
  <2>2. <<fold>> \in Seq(IrInstr) /\ Len(<<fold>>) = 1 /\ AllTaken(<<fold>>)
    BY <1>9, <1>11, One
  <2>3. Len(<<mov>> \o <<fold>>) = Len(<<mov>>) + Len(<<fold>>)
    BY <2>1, <2>2, TakenAppended
  <2>4. <<mov>> \o <<fold>> \in Seq(IrInstr) /\ AllTaken(<<mov>> \o <<fold>>)
    BY <2>1, <2>2, TakenAppended
  <2> QED BY <2>1, <2>2, <2>3, <2>4
<1> HIDE DEF Good
<1>10. Good(Code)
  BY <1>4, <1>6, <1>7, <1>8, <1>9, Zenon
<1> QED BY <1>10 DEF Good

\* A step of asm_flush_by_liveness for a frag-block past the bits of the
\* liveness, as the last one is, empties the tables.
LEMMA FlushBeyondBits ==
    ASSUME TblockTypeOK, NEW b \in Nat, LiveBits <= b
    PROVE  \A g \in GuestRegs : Dead(g, b)
BY TblockAssumption DEF TblockTypeOK, Dead

LEMMA InitInv == Init => TblockInv
<1> SUFFICES ASSUME Init PROVE TblockInv
  OBVIOUS
<1>1. NoAssoc \in Assoc /\ ~NoAssoc.used
  BY DEF NoAssoc, Assoc
<1>2. TblockTypeOK
  BY <1>1 DEF Init, TblockTypeOK
<1>3. PassInv
  BY BlockSize DEF Init, PassInv, AllTaken
<1>4. LiveInv
  BY DEF Init, LiveInv
<1>5. EmitsStartFresh
  BY DEF Init, EmitsStartFresh
<1>6. SpillsAreDistinct
  BY <1>1 DEF Init, SpillsAreDistinct, Spilled
<1>7. ExclusiveWhereFresh
  BY DEF Init, ExclusiveWhereFresh
<1> QED BY <1>2, <1>3, <1>4, <1>5, <1>6, <1>7 DEF TblockInv

LEMMA ScanInv ==
    ASSUME TblockInv, Scan
    PROVE  TblockInv'
<1> USE DEF TblockInv
<1>1. next + 1 <= BlockInstrs /\ next \in Nat /\ pc = "scan"
  BY BlockSize DEF TblockTypeOK, PassInv, Scan, Advance
<1>2. ASSUME NEW g \in GuestRegs, NEW b \in 0 .. LiveBits - 1
      PROVE  b \in live'[g] <=> b \in live[g] \/ Names(g, b, next)
  <2>1. live'[g] = IF g \in RegsOf(prog[next]) /\ Frag(next) < LiveBits
                   THEN live[g] \cup {Frag(next)} ELSE live[g]
    BY DEF Scan
  <2>2. b < LiveBits
    BY TblockAssumption
  <2> QED BY <2>1, <2>2 DEF Names
<1>3. TblockTypeOK'
  <2>1. Frag(next) \in Nat
    BY <1>1, FragStep
  <2>2. live' \in [GuestRegs -> SUBSET (0 .. LiveBits - 1)]
    BY <2>1, TblockAssumption DEF TblockTypeOK, Scan
  <2> QED BY <2>2 DEF TblockTypeOK, Scan, Advance
<1>4. PassInv'
  BY <1>1, BlockSize DEF PassInv, Scan, Advance, AllTaken
<1>5. LiveInv'
  <2> SUFFICES ASSUME NEW g \in GuestRegs, NEW b \in 0 .. LiveBits - 1
               PROVE  /\ b \in live'[g] => \E i \in 0 .. BlockInstrs - 1 : Names(g, b, i)
                      /\ \A i \in 0 .. next : Names(g, b, i) => b \in live'[g]
    BY <1>1, BlockSize DEF LiveInv, Scan, Advance, Names
  <2>1. next \in 0 .. BlockInstrs - 1
    BY <1>1, BlockSize
  <2>2. b \in live'[g] => \E i \in 0 .. BlockInstrs - 1 : Names(g, b, i)
    BY <1>2, <2>1, Zenon DEF LiveInv
  <2>3. \A i \in 0 .. next - 1 : Names(g, b, i) => b \in live[g]
    BY <1>1 DEF LiveInv
  <2>4. \A i \in 0 .. next : i \in 0 .. next - 1 \/ i = next
    BY <1>1
  <2>5. \A i \in 0 .. next : Names(g, b, i) => b \in live'[g]
    BY <1>2, <2>3, <2>4, Zenon
  <2> QED BY <2>2, <2>5
<1>6. EmitsStartFresh' /\ SpillsAreDistinct'
  BY <1>1 DEF EmitsStartFresh, SpillsAreDistinct, Spilled, Scan, Advance
<1>7. ExclusiveWhereFresh'
  <2>1. \A g \in GuestRegs : ~Resident(g)'
    BY <1>1 DEF EmitsStartFresh, NoAssoc, Resident, Scan
  <2> QED BY <2>1 DEF ExclusiveWhereFresh
<1> QED BY <1>3, <1>4, <1>5, <1>6, <1>7

LEMMA ConvertInv ==
    ASSUME TblockInv, Convert
    PROVE  TblockInv'
<1> USE DEF TblockInv
<1>1. next < BlockInstrs /\ next \in Nat /\ pc = "convert"
  BY DEF TblockTypeOK, PassInv, Convert, Advance
<1>2. /\ Filled \in TabType
      /\ TabSpills(Filled)
      /\ TabExclusive(Tables) => TabExclusive(Filled)
  BY <1>1, FilledKeeps
<1>3. NoAssoc \in Assoc /\ NoAssoc.used = FALSE
  BY DEF NoAssoc, Assoc
<1>4. \A g \in GuestRegs :
          /\ assoc'[g] = IF Crosses /\ Dead(g, Frag(next)) THEN NoAssoc ELSE Filled.assoc[g]
          /\ state'[g] = IF Crosses /\ Dead(g, Frag(next)) THEN "free" ELSE Filled.state[g]
  BY DEF Convert, FlushAssoc, FlushState
<1>5. Frag(next) \in Nat /\ (Crosses => Frag(next + 1) = Frag(next) + 1)
  BY <1>1, FragStep DEF Crosses
<1>6. Crosses /\ LiveBits <= Frag(next) =>
          \A g \in GuestRegs : assoc'[g] = NoAssoc /\ state'[g] = "free"
  BY <1>4, <1>5, FlushBeyondBits
<1>7. TblockTypeOK'
  <2>1. assoc' \in [GuestRegs -> Assoc]
    BY <1>2, <1>3 DEF Convert, FlushAssoc, TabType
  <2>2. state' \in [GuestRegs -> {"free", "occupied"}]
    BY <1>2 DEF Convert, FlushState, TabType
  <2>3. ir' \in Seq(IrInstr)
    BY <1>1, CodeFits DEF Convert, TblockTypeOK
  <2>4. spillCnt' \in Nat
    BY <1>2 DEF Convert, TabType
  <2> QED BY <2>1, <2>2, <2>3, <2>4 DEF TblockTypeOK, Convert, Advance
<1>8. PassInv'
  <2>1. Len(ir') <= 2 * next + 2 /\ AllTaken(ir')
    BY <1>1, CodeFits, TakenAppended DEF Convert, PassInv, TblockTypeOK
  <2> QED BY <1>1, <2>1, BlockSize DEF PassInv, Convert, Advance, AllTaken
<1>9. LiveInv'
  BY <1>1 DEF LiveInv, Convert, Advance, Names
<1>10. EmitsStartFresh'
  <2>1. CASE next + 1 = BlockInstrs
    <3>1. Crosses /\ LiveBits <= Frag(next)
      <4>1. next = BlockInstrs - 1
        BY <1>1, <2>1, BlockSize
      <4> QED BY <2>1, <4>1, FragEnd, TblockAssumption DEF Crosses
    <3> QED BY <1>6, <3>1 DEF EmitsStartFresh
  <2>2. CASE next + 1 # BlockInstrs
    BY <1>1, <2>2 DEF EmitsStartFresh, Convert, Advance
  <2> QED BY <2>1, <2>2
<1>11. SpillsAreDistinct'
  <2> SUFFICES ASSUME NEW g \in GuestRegs, Spilled(g)'
               PROVE  /\ assoc'[g].id < spillCnt'
                      /\ \A h \in GuestRegs : Spilled(h)' /\ assoc'[h].id = assoc'[g].id => h = g
    BY DEF SpillsAreDistinct
  <2>1. \A h \in GuestRegs : Spilled(h)' =>
            /\ assoc'[h] = Filled.assoc[h]
            /\ Filled.assoc[h].used /\ Filled.assoc[h].spilled
    BY <1>3, <1>4 DEF Spilled
  <2>2. spillCnt' = Filled.spills
    BY DEF Convert
  <2> QED BY <1>2, <2>1, <2>2 DEF TabSpills
<1>12. ExclusiveWhereFresh'
  <2> SUFFICES ASSUME pc' = "convert", Frag(next)' = 0 \/ Frag(next)' > LiveBits,
                      NEW g \in GuestRegs, Resident(g)'
               PROVE  /\ assoc'[g].id \in Pool[Role[g]]
                      /\ state'[assoc'[g].id] = "occupied"
                      /\ \A h \in GuestRegs : Resident(h)' /\ assoc'[h].id = assoc'[g].id => h = g
    BY DEF ExclusiveWhereFresh
  <2>1. Frag(next)' = Frag(next + 1)
    BY DEF Convert, Advance, Frag
  <2>2. ~Crosses
    <3> SUFFICES ASSUME Crosses PROVE FALSE
      OBVIOUS
    <3>1. LiveBits <= Frag(next)
      BY <1>5, <2>1, TblockAssumption
    <3> QED BY <1>3, <1>6, <3>1 DEF Resident
  <2>3. TabExclusive(Tables)
    BY <1>1, <2>1, <2>2 DEF ExclusiveWhereFresh, Crosses, TabExclusive, Tables, Resident
  <2>4. TabExclusive(Filled)
    BY <1>2, <2>3
  <2>5. assoc' = Filled.assoc /\ state' = Filled.state
    BY <2>2 DEF Convert
  <2> QED BY <2>4, <2>5 DEF TabExclusive, Resident
<1> QED BY <1>7, <1>8, <1>9, <1>10, <1>11, <1>12

\* The third pass does not write the tables, and starts with empty ones.
LEMMA EmitInv ==
    ASSUME TblockInv, Prologue \/ EmitInstr \/ EmitReturns \/ EmitAgain
    PROVE  TblockInv'
<1> USE DEF TblockInv
<1>1. pc \in {"prologue", "body", "done"} /\ pc' \in {"body", "done", "scan"}
  BY DEF Prologue, EmitInstr, EmitReturns, EmitAgain
<1>2. UNCHANGED <<prog, live, assoc, state>>
  BY DEF Prologue, EmitInstr, EmitReturns, EmitAgain
<1>3. ir' = ir \/ ir' = <<>>
  BY DEF Prologue, EmitInstr, EmitReturns, EmitAgain
<1>4. \A g \in GuestRegs : ~Spilled(g)' /\ ~Resident(g)'
  BY <1>1, <1>2 DEF EmitsStartFresh, NoAssoc, Spilled, Resident
<1>5. TblockTypeOK'
  <2>1. CASE EmitInstr
    <3>1. next + 1 \in 1 .. Len(ir) /\ ir[next + 1] \in IrInstr
      BY <2>1 DEF EmitInstr, TblockTypeOK
    <3>3. host' \in Seq(IrInstr)
      BY <2>1, <3>1 DEF EmitInstr, TblockTypeOK
    <3> QED BY <2>1, <3>3 DEF EmitInstr, TblockTypeOK
  <2>2. CASE Prologue
    BY <2>2 DEF Prologue, TblockTypeOK
  <2>3. CASE EmitReturns
    BY <2>3 DEF EmitReturns, TblockTypeOK
  <2>4. CASE EmitAgain
    BY <2>4 DEF EmitAgain, TblockTypeOK
  <2> QED BY <2>1, <2>2, <2>3, <2>4
<1>6. pc' \in {"scan", "done"} => next' = 0
  BY DEF PassInv, Prologue, EmitInstr, EmitReturns, EmitAgain
<1>7. PassInv'
  <2>1. pc' = "scan" => ir' = <<>>
    BY <1>1 DEF Prologue, EmitInstr, EmitReturns, EmitAgain
  <2>2. AllTaken(ir')
    BY <1>3 DEF PassInv, AllTaken
  <2> QED BY <1>1, <1>6, <2>1, <2>2, BlockSize DEF PassInv, AllTaken
<1>8. LiveInv'
  <2>1. \A g \in GuestRegs : \A b \in 0 .. LiveBits - 1 :
            /\ b \in live[g] => \E i \in 0 .. BlockInstrs - 1 : Names(g, b, i)
            /\ \A i \in 0 .. BlockInstrs - 1 : Names(g, b, i) => b \in live[g]
    BY <1>1 DEF LiveInv
  <2>2. pc' = "scan" => 0 .. next' - 1 = {}
    BY <1>6
  <2> QED BY <1>2, <2>1, <2>2 DEF LiveInv, Names
<1>9. EmitsStartFresh'
  BY <1>1, <1>2 DEF EmitsStartFresh
<1>10. SpillsAreDistinct'
  BY <1>4 DEF SpillsAreDistinct
<1>11. ExclusiveWhereFresh'
  BY <1>4 DEF ExclusiveWhereFresh
<1> QED BY <1>5, <1>7, <1>8, <1>9, <1>10, <1>11

LEMMA StutterInv ==
    ASSUME TblockInv, UNCHANGED vars
    PROVE  TblockInv'
BY DEF TblockInv, vars, TblockTypeOK, PassInv, AllTaken, LiveInv, Names,
    EmitsStartFresh, SpillsAreDistinct, Spilled, ExclusiveWhereFresh, Resident, Frag

\* The invariant of tblock_emit, called any number of times for a block.
THEOREM TblockInvHolds == Spec => []TblockInv
<1>1. TblockInv /\ [Next]_vars => TblockInv'
  BY ScanInv, ConvertInv, EmitInv, StutterInv DEF Next
<1> QED BY InitInv, <1>1, PTL DEF Spec

\* The variables of a translation block keep their types: the bits of the
\* liveness are those of its u8.
THEOREM TblockTypes == Spec => []TblockTypeOK
<1>1. TblockInv => TblockTypeOK
  BY DEF TblockInv
<1> QED BY TblockInvHolds, <1>1, PTL

\* asm_expand_instr always has the two entries it may need, for every block with
\* a buffer of two entries per instruction.
THEOREM IrBufferSufficesHolds == Spec => []IrBufferSuffices
<1>1. TblockInv => IrBufferSuffices
  <2> SUFFICES ASSUME TblockInv, pc = "convert" PROVE IrCapacity - Len(ir) > 1
    BY DEF IrBufferSuffices
  <2>1. Len(ir) <= 2 * next /\ next < BlockInstrs /\ next \in Nat /\ Len(ir) \in Nat
    BY DEF TblockInv, PassInv, TblockTypeOK
  <2> QED BY <2>1, BlockSize, TblockAssumption
<1> QED BY TblockInvHolds, <1>1, PTL

\* The assertions of the third pass hold of the IR the second has written, for
\* every allocation of registers.
THEOREM NoAssertionFiresHolds == Spec => []NoAssertionFires
<1>1. TblockInv => NoAssertionFires
  <2> SUFFICES ASSUME TblockInv, pc = "body", next < Len(ir) PROVE TakesIr(ir[next + 1])
    BY DEF NoAssertionFires
  <2>1. next + 1 \in 1 .. Len(ir)
    BY DEF TblockInv, TblockTypeOK
  <2> QED BY <2>1 DEF TblockInv, PassInv, AllTaken
<1> QED BY TblockInvHolds, <1>1, PTL

\* tblock_emit leaves the register tables empty, because the last frag-block has
\* no bit in the liveness: a block that is emitted again starts as a new one.
THEOREM EmitsStartFreshHolds == Spec => []EmitsStartFresh
<1>1. TblockInv => EmitsStartFresh
  BY DEF TblockInv
<1> QED BY TblockInvHolds, <1>1, PTL

\* tblock_liveness_scan finds the registers of each frag-block with a bit, in
\* every one of its runs.
THEOREM LiveIsUsedHolds == Spec => []LiveIsUsed
<1>1. TblockInv => LiveIsUsed
  BY Zenon DEF TblockInv, LiveInv, LiveIsUsed, Names
<1> QED BY TblockInvHolds, <1>1, PTL

\* No two guest registers are spilled to one index by asm_fill_assoc.
THEOREM SpillsAreDistinctHolds == Spec => []SpillsAreDistinct
<1>1. TblockInv => SpillsAreDistinct
  BY DEF TblockInv
<1> QED BY TblockInvHolds, <1>1, PTL

\* asm_alloc_space gives no host register to two guest registers in a
\* frag-block that begins with empty tables.
THEOREM ExclusiveWhereFreshHolds == Spec => []ExclusiveWhereFresh
<1>1. TblockInv => ExclusiveWhereFresh
  BY DEF TblockInv
<1> QED BY TblockInvHolds, <1>1, PTL
-----------------------------------------------------------------------------
(* What the code of a block computes, for every meaning of the operations. *)

\* What the passes get to know of an assembled instruction.
LEMMA AssembledIs ==
    ASSUME NEW a \in AsmInstr
    PROVE  LET i == GuestInstr(Assembled(a)) IN
           /\ i.opcode = IF a.name \in Folded THEN IrOpcode(a.name, "I32") ELSE IR_INVALID_OPCODE
           /\ i.fetched <=> a.name # "NOP"
           /\ i.ops[1] = a.rd /\ i.ops[2] = a.rs /\ i.ops[3] = a.rt
<1> DEFINE w == Assembled(a)
           f == Funct[a.name]
<1>1. a.rd \in 0 .. 31 /\ a.rs \in 0 .. 31 /\ a.rt \in 0 .. 31
  BY SourcesAssumption DEF AsmInstr
<1>2. a.name \in {"ADD", "SUB", "AND", "OR", "XOR", "NOP"} /\ f \in 0 .. 63
  BY DEF AsmInstr, Funct
<1>3. w.hi = 32 * a.rs + a.rt /\ w.lo = 2048 * a.rd + f
  BY DEF Assembled
<1> HIDE DEF w, f
<1>4. _mips32_funct(w) = f
  BY <1>1, <1>2, <1>3 DEF _mips32_funct
<1>5. _mips32_rd(w) = a.rd
  BY <1>1, <1>2, <1>3 DEF _mips32_rd
<1>6. _mips32_rt(w) = a.rt
  BY <1>1, <1>3 DEF _mips32_rt
<1>7. _mips32_rs(w) = a.rs
  BY <1>1, <1>3 DEF _mips32_rs
<1>8. InstrType(w) = "R"
  <2>1. _mips32_opcode(w) = 0
    BY <1>1, <1>3 DEF _mips32_opcode
  <2> QED BY <2>1 DEF InstrType
<1>9. Regs(w) = <<IrReg(a.rd), IrReg(a.rs), IrReg(a.rt)>>
  BY <1>5, <1>6, <1>7 DEF Regs
<1>10. MIPS32_TO_IR_TABLE(f)
         = IF a.name \in Folded THEN IrOpcode(a.name, "I32") ELSE IR_INVALID_OPCODE
  BY <1>2 DEF MIPS32_TO_IR_TABLE, Folded, f, Funct
<1>11. f # 0 <=> a.name # "NOP"
  BY <1>2 DEF f, Funct
<1>12. mips32_reg_fetch(w) # <<>> <=> a.name # "NOP"
  BY <1>4, <1>8, <1>9, <1>11 DEF mips32_reg_fetch
<1>13. mips32_to_ir(w) = [opcode |-> MIPS32_TO_IR_TABLE(f), ops |-> Regs(w)]
  BY <1>4 DEF mips32_to_ir, IrInstrOf
<1> DEFINE i == GuestInstr(w)
<1>14. i.opcode = MIPS32_TO_IR_TABLE(f)
  BY <1>13 DEF GuestInstr
<1>15. i.fetched = (mips32_reg_fetch(w) # <<>>)
  BY Zenon DEF GuestInstr
<1>16. i.ops[1] = a.rd /\ i.ops[2] = a.rs /\ i.ops[3] = a.rt
  BY <1>9, <1>13 DEF GuestInstr, IrReg
<1> HIDE DEF i
<1> QED BY <1>10, <1>12, <1>14, <1>15, <1>16, Zenon DEF i, w

\* What HostBytes has of an entry of the IR, and what a processor reads there.
ToHost(i) == IrInstrOf(i.opcode, [k \in DOMAIN i.ops |-> IrReg(i.ops[k])])
HostInstr(i) == Decoded(i64_ir_to_raw(ToHost(i)))

\* An entry of group g on the host registers d and s, either both below r8 or
\* both not.
IsEntry(i, g, d, s) == IsIrInstr(ToHost(i), g, d, s) /\ (Extended(d) <=> Extended(s))
Readable(i) == \E g, d, s : IsEntry(i, g, d, s)

LEMMA EntryIsRead ==
    ASSUME NEW i, NEW g, NEW d, NEW s, IsEntry(i, g, d, s)
    PROVE  /\ i64_ir_to_raw(ToHost(i)) \in Seq(Byte) /\ Len(i64_ir_to_raw(ToHost(i))) = 3
           /\ \A c \in Seq(Byte) : Begins(c, i64_ir_to_raw(ToHost(i))) => Decoded(c) = HostInstr(i)
           /\ HostInstr(i) = [op |-> Operation[g], width |-> 64, len |-> 3,
                              ops |-> <<RegRead(d), RegRead(s)>>]
<1> DEFINE raw == i64_ir_to_raw(ToHost(i))
<1>1. IsIrInstr(ToHost(i), g, d, s) /\ d \in 0 .. 15 /\ s \in 0 .. 15
  BY DEF IsEntry, IsIrInstr
<1>2. raw \in Seq(Byte) /\ Len(raw) = 3
  BY <1>1, IrInstrWrites
<1>3. ReadBack(d, s) = <<RegRead(d), RegRead(s)>>
  BY <1>1, ReadBackIsRight DEF IsEntry
<1>4. ASSUME NEW c \in Seq(Byte), Begins(c, raw)
      PROVE  Decoded(c) = [op |-> Operation[g], width |-> 64, len |-> 3,
                           ops |-> <<RegRead(d), RegRead(s)>>]
  BY <1>1, <1>3, <1>4, IrInstrIsRead
<1> HIDE DEF raw
<1>5. Begins(raw, raw)
  BY <1>2 DEF Begins
<1> QED BY <1>2, <1>4, <1>5, Zenon DEF HostInstr, raw

\* The machine's step for it.
Moved(w, d, s) == IF d = s THEN w ELSE [w EXCEPT ![d] = w[s]]
Combined(w, op, d, s) == [w EXCEPT ![d] = Apply(op, w[d], w[s])]

LEMMA EntryStep ==
    ASSUME NEW i, NEW g, NEW d, NEW s, IsEntry(i, g, d, s), NEW v
    PROVE  /\ g = "MOV" => HostStep(v, HostInstr(i)) = Moved(v, d, s)
           /\ g # "MOV" => HostStep(v, HostInstr(i)) = Combined(v, Operation[g], d, s)
<1> DEFINE instr == HostInstr(i)
<1>1. instr.op = Operation[g] /\ instr.width = 64 /\ instr.ops = <<RegRead(d), RegRead(s)>>
  BY EntryIsRead
<1>2. /\ instr.ops[1].kind = "reg" /\ instr.ops[2].kind = "reg"
      /\ instr.ops[1].id = d /\ instr.ops[2].id = s
  BY <1>1 DEF RegRead
<1>3. g \in Folded \cup {"MOV"}
  BY DEF IsEntry, IsIrInstr
<1>4. Operation[g] = Operation["MOV"] <=> g = "MOV"
  BY <1>3 DEF Operation, Folded
<1> HIDE DEF instr
<1>5. \A k \in 1 .. 2 : instr.ops[k].kind = "reg"
  <2>1. \A k \in 1 .. 2 : k = 1 \/ k = 2
    OBVIOUS
  <2> QED BY <1>2, <2>1, Zenon
<1>6. HostStep(v, instr)
        = [v EXCEPT ![d] = IF instr.op = Operation["MOV"] THEN v[s] ELSE Apply(instr.op, v[d], v[s])]
  BY <1>1, <1>2, <1>5, Zenon DEF HostStep
<1>7. CASE g = "MOV"
  <2>1. d # s
    BY <1>7 DEF IsEntry, IsIrInstr
  <2> QED BY <1>1, <1>4, <1>6, <1>7, <2>1, Zenon DEF Moved, instr
<1>8. CASE g # "MOV"
  BY <1>1, <1>4, <1>6, <1>8, Zenon DEF Combined, instr
<1> QED BY <1>7, <1>8

\* A list of guest registers v, and one of host registers w that was w0 before the
\* block, when the guest registers have the homes h: the same values, in other
\* host registers what was there before, and registers without a home untouched.
Homes(h) ==
    /\ h \in [GuestRegs -> -1 .. 15]
    /\ \A g, k \in GuestRegs : h[g] = h[k] /\ h[g] # -1 => g = k

Holds(v, w, w0, h) ==
    /\ v = [g \in GuestRegs |-> v[g]]
    /\ w = [x \in 0 .. 15 |-> w[x]]
    /\ \A g \in GuestRegs : v[g] = IF h[g] = -1 THEN Start(g) ELSE w[h[g]]
    /\ \A x \in 0 .. 15 : (\A g \in GuestRegs : h[g] # x) => w[x] = w0[x]

\* More homes for registers that are still in place.
LEMMA HoldsMoreHomes ==
    ASSUME NEW v, NEW w, NEW w0, NEW h, Homes(h), Holds(v, w, w0, h),
           NEW k, Homes(k), \A g \in GuestRegs : h[g] # -1 => k[g] = h[g],
           \A g \in GuestRegs : k[g] # -1 => w0[k[g]] = Start(g)
    PROVE  Holds(v, w, w0, k)
<1>1. ASSUME NEW g \in GuestRegs PROVE v[g] = IF k[g] = -1 THEN Start(g) ELSE w[k[g]]
  <2>1. v[g] = IF h[g] = -1 THEN Start(g) ELSE w[h[g]]
    BY DEF Holds
  <2>2. CASE h[g] # -1
    BY <2>1, <2>2
  <2>3. CASE h[g] = -1 /\ k[g] = -1
    BY <2>1, <2>3
  <2>4. CASE h[g] = -1 /\ k[g] # -1
    <3>1. k[g] \in 0 .. 15
      BY <2>4 DEF Homes
    <3>2. \A j \in GuestRegs : h[j] # k[g]
      <4> SUFFICES ASSUME NEW j \in GuestRegs, h[j] = k[g] PROVE FALSE
        OBVIOUS
      <4>1. k[j] = k[g]
        BY <2>4
      <4>2. j = g
        BY <2>4, <4>1 DEF Homes
      <4> QED BY <2>4, <4>2
    <3>3. w[k[g]] = w0[k[g]]
      BY <3>1, <3>2 DEF Holds
    <3> QED BY <2>1, <2>4, <3>3
  <2> QED BY <2>2, <2>3, <2>4
<1>2. ASSUME NEW x \in 0 .. 15, \A g \in GuestRegs : k[g] # x PROVE w[x] = w0[x]
  <2>1. \A g \in GuestRegs : h[g] # x
    <3> SUFFICES ASSUME NEW g \in GuestRegs, h[g] = x PROVE FALSE
      OBVIOUS
    <3>1. h[g] # -1
      OBVIOUS
    <3> QED BY <1>2, <3>1
  <2> QED BY <2>1 DEF Holds
<1>3. v = [g \in GuestRegs |-> v[g]] /\ w = [x \in 0 .. 15 |-> w[x]]
  BY Zenon DEF Holds
<1> QED BY <1>1, <1>2, <1>3, Zenon DEF Holds

\* An instruction on registers that have homes, in one or two host instructions:
\* the move may overwrite the second source only if it is the first as well.
LEMMA HoldsAfter ==
    ASSUME NEW v, NEW w, NEW w0, NEW h, Homes(h), Holds(v, w, w0, h), NEW op,
           NEW rd \in GuestRegs, NEW rs \in GuestRegs, NEW rt \in GuestRegs,
           h[rd] # -1, h[rs] # -1, h[rt] # -1, rd = rt => rd = rs
    PROVE  Holds([v EXCEPT ![rd] = Apply(op, v[rs], v[rt])],
                 Combined(Moved(w, h[rd], h[rs]), op, h[rd], h[rt]), w0, h)
<1> DEFINE d == h[rd]
           s == h[rs]
           t == h[rt]
           m == Moved(w, d, s)
           z == Apply(op, v[rs], v[rt])
           u == [v EXCEPT ![rd] = z]
           c == Combined(m, op, d, t)
<1>1. d \in 0 .. 15 /\ s \in 0 .. 15 /\ t \in 0 .. 15
  BY DEF Homes
<1>2. v = [g \in GuestRegs |-> v[g]] /\ w = [x \in 0 .. 15 |-> w[x]]
  BY Zenon DEF Holds
<1>3. v[rs] = w[s] /\ v[rt] = w[t]
  BY Zenon DEF Holds
<1>4. DOMAIN v = GuestRegs /\ DOMAIN w = 0 .. 15
  BY <1>2, Zenon
<1>5. \A g \in GuestRegs : v[g] = IF h[g] = -1 THEN Start(g) ELSE w[h[g]]
  BY Zenon DEF Holds
<1>6. \A g \in GuestRegs : h[g] # -1 => h[g] \in 0 .. 15 /\ (h[g] = d => g = rd)
  BY DEF Homes
<1>7. m = [x \in 0 .. 15 |-> IF x = d THEN w[s] ELSE w[x]]
  BY <1>1, <1>2, <1>4 DEF Moved
<1>8. m[d] = w[s] /\ m[t] = w[t]
  <2>1. m[d] = w[s]
    BY <1>1, <1>7
  <2>2. CASE t = d
    <3>1. rt = rd /\ rd = rs
      BY <1>6, <2>2
    <3> QED BY <2>1, <2>2, <3>1
  <2>3. CASE t # d
    BY <1>1, <1>7, <2>3
  <2> QED BY <2>1, <2>2, <2>3
<1> HIDE DEF m
<1>9. c = [x \in 0 .. 15 |-> IF x = d THEN z ELSE w[x]]
  <2>1. m = [x \in 0 .. 15 |-> m[x]] /\ DOMAIN m = 0 .. 15
    BY <1>7, Zenon
  <2>2. Apply(op, m[d], m[t]) = z
    BY <1>3, <1>8, Zenon
  <2>3. c = [m EXCEPT ![d] = z]
    BY <2>2, Zenon DEF Combined
  <2> HIDE DEF c, z, d
  <2>4. c = [x \in 0 .. 15 |-> IF x = d THEN z ELSE m[x]]
    BY <2>1, <2>3, Zenon
  <2>5. \A x \in 0 .. 15 : x # d => m[x] = w[x]
    BY <1>7, Zenon
  <2> QED BY <2>4, <2>5, Zenon
<1>10. u = [g \in GuestRegs |-> IF g = rd THEN z ELSE v[g]]
  BY <1>4, Zenon
<1> HIDE DEF c, u, z
<1>11. ASSUME NEW g \in GuestRegs PROVE u[g] = IF h[g] = -1 THEN Start(g) ELSE c[h[g]]
  <2>1. CASE g = rd
    BY <1>1, <1>9, <1>10, <2>1
  <2>2. CASE g # rd /\ h[g] = -1
    BY <1>5, <1>10, <2>2
  <2>3. CASE g # rd /\ h[g] # -1
    <3>1. h[g] \in 0 .. 15 /\ h[g] # d
      BY <1>6, <2>3
    <3> QED BY <1>5, <1>9, <1>10, <2>3, <3>1
  <2> QED BY <2>1, <2>2, <2>3
<1>12. ASSUME NEW x \in 0 .. 15, \A g \in GuestRegs : h[g] # x PROVE c[x] = w0[x]
  <2>1. x # d
    BY <1>12
  <2>2. w[x] = w0[x]
    BY <1>12 DEF Holds
  <2> QED BY <1>9, <2>1, <2>2
<1>13. u = [g \in GuestRegs |-> u[g]] /\ c = [x \in 0 .. 15 |-> c[x]]
  BY <1>9, <1>10, Zenon
<1>14. Holds(u, c, w0, h)
  BY <1>11, <1>12, <1>13, Zenon DEF Holds
<1> QED BY <1>14, Zenon DEF u, c, z, m

\* The guest registers before and after each instruction of a program, and the
\* host registers before and after each entry of the IR, when the guest
\* registers with a home are there at first.
GuestTrace(r, src) ==
    /\ r[0] = [g \in GuestRegs |-> Start(g)]
    /\ \A i \in 1 .. BlockInstrs : r[i] = GuestStep(r[i - 1], src[i - 1])

HostTrace(t, code, h) ==
    /\ t[0] = [x \in 0 .. 15 |-> t[0][x]]
    /\ \A g \in GuestRegs : h[g] # -1 => t[0][h[g]] = Start(g)
    /\ \A i \in 1 .. Len(code) : t[i] = HostStep(t[i - 1], HostInstr(code[i]))

\* The code does what the first n instructions of the program do.
Computes(n, src, code, h) ==
    /\ Homes(h)
    /\ \A i \in 1 .. Len(code) : Readable(code[i])
    /\ \A r, t : GuestTrace(r, src) /\ HostTrace(t, code, h)
                   => Holds(r[n], t[Len(code)], t[0], h)

LEMMA ComputesNothing ==
    ASSUME NEW src
    PROVE  Computes(0, src, <<>>, Homeless)
<1>1. \A g \in GuestRegs : Homeless[g] = -1
  BY DEF Homeless
<1>2. Homes(Homeless)
  BY <1>1 DEF Homes, Homeless
<1>3. ASSUME NEW r, NEW t, GuestTrace(r, src), HostTrace(t, <<>>, Homeless)
      PROVE  Holds(r[0], t[0], t[0], Homeless)
  <2>1. r[0] = [g \in GuestRegs |-> Start(g)] /\ t[0] = [x \in 0 .. 15 |-> t[0][x]]
    BY <1>3, Zenon DEF GuestTrace, HostTrace
  <2>2. r[0] = [g \in GuestRegs |-> r[0][g]] /\ \A g \in GuestRegs : r[0][g] = Start(g)
    BY <2>1, Zenon
  <2> QED BY <1>1, <2>1, <2>2, Zenon DEF Holds
<1>4. Len(<<>>) = 0 /\ \A i \in 1 .. 0 : FALSE
  OBVIOUS
<1> QED BY <1>2, <1>3, <1>4, Zenon DEF Computes

\* An instruction that does nothing needs no code.
LEMMA ComputesNop ==
    ASSUME NEW src, NEW n \in 0 .. BlockInstrs - 1, NEW code, NEW h,
           Computes(n, src, code, h), src[n].name = "NOP"
    PROVE  Computes(n + 1, src, code, h)
<1>1. n + 1 \in 1 .. BlockInstrs /\ (n + 1) - 1 = n
  BY BlockSize
<1>2. ASSUME NEW r, GuestTrace(r, src) PROVE r[n + 1] = r[n]
  <2>1. r[n + 1] = GuestStep(r[n], src[n])
    BY <1>1, <1>2, Zenon DEF GuestTrace
  <2> QED BY <2>1, Zenon DEF GuestStep
<1> QED BY <1>2, Zenon DEF Computes

\* The entries of asm_expand_instr for an instruction of group g on the host
\* registers d, s and u.
IsExpansion(extra, g, d, s, u) ==
    \E mov, fold :
        /\ IsEntry(fold, g, d, u)
        /\ IF d = s THEN extra = <<fold>> ELSE extra = <<mov, fold>> /\ IsEntry(mov, "MOV", d, s)

LEMMA Paired ==
    ASSUME NEW a, NEW b
    PROVE  <<>> \o <<a>> = <<a>> /\ <<a>> \o <<b>> = <<a, b>>
<1> DEFINE S == {a, b}
           u == <<>> \o <<a>>
           w == <<a>> \o <<b>>
<1>1. <<>> \in Seq(S) /\ <<a>> \in Seq(S) /\ <<b>> \in Seq(S)
  OBVIOUS
<1>2. u \in Seq(S) /\ Len(u) = 1 /\ u[1] = a
  BY <1>1
<1>3. w \in Seq(S) /\ Len(w) = 2 /\ w[1] = a /\ w[2] = b
  BY <1>1
<1> HIDE DEF u, w, S
<1>4. u = <<a>>
  BY <1>2
<1>5. w = <<a, b>>
  BY <1>3
<1> QED BY <1>4, <1>5 DEF u, w

\* Where they stand behind other entries.
LEMMA Behind ==
    ASSUME NEW S, NEW code \in Seq(S), NEW mov \in S, NEW fold \in S
    PROVE  LET one == code \o <<fold>>
               two == code \o <<mov, fold>> IN
           /\ Len(one) = Len(code) + 1 /\ one[Len(code) + 1] = fold
           /\ Len(two) = Len(code) + 2 /\ two[Len(code) + 1] = mov /\ two[Len(code) + 2] = fold
           /\ \A i \in 1 .. Len(code) : one[i] = code[i] /\ two[i] = code[i]
OBVIOUS

\* One instruction more, on operands that are in their homes.
LEMMA ComputesOneMore ==
    ASSUME NEW src, NEW n \in 0 .. BlockInstrs - 1, NEW S, NEW code \in Seq(S), NEW h,
           Computes(n, src, code, h),
           NEW a \in AsmInstr, src[n] = a, a.name \in Folded, a.rd # 0, a.rd = a.rt => a.rd = a.rs,
           NEW k, Homes(k), \A g \in GuestRegs : h[g] # -1 => k[g] = h[g],
           k[a.rd] # -1, k[a.rs] # -1, k[a.rt] # -1,
           NEW extra \in Seq(S), IsExpansion(extra, a.name, k[a.rd], k[a.rs], k[a.rt])
    PROVE  Computes(n + 1, src, code \o extra, k)
<1> DEFINE d == k[a.rd]
           s == k[a.rs]
           u == k[a.rt]
           L == Len(code)
           all == code \o extra
<1>1. PICK mov, fold :
        /\ IsEntry(fold, a.name, d, u)
        /\ IF d = s THEN extra = <<fold>> ELSE extra = <<mov, fold>> /\ IsEntry(mov, "MOV", d, s)
  BY Zenon DEF IsExpansion
<1>2. a.rd \in GuestRegs /\ a.rs \in GuestRegs /\ a.rt \in GuestRegs
  BY DEF AsmInstr
<1>3. n + 1 \in 1 .. BlockInstrs /\ (n + 1) - 1 = n
  BY BlockSize
<1>4. L \in Nat
  OBVIOUS
<1>5. /\ d = s => Len(all) = L + 1 /\ all[L + 1] = fold
      /\ d # s => Len(all) = L + 2 /\ all[L + 1] = mov /\ all[L + 2] = fold
      /\ \A i \in 1 .. L : all[i] = code[i]
  <2>1. CASE d = s
    <3>1. extra = <<fold>> /\ fold \in S
      <4>1. extra = <<fold>>
        BY <1>1, <2>1, Zenon
      <4>2. Len(extra) = 1 /\ extra[1] = fold
        BY <4>1
      <4>3. 1 \in 1 .. Len(extra)
        BY <4>2
      <4>4. extra[1] \in S
        BY <4>3
      <4> QED BY <4>1, <4>2, <4>4
    <3> QED BY <2>1, <3>1, Behind
  <2>2. CASE d # s
    <3>1. extra = <<mov, fold>> /\ fold \in S /\ mov \in S
      <4>1. extra = <<mov, fold>>
        BY <1>1, <2>2
      <4>2. Len(extra) = 2 /\ extra[1] = mov /\ extra[2] = fold
        BY <4>1
      <4>3. 1 \in 1 .. Len(extra) /\ 2 \in 1 .. Len(extra)
        BY <4>2
      <4>4. extra[1] \in S /\ extra[2] \in S
        BY <4>3
      <4> QED BY <4>1, <4>2, <4>4
    <3> QED BY <2>2, <3>1, Behind
  <2> QED BY <2>1, <2>2
<1> HIDE DEF all
<1>6. ASSUME NEW i \in 1 .. Len(all) PROVE Readable(all[i])
  <2>1. \A j \in 1 .. L : Readable(code[j])
    BY DEF Computes
  <2>2. Readable(fold) /\ (d # s => Readable(mov))
    BY <1>1, Zenon DEF Readable
  <2>3. i \in 1 .. L \/ i = L + 1 \/ (d # s /\ i = L + 2)
    BY <1>4, <1>5
  <2> QED BY <1>5, <2>1, <2>2, <2>3, Zenon
<1>7. ASSUME NEW r, NEW t, GuestTrace(r, src), HostTrace(t, all, k)
      PROVE  Holds(r[n + 1], t[Len(all)], t[0], k)
  <2>1. HostTrace(t, code, h)
    <3>1. \A i \in 1 .. L : i \in 1 .. Len(all)
      BY <1>4, <1>5
    <3>2. \A i \in 1 .. L : t[i] = HostStep(t[i - 1], HostInstr(code[i]))
      BY <1>5, <1>7, <3>1, Zenon DEF HostTrace
    <3>3. \A g \in GuestRegs : h[g] # -1 => t[0][h[g]] = Start(g)
      BY <1>7, Zenon DEF HostTrace
    <3>4. t[0] = [x \in 0 .. 15 |-> t[0][x]]
      BY <1>7, Zenon DEF HostTrace
    <3> QED BY <3>2, <3>3, <3>4, Zenon DEF HostTrace
  <2>2. Holds(r[n], t[L], t[0], h) /\ Homes(h)
    BY <1>7, <2>1, Zenon DEF Computes
  <2>3. Holds(r[n], t[L], t[0], k)
    <3>1. \A g \in GuestRegs : k[g] # -1 => t[0][k[g]] = Start(g)
      BY <1>7, Zenon DEF HostTrace
    <3> QED BY <2>2, <3>1, HoldsMoreHomes
  <2> DEFINE op == Operation[a.name]
  <2>4. r[n + 1] = [r[n] EXCEPT ![a.rd] = Apply(op, r[n][a.rs], r[n][a.rt])]
    <3>1. r[n + 1] = GuestStep(r[n], a)
      BY <1>3, <1>7, Zenon DEF GuestTrace
    <3>2. a.name # "NOP" /\ a.name # "XOR" /\ a.name # "MOV"
      BY DEF Folded
    <3> QED BY <3>1, <3>2, Zenon DEF GuestStep
  <2>5. t[Len(all)] = Combined(Moved(t[L], d, s), op, d, u)
    <3>0. a.name # "MOV"
      BY DEF Folded
    <3>1. CASE d = s
      <4>1. L + 1 \in 1 .. Len(all) /\ (L + 1) - 1 = L /\ Len(all) = L + 1 /\ all[L + 1] = fold
        BY <1>4, <1>5, <3>1
      <4>2. t[L + 1] = HostStep(t[L], HostInstr(fold))
        BY <1>7, <4>1, Zenon DEF HostTrace
      <4>3. HostStep(t[L], HostInstr(fold)) = Combined(t[L], op, d, u)
        BY <1>1, <3>0, EntryStep
      <4> QED BY <3>1, <4>1, <4>2, <4>3, Zenon DEF Moved
    <3>2. CASE d # s
      <4>1. /\ L + 1 \in 1 .. Len(all) /\ L + 2 \in 1 .. Len(all)
            /\ (L + 1) - 1 = L /\ (L + 2) - 1 = L + 1
            /\ Len(all) = L + 2 /\ all[L + 1] = mov /\ all[L + 2] = fold
        BY <1>4, <1>5, <3>2
      <4>2. t[L + 1] = HostStep(t[L], HostInstr(mov)) /\ t[L + 2] = HostStep(t[L + 1], HostInstr(fold))
        BY <1>7, <4>1, Zenon DEF HostTrace
      <4>3. IsEntry(mov, "MOV", d, s)
        BY <1>1, <3>2
      <4>4. HostStep(t[L], HostInstr(mov)) = Moved(t[L], d, s)
        BY <4>3, EntryStep
      <4>5. HostStep(t[L + 1], HostInstr(fold)) = Combined(t[L + 1], op, d, u)
        BY <1>1, <3>0, EntryStep
      <4> QED BY <4>1, <4>2, <4>4, <4>5, Zenon
    <3> QED BY <3>1, <3>2
  <2> HIDE DEF op
  <2>6. Holds([r[n] EXCEPT ![a.rd] = Apply(op, r[n][a.rs], r[n][a.rt])],
              Combined(Moved(t[L], d, s), op, d, u), t[0], k)
    BY <1>2, <2>3, HoldsAfter
  <2> QED BY <2>4, <2>5, <2>6, Zenon
<1> QED BY <1>6, <1>7, Zenon DEF Computes, all

\* The recursive functions of TblockMeaning have solutions.
LEMMA Inductive ==
    ASSUME NEW P, 0 \in P, \A n \in Nat : n \in P => n + 1 \in P
    PROVE  \A n \in Nat : n \in P
<1> DEFINE T == {n \in Nat : n \notin P}
<1> SUFFICES ASSUME T # {} PROVE FALSE
  OBVIOUS
<1>1. T \subseteq Nat
  OBVIOUS
<1> HIDE DEF T
<1>2. PICK x \in T : \A y \in T : x <= y
  BY <1>1, LeastElement
<1>3. x \in Nat /\ x \notin P /\ x # 0
  BY <1>2 DEF T
<1>4. x - 1 \in Nat /\ x - 1 \notin T
  BY <1>1, <1>2, <1>3
<1>5. x - 1 \in P
  BY <1>4 DEF T
<1> QED BY <1>3, <1>4, <1>5

\* The run of the guest's program src.
GuestRun(src, f, n) ==
    f = [i \in 0 .. n |-> IF i = 0 THEN [g \in GuestRegs |-> Start(g)] ELSE GuestStep(f[i - 1], src[i - 1])]

LEMMA GuestRunExists ==
    ASSUME NEW src
    PROVE  \A n \in Nat : \E f : GuestRun(src, f, n)
<1> DEFINE P == {n \in Nat : \E f : GuestRun(src, f, n)}
<1>1. 0 \in P
  <2> DEFINE f == [i \in 0 .. 0 |-> [g \in GuestRegs |-> Start(g)]]
  <2>1. \A i \in 0 .. 0 : i = 0
    OBVIOUS
  <2>2. f = [i \in 0 .. 0 |-> IF i = 0 THEN [g \in GuestRegs |-> Start(g)] ELSE GuestStep(f[i - 1], src[i - 1])]
    BY <2>1, Zenon
  <2>3. \E e : GuestRun(src, e, 0)
    BY <2>2, Zenon DEF GuestRun
  <2> QED BY <2>3
<1>2. ASSUME NEW n \in Nat, n \in P PROVE n + 1 \in P
  <2>1. PICK f : GuestRun(src, f, n)
    BY <1>2
  <2> DEFINE e == [i \in 0 .. n + 1 |-> IF i \in 0 .. n THEN f[i] ELSE GuestStep(f[i - 1], src[i - 1])]
  <2>2. ASSUME NEW i \in 0 .. n + 1
        PROVE  e[i] = IF i = 0 THEN [g \in GuestRegs |-> Start(g)] ELSE GuestStep(e[i - 1], src[i - 1])
    <3>1. CASE i = 0
      <4>1. 0 \in 0 .. n /\ 0 \in 0 .. n + 1
        OBVIOUS
      <4>2. e[0] = f[0]
        BY <4>1, Zenon
      <4>3. f[0] = [g \in GuestRegs |-> Start(g)]
        BY <2>1, <4>1, Zenon DEF GuestRun
      <4> QED BY <3>1, <4>2, <4>3, Zenon
    <3>2. CASE i # 0
      <4>1. i - 1 \in 0 .. n /\ i - 1 \in 0 .. n + 1
        BY <3>2
      <4>2. e[i - 1] = f[i - 1]
        BY <4>1, Zenon
      <4>3. i \in 0 .. n => f[i] = GuestStep(f[i - 1], src[i - 1])
        BY <2>1, <3>2, Zenon DEF GuestRun
      <4>4. e[i] = IF i \in 0 .. n THEN f[i] ELSE GuestStep(f[i - 1], src[i - 1])
        BY Zenon
      <4> HIDE DEF e
      <4>5. e[i] = GuestStep(e[i - 1], src[i - 1])
        BY <4>2, <4>3, <4>4, Zenon
      <4> QED BY <3>2, <4>5, Zenon
    <3> QED BY <3>1, <3>2
  <2>3. e = [i \in 0 .. n + 1 |-> e[i]]
    BY Zenon
  <2> HIDE DEF e
  <2>4. GuestRun(src, e, n + 1)
    BY <2>2, <2>3, Zenon DEF GuestRun
  <2> QED BY <2>4
<1> HIDE DEF P
<1>3. \A n \in Nat : n \in P
  BY <1>1, <1>2, Inductive
<1> QED BY <1>3 DEF P

\* The bytes of the entries of code, one behind the other.
Joined(code, f, n) ==
    f = [i \in 0 .. n |-> IF i = 0 THEN <<>> ELSE f[i - 1] \o i64_ir_to_raw(ToHost(code[i]))]

LEMMA JoinedExists ==
    ASSUME NEW code
    PROVE  \A n \in Nat : \E f : Joined(code, f, n)
<1> DEFINE P == {n \in Nat : \E f : Joined(code, f, n)}
<1>1. 0 \in P
  <2> DEFINE f == [i \in 0 .. 0 |-> <<>>]
  <2>1. \A i \in 0 .. 0 : i = 0
    OBVIOUS
  <2>2. f = [i \in 0 .. 0 |-> IF i = 0 THEN <<>> ELSE f[i - 1] \o i64_ir_to_raw(ToHost(code[i]))]
    BY <2>1, Zenon
  <2>3. \E e : Joined(code, e, 0)
    BY <2>2, Zenon DEF Joined
  <2> QED BY <2>3
<1>2. ASSUME NEW n \in Nat, n \in P PROVE n + 1 \in P
  <2>1. PICK f : Joined(code, f, n)
    BY <1>2
  <2> DEFINE e == [i \in 0 .. n + 1 |-> IF i \in 0 .. n THEN f[i] ELSE f[i - 1] \o i64_ir_to_raw(ToHost(code[i]))]
  <2>2. ASSUME NEW i \in 0 .. n + 1
        PROVE  e[i] = IF i = 0 THEN <<>> ELSE e[i - 1] \o i64_ir_to_raw(ToHost(code[i]))
    <3>1. CASE i = 0
      <4>1. 0 \in 0 .. n /\ 0 \in 0 .. n + 1
        OBVIOUS
      <4>2. e[0] = f[0]
        BY <4>1, Zenon
      <4>3. f[0] = <<>>
        BY <2>1, <4>1, Zenon DEF Joined
      <4> QED BY <3>1, <4>2, <4>3, Zenon
    <3>2. CASE i # 0
      <4>1. i - 1 \in 0 .. n /\ i - 1 \in 0 .. n + 1
        BY <3>2
      <4>2. e[i - 1] = f[i - 1]
        BY <4>1, Zenon
      <4>3. i \in 0 .. n => f[i] = f[i - 1] \o i64_ir_to_raw(ToHost(code[i]))
        BY <2>1, <3>2, Zenon DEF Joined
      <4>4. e[i] = IF i \in 0 .. n THEN f[i] ELSE f[i - 1] \o i64_ir_to_raw(ToHost(code[i]))
        BY Zenon
      <4> HIDE DEF e
      <4>5. e[i] = e[i - 1] \o i64_ir_to_raw(ToHost(code[i]))
        BY <4>2, <4>3, <4>4, Zenon
      <4> QED BY <3>2, <4>5, Zenon
    <3> QED BY <3>1, <3>2
  <2>3. e = [i \in 0 .. n + 1 |-> e[i]]
    BY Zenon
  <2> HIDE DEF e
  <2>4. Joined(code, e, n + 1)
    BY <2>2, <2>3, Zenon DEF Joined
  <2> QED BY <2>4
<1> HIDE DEF P
<1>3. \A n \in Nat : n \in P
  BY <1>1, <1>2, Inductive
<1> QED BY <1>3 DEF P

\* The run of the instructions m from the host registers w.
HostRun(m, w, f, n) ==
    f = [i \in 0 .. n |-> IF i = 0 THEN w ELSE HostStep(f[i - 1], m[i])]

LEMMA HostRunExists ==
    ASSUME NEW m, NEW w
    PROVE  \A n \in Nat : \E f : HostRun(m, w, f, n)
<1> DEFINE P == {n \in Nat : \E f : HostRun(m, w, f, n)}
<1>1. 0 \in P
  <2> DEFINE f == [i \in 0 .. 0 |-> w]
  <2>1. \A i \in 0 .. 0 : i = 0
    OBVIOUS
  <2>2. f = [i \in 0 .. 0 |-> IF i = 0 THEN w ELSE HostStep(f[i - 1], m[i])]
    BY <2>1, Zenon
  <2>3. \E e : HostRun(m, w, e, 0)
    BY <2>2, Zenon DEF HostRun
  <2> QED BY <2>3
<1>2. ASSUME NEW n \in Nat, n \in P PROVE n + 1 \in P
  <2>1. PICK f : HostRun(m, w, f, n)
    BY <1>2
  <2> DEFINE e == [i \in 0 .. n + 1 |-> IF i \in 0 .. n THEN f[i] ELSE HostStep(f[i - 1], m[i])]
  <2>2. ASSUME NEW i \in 0 .. n + 1
        PROVE  e[i] = IF i = 0 THEN w ELSE HostStep(e[i - 1], m[i])
    <3>1. CASE i = 0
      <4>1. 0 \in 0 .. n /\ 0 \in 0 .. n + 1
        OBVIOUS
      <4>2. e[0] = f[0]
        BY <4>1, Zenon
      <4>3. f[0] = w
        BY <2>1, <4>1, Zenon DEF HostRun
      <4> QED BY <3>1, <4>2, <4>3, Zenon
    <3>2. CASE i # 0
      <4>1. i - 1 \in 0 .. n /\ i - 1 \in 0 .. n + 1
        BY <3>2
      <4>2. e[i - 1] = f[i - 1]
        BY <4>1, Zenon
      <4>3. i \in 0 .. n => f[i] = HostStep(f[i - 1], m[i])
        BY <2>1, <3>2, Zenon DEF HostRun
      <4>4. e[i] = IF i \in 0 .. n THEN f[i] ELSE HostStep(f[i - 1], m[i])
        BY Zenon
      <4> HIDE DEF e
      <4>5. e[i] = HostStep(e[i - 1], m[i])
        BY <4>2, <4>3, <4>4, Zenon
      <4> QED BY <3>2, <4>5, Zenon
    <3> QED BY <3>1, <3>2
  <2>3. e = [i \in 0 .. n + 1 |-> e[i]]
    BY Zenon
  <2> HIDE DEF e
  <2>4. HostRun(m, w, e, n + 1)
    BY <2>2, <2>3, Zenon DEF HostRun
  <2> QED BY <2>4
<1> HIDE DEF P
<1>3. \A n \in Nat : n \in P
  BY <1>1, <1>2, Inductive
<1> QED BY <1>3 DEF P

\* The runs of GuestResult and HostResult are traces.
LEMMA GuestResultIs ==
    \E r : GuestTrace(r, source) /\ GuestResult = r[BlockInstrs]
<1> DEFINE run == CHOOSE f : f = [i \in 0 .. BlockInstrs |->
                      IF i = 0 THEN [g \in GuestRegs |-> Start(g)]
                      ELSE GuestStep(f[i - 1], source[i - 1])]
<1>1. GuestResult = run[BlockInstrs]
  BY Zenon DEF GuestResult
<1>2. BlockInstrs \in Nat /\ 0 \in 0 .. BlockInstrs
      /\ \A i \in 1 .. BlockInstrs : i \in 0 .. BlockInstrs /\ i # 0
  BY BlockSize
<1>3. \E f : GuestRun(source, f, BlockInstrs)
  BY <1>2, GuestRunExists, Zenon
<1>4. run = [i \in 0 .. BlockInstrs |->
                IF i = 0 THEN [g \in GuestRegs |-> Start(g)]
                ELSE GuestStep(run[i - 1], source[i - 1])]
  BY <1>3, Zenon DEF GuestRun
<1> HIDE DEF run
<1>5. GuestTrace(run, source)
  BY <1>2, <1>4, Zenon DEF GuestTrace
<1> QED BY <1>1, <1>5, Zenon

\* The bytes of entries that can be read are read as these.
LEMMA HostBytesAreRead ==
    ASSUME Len(host) \in Nat, \A i \in 1 .. Len(host) : Readable(host[i])
    PROVE  Disassembly(HostBytes) = [i \in 1 .. Len(host) |-> HostInstr(host[i])]
<1> DEFINE N == Len(host)
           W == [i \in 1 .. N |-> i64_ir_to_raw(ToHost(host[i]))]
           X == [i \in 1 .. N |-> HostInstr(host[i])]
           upTo == CHOOSE f : f = [n \in 0 .. N |->
                       IF n = 0 THEN <<>> ELSE f[n - 1] \o i64_ir_to_raw(ToHost(host[n]))]
<1>1. HostBytes = upTo[N]
  BY Zenon DEF HostBytes, ToHost
<1>2. \E f : Joined(host, f, N)
  BY JoinedExists, Zenon
<1>3. upTo = [n \in 0 .. N |->
                IF n = 0 THEN <<>> ELSE upTo[n - 1] \o i64_ir_to_raw(ToHost(host[n]))]
  BY <1>2, Zenon DEF Joined
<1> HIDE DEF upTo
<1>4. ASSUME NEW i \in 1 .. N
      PROVE  /\ W[i] \in Seq(Byte) /\ Len(W[i]) = 3
             /\ X[i] # Undecodable /\ X[i].len = 3
             /\ \A c \in Seq(Byte) : Begins(c, W[i]) => Decoded(c) = X[i]
  <2>1. PICK g, d, s : IsEntry(host[i], g, d, s)
    BY Zenon DEF Readable
  <2>2. W[i] = i64_ir_to_raw(ToHost(host[i])) /\ X[i] = HostInstr(host[i])
    BY Zenon
  <2> HIDE DEF W, X
  <2>3. X[i] = [op |-> Operation[g], width |-> 64, len |-> 3, ops |-> <<RegRead(d), RegRead(s)>>]
    BY <2>1, <2>2, EntryIsRead
  <2>4. X[i] # Undecodable /\ X[i].len = 3
    BY <2>3 DEF Undecodable
  <2> QED BY <2>1, <2>2, <2>4, EntryIsRead
<1> DEFINE P == {n \in Nat : n <= N => \E a : Written(upTo[n], n, a, W)}
<1>5. 0 \in P
  <2>1. 0 \in 0 .. N
    OBVIOUS
  <2>2. upTo[0] = <<>>
    BY <1>3, <2>1, Zenon
  <2>3. \E a : Written(upTo[0], 0, a, W)
    BY <2>2, WrittenNone, Zenon
  <2> QED BY <2>3
<1>6. ASSUME NEW n \in Nat, n \in P PROVE n + 1 \in P
  <2> SUFFICES ASSUME n + 1 <= N PROVE \E a : Written(upTo[n + 1], n + 1, a, W)
    OBVIOUS
  <2>1. n + 1 \in 1 .. N /\ n + 1 \in 0 .. N /\ n + 1 # 0 /\ (n + 1) - 1 = n /\ n <= N
    OBVIOUS
  <2>2. PICK at : Written(upTo[n], n, at, W)
    BY <1>6, <2>1
  <2>3. upTo[n + 1] = upTo[n] \o i64_ir_to_raw(ToHost(host[n + 1]))
    BY <1>3, <2>1, Zenon
  <2>4. W[n + 1] = i64_ir_to_raw(ToHost(host[n + 1]))
    BY <2>1, Zenon
  <2>5. W[n + 1] \in Seq(Byte)
    BY <1>4, <2>1
  <2> HIDE DEF W, P
  <2> QED BY <2>2, <2>3, <2>4, <2>5, WrittenOneMore
<1> HIDE DEF P
<1>7. N \in P
  BY <1>5, <1>6, Inductive
<1>8. PICK at : Written(HostBytes, N, at, W)
  <2>1. N <= N
    OBVIOUS
  <2> QED BY <1>1, <1>7, <2>1 DEF P
<1> HIDE DEF W, X
<1>9. \A i \in 1 .. N : X[i] # Undecodable /\ X[i].len = Len(W[i]) /\ Len(W[i]) > 0
  <2>1. 3 > 0
    OBVIOUS
  <2> QED BY <1>4, <2>1, Zenon
<1>10. \A i \in 1 .. N : \A c \in Seq(Byte) : Begins(c, W[i]) => Decoded(c) = X[i]
  BY <1>4, Zenon
<1>11. Disassembly(HostBytes) = [i \in 1 .. N |-> X[i]]
  BY <1>8, <1>9, <1>10, WrittenIsRead
<1>12. \A i \in 1 .. N : X[i] = HostInstr(host[i])
  BY Zenon DEF X
<1> QED BY <1>11, <1>12, Zenon

\* Each guest register with a home is in it at first.
LEMMA HostStartIs ==
    ASSUME Homes(home)
    PROVE  /\ HostStart = [x \in 0 .. 15 |-> HostStart[x]]
           /\ \A g \in GuestRegs : home[g] # -1 => HostStart[home[g]] = Start(g)
<1>1. HostStart = [x \in 0 .. 15 |-> HostStart[x]]
  BY Zenon DEF HostStart
<1>2. ASSUME NEW g \in GuestRegs, home[g] # -1
      PROVE  HostStart[home[g]] = Start(g)
  <2>1. home[g] \in 0 .. 15
    BY <1>2 DEF Homes
  <2> DEFINE k == CHOOSE j \in GuestRegs : home[j] = home[g]
  <2>2. k \in GuestRegs /\ home[k] = home[g]
    BY Zenon
  <2>3. k = g
    BY <1>2, <2>2, Zenon DEF Homes
  <2>4. HostStart[home[g]] = Start(k)
    BY <2>1, Zenon DEF HostStart
  <2> QED BY <2>3, <2>4, Zenon
<1> QED BY <1>1, <1>2

LEMMA HostResultIs ==
    ASSUME Len(host) \in Nat, \A i \in 1 .. Len(host) : Readable(host[i]), Homes(home)
    PROVE  \E t : HostTrace(t, host, home) /\ HostResult = t[Len(host)]
<1> DEFINE N == Len(host)
           machine == Disassembly(HostBytes)
           run == CHOOSE f : f = [i \in 0 .. Len(machine) |->
                      IF i = 0 THEN HostStart ELSE HostStep(f[i - 1], machine[i])]
<1>1. HostResult = run[Len(machine)]
  BY Zenon DEF HostResult
<1>2. machine = [i \in 1 .. N |-> HostInstr(host[i])]
  BY HostBytesAreRead
<1>3. Len(machine) = N
  <2> HIDE DEF machine
  <2> QED BY <1>2
<1>4. \A i \in 1 .. N : machine[i] = HostInstr(host[i])
  BY <1>2, Zenon
<1> HIDE DEF machine
<1>5. \E f : HostRun(machine, HostStart, f, N)
  BY HostRunExists, Zenon
<1>6. run = [i \in 0 .. N |-> IF i = 0 THEN HostStart ELSE HostStep(run[i - 1], machine[i])]
  BY <1>3, <1>5, Zenon DEF HostRun
<1> HIDE DEF run
<1>7. 0 \in 0 .. N /\ \A i \in 1 .. N : i \in 0 .. N /\ i # 0
  OBVIOUS
<1>8. run[0] = HostStart
  BY <1>6, <1>7, Zenon
<1>9. \A i \in 1 .. N : run[i] = HostStep(run[i - 1], HostInstr(host[i]))
  BY <1>4, <1>6, <1>7, Zenon
<1>10. HostTrace(run, host, home)
  BY <1>8, <1>9, HostStartIs, Zenon DEF HostTrace
<1> QED BY <1>1, <1>3, <1>10, Zenon

LEMMA ComputedIsRight ==
    ASSUME Len(host) \in Nat, Computes(BlockInstrs, source, host, home)
    PROVE  \A g \in GuestRegs :
               GuestResult[g] = IF home[g] = -1 THEN Start(g) ELSE HostResult[home[g]]
<1>1. PICK r : GuestTrace(r, source) /\ GuestResult = r[BlockInstrs]
  BY GuestResultIs
<1>2. PICK t : HostTrace(t, host, home) /\ HostResult = t[Len(host)]
  BY HostResultIs, Zenon DEF Computes
<1>3. Holds(r[BlockInstrs], t[Len(host)], t[0], home)
  BY <1>1, <1>2, Zenon DEF Computes
<1> QED BY <1>1, <1>2, <1>3, Zenon DEF Holds
-----------------------------------------------------------------------------
(* The invariant of a block whose meaning is watched. *)

\* The instructions of the program whose code is in the IR.
Converted ==
    CASE pc = "scan" -> 0 [] pc = "convert" -> next [] OTHER -> BlockInstrs

MeaningInv ==
    /\ TblockInv
    /\ source \in Sources
    /\ prog = [i \in DOMAIN source |-> GuestInstr(Assembled(source[i]))]
    /\ pc = "body" => Len(host) = next /\ next <= Len(ir) /\ \A i \in 1 .. next : host[i] = ir[i]
    /\ pc = "done" => host = ir
    /\ clean => Computes(Converted, source, ir, home)

\* The next instruction of the program, before it is converted.
LEMMA NextInstr ==
    ASSUME MeaningInv, pc = "convert"
    PROVE  /\ next \in 0 .. BlockInstrs - 1 /\ source[next] \in AsmInstr
           /\ prog[next] = GuestInstr(Assembled(source[next]))
           /\ prog[next] \in Instr
<1>1. next \in 0 .. BlockInstrs - 1
  BY BlockSize DEF MeaningInv, TblockInv, PassInv, TblockTypeOK
<1>2. source \in [0 .. BlockInstrs - 1 -> AsmInstr]
  BY SourcesAssumption DEF MeaningInv
<1>3. prog[next] = GuestInstr(Assembled(source[next]))
  BY <1>1, <1>2, Zenon DEF MeaningInv
<1>4. prog \in [0 .. BlockInstrs - 1 -> Instr]
  BY TblockAssumption DEF MeaningInv, TblockInv, TblockTypeOK
<1> QED BY <1>1, <1>2, <1>3, <1>4

\* The entries written for an instruction that meets none of the causes.
LEMMA CodeIsExpansion ==
    ASSUME MeaningInv, clean, pc = "convert", source[next].name \in Folded,
           Converts(prog[next].ops)
    PROVE  LET a == source[next] IN
           /\ Homes(Housed) /\ \A g \in GuestRegs : home[g] # -1 => Housed[g] = home[g]
           /\ Housed[a.rd] # -1 /\ Housed[a.rs] # -1 /\ Housed[a.rt] # -1
           /\ a.rd # 0 /\ (a.rd = a.rt => a.rd = a.rs)
           /\ Code \in Seq(IrInstr)
           /\ IsExpansion(Code, a.name, Housed[a.rd], Housed[a.rs], Housed[a.rt])
<1> DEFINE a == source[next]
           i == prog[next]
           d == Housed[a.rd]
           s == Housed[a.rs]
           u == Housed[a.rt]
<1>1. next \in 0 .. BlockInstrs - 1 /\ a \in AsmInstr /\ i = GuestInstr(Assembled(a)) /\ i \in Instr
  BY NextInstr
<1>2. /\ i.opcode = IrOpcode(a.name, "I32") /\ i.fetched
      /\ i.ops[1] = a.rd /\ i.ops[2] = a.rs /\ i.ops[3] = a.rt
  <2>1. a.name # "NOP"
    BY DEF Folded
  <2> QED BY <1>1, <2>1, AssembledIs
<1>3. /\ a.rd \in GuestRegs /\ a.rs \in GuestRegs /\ a.rt \in GuestRegs
      /\ RegsOf(i) = {a.rd, a.rs, a.rt}
  BY <1>1, <1>2 DEF AsmInstr, RegsOf
<1>4. i.opcode # IR_INVALID_OPCODE /\ IR_OPCODE_FLAGS(i.opcode) # IR_DEST_NEQ_SRC
      /\ ir_opcode_swap_group(i.opcode, "MOV") = IrOpcode("MOV", "I32")
  <2>1. i.opcode \in 49153 .. 49156
    BY <1>2 DEF Folded, IrOpcode, IrWidth, IrGroup
  <2>2. IrGroup["MOV"] = 4103 /\ IrOpcode("MOV", "I32") = 53255
    BY DEF IrOpcode, IrWidth, IrGroup, IR_DEST_NEQ_SRC
  <2> QED BY <2>1, <2>2 DEF IR_INVALID_OPCODE, IR_OPCODE_FLAGS, IR_DEST_NEQ_SRC, ir_opcode_swap_group
<1>5. TblockTypeOK /\ SpillsAreDistinct /\ PassInv /\ next < BlockInstrs
  BY <1>1 DEF MeaningInv, TblockInv, PassInv
<1>6. Filled.assoc \in [GuestRegs -> Assoc]
  BY <1>5, FilledKeeps DEF TabType
<1>7. Homes(home)
  BY DEF MeaningInv, Computes
<1>8. ASSUME NEW g \in {a.rd, a.rs, a.rt}
      PROVE  Filled.assoc[g].id = Housed[g] /\ Housed[g] \in 0 .. 15
  <2>1. Filled.assoc[g].id \in Nat
    BY <1>3, <1>6 DEF Assoc
  <2>2. Filled.assoc[g].id = Housed[g] /\ Housed[g] <= 15
    BY <1>3 DEF Converts
  <2> HIDE DEF a
  <2> QED BY <2>1, <2>2
<1>9. \A g \in GuestRegs : Housed[g]
        = IF home[g] = -1 /\ g \in RegsOf(i) THEN Filled.assoc[g].id ELSE home[g]
  BY Zenon DEF Housed
<1>10. Homes(Housed)
  <2>1. \A g \in GuestRegs : Housed[g] \in -1 .. 15
    <3> SUFFICES ASSUME NEW g \in GuestRegs PROVE Housed[g] \in -1 .. 15
      OBVIOUS
    <3>1. CASE g \in RegsOf(i)
      <4>1. Housed[g] \in 0 .. 15
        BY <1>3, <1>8, <3>1, Zenon
      <4> QED BY <4>1
    <3>2. CASE g \notin RegsOf(i)
      <4>1. Housed[g] = home[g]
        BY <1>9, <3>2, Zenon
      <4> QED BY <1>7, <4>1 DEF Homes
    <3> QED BY <3>1, <3>2
  <2>2. Housed = [g \in GuestRegs |-> Housed[g]]
    BY Zenon DEF Housed
  <2>3. Housed \in [GuestRegs -> -1 .. 15]
    BY <2>1, <2>2, Zenon
  <2>4. \A g, k \in GuestRegs : Housed[g] = Housed[k] /\ Housed[g] # -1 => g = k
    BY Zenon DEF Converts
  <2> QED BY <2>3, <2>4, Zenon DEF Homes
<1>11. \A g \in GuestRegs : home[g] # -1 => Housed[g] = home[g]
  BY <1>9, Zenon
<1>12. d \in 0 .. 15 /\ s \in 0 .. 15 /\ u \in 0 .. 15
  BY <1>8
<1>13. a.rd # 0 /\ (a.rd = a.rt => a.rd = a.rs)
  BY <1>2 DEF Converts
<1> DEFINE f == FixInstr(Filled.assoc, i.ops)
           mov == Mov(i.opcode, <<d, s>>)
           fold == Fold(i.opcode, <<d, d, u>>)
<1>14. f[1] = d /\ f[2] = s /\ f[3] = u
  <2>1. \A x \in 0 .. 15 : x % 256 = x
    OBVIOUS
  <2>2. f[1] = Filled.assoc[a.rd].id % 256 /\ f[2] = Filled.assoc[a.rs].id % 256
        /\ f[3] = Filled.assoc[a.rt].id % 256
    BY <1>2 DEF FixInstr
  <2>3. Filled.assoc[a.rd].id = d /\ Filled.assoc[a.rs].id = s /\ Filled.assoc[a.rt].id = u
    BY <1>8
  <2> HIDE DEF d, s, u, f
  <2> QED BY <1>12, <2>1, <2>2, <2>3
<1>15. Code = (IF d = s THEN <<>> ELSE <<mov>>) \o <<fold>>
  <2>1. Len(ir) \in Nat /\ IrCapacity - Len(ir) # 0
    BY <1>5, BlockSize, TblockAssumption DEF PassInv, TblockTypeOK
  <2>2. Code = ExpandInstr(i.opcode, f, IrCapacity - Len(ir))
    BY <1>4, Zenon DEF Code
  <2> HIDE DEF f, d, s, u, i
  <2> QED BY <1>4, <1>14, <2>1, <2>2, Zenon DEF ExpandInstr
<1>16. Code \in Seq(IrInstr)
  BY <1>5, CodeFits
<1>17. \A k \in DOMAIN Code :
          Extended(Head(Code[k].ops)) = Extended(Code[k].ops[Len(Code[k].ops)])
  BY Zenon DEF Converts
<1>18. mov.ops = <<d, s>> /\ fold.ops = <<d, d, u>> /\ mov.opcode = IrOpcode("MOV", "I32")
       /\ fold.opcode = IrOpcode(a.name, "I32")
  BY <1>2, <1>4 DEF Mov, Fold
<1> HIDE DEF mov, fold, d, s, u, i, a, f
<1>19. /\ Head(mov.ops) = d /\ mov.ops[Len(mov.ops)] = s
       /\ Head(fold.ops) = d /\ fold.ops[Len(fold.ops)] = u
  BY <1>18
<1>20. /\ d = s => Code = <<fold>>
       /\ d # s => Code = <<mov, fold>>
  <2>1. <<>> \o <<fold>> = <<fold>> /\ <<mov>> \o <<fold>> = <<mov, fold>>
    BY Paired
  <2> QED BY <1>15, <2>1, Zenon
<1>21. (Extended(d) <=> Extended(u)) /\ (d # s => (Extended(d) <=> Extended(s)))
  <2>1. CASE d = s
    <3>1. 1 \in DOMAIN Code /\ Code[1] = fold
      BY <1>20, <2>1
    <3>2. Extended(Head(fold.ops)) = Extended(fold.ops[Len(fold.ops)])
      BY <1>17, <3>1, Zenon
    <3>3. Extended(d) = Extended(u)
      BY <1>19, <3>2, Zenon
    <3> QED BY <2>1, <3>3
  <2>2. CASE d # s
    <3>1. 1 \in DOMAIN Code /\ Code[1] = mov /\ 2 \in DOMAIN Code /\ Code[2] = fold
      BY <1>20, <2>2
    <3>2. /\ Extended(Head(fold.ops)) = Extended(fold.ops[Len(fold.ops)])
          /\ Extended(Head(mov.ops)) = Extended(mov.ops[Len(mov.ops)])
      BY <1>17, <3>1, Zenon
    <3>3. Extended(d) = Extended(u) /\ Extended(d) = Extended(s)
      BY <1>19, <3>2, Zenon
    <3> QED BY <3>3
  <2> QED BY <2>1, <2>2
<1>22. IsEntry(fold, a.name, d, u)
  <2>1. ToHost(fold) = IrInstrOf(IrOpcode(a.name, "I32"), <<IrReg(d), IrReg(d), IrReg(u)>>)
    <3>1. [k \in DOMAIN <<d, d, u>> |-> IrReg(<<d, d, u>>[k])] = <<IrReg(d), IrReg(d), IrReg(u)>>
      OBVIOUS
    <3> QED BY <1>18, <3>1, Zenon DEF ToHost
  <2>2. a.name \in Folded /\ a.name # "MOV"
    BY DEF a, Folded
  <2>3. IsIrInstr(ToHost(fold), a.name, d, u)
    BY <1>12, <2>1, <2>2, Zenon DEF IsIrInstr, IrOps
  <2> QED BY <1>21, <2>3 DEF IsEntry
<1>23. d # s => IsEntry(mov, "MOV", d, s)
  <2>1. ToHost(mov) = IrInstrOf(IrOpcode("MOV", "I32"), <<IrReg(d), IrReg(s)>>)
    <3>1. [k \in DOMAIN <<d, s>> |-> IrReg(<<d, s>>[k])] = <<IrReg(d), IrReg(s)>>
      OBVIOUS
    <3> QED BY <1>18, <3>1, Zenon DEF ToHost
  <2>2. d # s => IsIrInstr(ToHost(mov), "MOV", d, s)
    BY <1>12, <2>1, Zenon DEF IsIrInstr, IrOps
  <2> QED BY <1>21, <2>2 DEF IsEntry
<1>24. IsExpansion(Code, a.name, d, s, u)
  BY <1>20, <1>22, <1>23, Zenon DEF IsExpansion
<1>25. d # -1 /\ s # -1 /\ u # -1
  BY <1>12
<1> QED BY <1>10, <1>11, <1>13, <1>16, <1>24, <1>25, Zenon DEF a, d, s, u

LEMMA MeaningInit_Inv == MeaningInit => MeaningInv
<1> SUFFICES ASSUME MeaningInit PROVE MeaningInv
  OBVIOUS
<1>1. TblockInv
  BY InitInv DEF MeaningInit
<1>2. pc = "scan" /\ ir = <<>> /\ home = Homeless
  BY DEF MeaningInit, Init
<1>3. Converted = 0
  BY <1>2, Zenon DEF Converted
<1>4. Computes(Converted, source, ir, home)
  BY <1>2, <1>3, ComputesNothing, Zenon
<1>5. pc # "body" /\ pc # "done"
  BY <1>2
<1>6. source \in Sources /\ prog = [i \in DOMAIN source |-> GuestInstr(Assembled(source[i]))]
  BY Zenon DEF MeaningInit
<1> QED BY <1>1, <1>4, <1>5, <1>6, Zenon DEF MeaningInv

\* Every step of the watched block is one of the block.
LEMMA MeaningStep ==
    ASSUME TblockInv, [MeaningNext]_meaningVars
    PROVE  TblockInv'
<1>1. [Next]_vars
  BY DEF MeaningNext, WatchConvert, Next, meaningVars
<1> QED BY <1>1, ScanInv, ConvertInv, EmitInv, StutterInv DEF Next

LEMMA WatchConvertInv ==
    ASSUME MeaningInv, WatchConvert
    PROVE  MeaningInv'
<1>1. TblockInv'
  BY MeaningStep DEF MeaningInv, MeaningNext
<1>2. UNCHANGED <<source, prog>> /\ ir' = ir \o Code /\ pc = "convert"
  BY DEF WatchConvert, Convert, Advance
<1>3. pc' \in {"convert", "prologue"}
  BY DEF WatchConvert, Convert, Advance
<1>4. next \in 0 .. BlockInstrs - 1 /\ source[next] \in AsmInstr
      /\ prog[next] = GuestInstr(Assembled(source[next]))
  BY <1>2, NextInstr
<1>5. Converted = next /\ Converted' = next + 1
  <2>1. CASE next + 1 = BlockInstrs
    BY <1>2, <2>1 DEF WatchConvert, Convert, Advance, Converted
  <2>2. CASE next + 1 # BlockInstrs
    BY <1>2, <2>2 DEF WatchConvert, Convert, Advance, Converted
  <2> QED BY <2>1, <2>2
<1>6. ASSUME clean' PROVE Computes(next + 1, source, ir', home')
  <2> DEFINE a == source[next]
  <2>1. prog[next].opcode = IF a.name \in Folded THEN IrOpcode(a.name, "I32") ELSE IR_INVALID_OPCODE
    BY <1>4, AssembledIs, Zenon
  <2>2. clean
    BY <1>6 DEF WatchConvert
  <2>3. Computes(next, source, ir, home)
    BY <1>5, <2>2, Zenon DEF MeaningInv
  <2>4. ir \in Seq(IrInstr)
    BY DEF MeaningInv, TblockInv, TblockTypeOK
  <2>5. CASE a.name \in Folded
    <3>1. prog[next].opcode # IR_INVALID_OPCODE
      BY <2>1, <2>5 DEF Folded, IrOpcode, IrWidth, IrGroup, IR_INVALID_OPCODE
    <3>2. home' = Housed /\ Converts(prog[next].ops)
      BY <1>6, <3>1 DEF WatchConvert
    <3> HIDE DEF a
    <3>3. /\ Homes(Housed) /\ \A g \in GuestRegs : home[g] # -1 => Housed[g] = home[g]
          /\ Housed[a.rd] # -1 /\ Housed[a.rs] # -1 /\ Housed[a.rt] # -1
          /\ a.rd # 0 /\ (a.rd = a.rt => a.rd = a.rs)
          /\ Code \in Seq(IrInstr)
          /\ IsExpansion(Code, a.name, Housed[a.rd], Housed[a.rs], Housed[a.rt])
      BY <1>2, <2>2, <2>5, <3>2, CodeIsExpansion, Zenon DEF a
    <3>4. a \in AsmInstr /\ source[next] = a
      BY <1>4 DEF a
    <3>5. Computes(next + 1, source, ir \o Code, Housed)
      BY <1>4, <2>3, <2>4, <2>5, <3>3, <3>4, ComputesOneMore
    <3> QED BY <1>2, <3>2, <3>5, Zenon
  <2>6. CASE a.name \notin Folded
    <3>1. prog[next].opcode = IR_INVALID_OPCODE
      BY <2>1, <2>6, Zenon
    <3>2. a.name # "XOR" /\ home' = home /\ Code = <<>>
      BY <1>6, <3>1, Zenon DEF WatchConvert, Code
    <3>3. a.name = "NOP"
      BY <1>4, <2>6, <3>2 DEF AsmInstr, Funct, Folded
    <3>4. ir' = ir
      BY <1>2, <2>4, <3>2
    <3>5. Computes(next + 1, source, ir, home)
      BY <1>4, <2>3, <3>3, ComputesNop, Zenon
    <3> QED BY <3>2, <3>4, <3>5, Zenon
  <2> QED BY <2>5, <2>6
<1>7. source' \in Sources /\ prog' = [i \in DOMAIN source' |-> GuestInstr(Assembled(source'[i]))]
  BY <1>2, Zenon DEF MeaningInv
<1>8. clean' => Computes(Converted', source', ir', home')
  BY <1>2, <1>5, <1>6, Zenon
<1>9. pc' # "body" /\ pc' # "done"
  BY <1>3
<1> QED BY <1>1, <1>7, <1>8, <1>9, Zenon DEF MeaningInv

LEMMA OtherStepInv ==
    ASSUME MeaningInv,
           \/ (Scan \/ Prologue \/ EmitInstr \/ EmitReturns) /\ UNCHANGED <<source, home, clean>>
           \/ EmitAgain /\ home' = Homeless /\ clean' = TRUE /\ UNCHANGED source
           \/ UNCHANGED meaningVars
    PROVE  MeaningInv'
<1>1. TblockInv'
  <2>1. [MeaningNext]_meaningVars
    BY DEF MeaningNext
  <2> QED BY <2>1, MeaningStep DEF MeaningInv
<1>2. UNCHANGED <<source, prog>>
  BY DEF Scan, Prologue, EmitInstr, EmitReturns, EmitAgain, meaningVars, vars
<1>3. source' \in Sources /\ prog' = [i \in DOMAIN source' |-> GuestInstr(Assembled(source'[i]))]
  BY <1>2, Zenon DEF MeaningInv
<1>4. ir \in Seq(IrInstr) /\ host \in Seq(IrInstr) /\ next \in Nat
      /\ (pc \in {"scan", "convert"} => next < BlockInstrs)
  BY DEF MeaningInv, TblockInv, TblockTypeOK, PassInv
<1>5. /\ pc' = "body" => Len(host') = next' /\ next' <= Len(ir') /\ \A i \in 1 .. next' : host'[i] = ir'[i]
      /\ pc' = "done" => host' = ir'
  <2> DEFINE Same == pc = "body" => Len(host) = next /\ next <= Len(ir) /\ \A i \in 1 .. next : host[i] = ir[i]
  <2>0. Same /\ (pc = "done" => host = ir)
    BY DEF MeaningInv
  <2>1. CASE Scan
    BY <2>1 DEF Scan, Advance
  <2>2. CASE Prologue
    BY <1>4, <2>2 DEF Prologue
  <2>3. CASE EmitInstr
    <3>1. /\ pc' = "body" /\ host' = Append(host, ir[next + 1]) /\ next' = next + 1 /\ ir' = ir
          /\ next < Len(ir) /\ Len(host) = next /\ \A i \in 1 .. next : host[i] = ir[i]
      BY <2>0, <2>3 DEF EmitInstr
    <3>2. ir[next + 1] \in IrInstr
      BY <1>4, <3>1
    <3>3. Len(host') = next + 1 /\ next + 1 <= Len(ir) /\ host'[next + 1] = ir[next + 1]
          /\ \A i \in 1 .. next : host'[i] = host[i]
      BY <1>4, <3>1, <3>2
    <3>4. \A i \in 1 .. next + 1 : i = next + 1 \/ i \in 1 .. next
      BY <1>4
    <3>5. \A i \in 1 .. next + 1 : host'[i] = ir[i]
      BY <3>1, <3>3, <3>4, Zenon
    <3> QED BY <3>1, <3>3, <3>5
  <2>4. CASE EmitReturns
    <3>1. pc' = "done" /\ host' = host /\ ir' = ir /\ Len(host) = Len(ir) /\ \A i \in 1 .. Len(ir) : host[i] = ir[i]
      BY <2>0, <2>4 DEF EmitReturns
    <3>2. host = ir
      BY <1>4, <3>1
    <3> QED BY <3>1, <3>2
  <2>5. CASE EmitAgain
    BY <2>5 DEF EmitAgain
  <2>6. CASE UNCHANGED meaningVars
    BY <2>0, <2>6, Zenon DEF meaningVars, vars
  <2> QED BY <2>1, <2>2, <2>3, <2>4, <2>5, <2>6
<1>6. clean' => Computes(Converted', source', ir', home')
  <2>1. CASE EmitAgain /\ home' = Homeless
    <3>1. ir' = <<>> /\ pc' = "scan"
      BY <2>1 DEF EmitAgain
    <3>2. Converted' = 0
      BY <3>1, Zenon DEF Converted
    <3> QED BY <2>1, <3>1, <3>2, ComputesNothing, Zenon
  <2>2. CASE (Scan \/ Prologue \/ EmitInstr \/ EmitReturns) /\ UNCHANGED <<home, clean>>
    <3>1. Converted' = Converted /\ ir' = ir
      <4>1. CASE Scan
        BY <4>1 DEF Scan, Advance, Converted
      <4>2. CASE Prologue
        BY <4>2 DEF Prologue, Converted
      <4>3. CASE EmitInstr
        BY <4>3 DEF EmitInstr, Converted
      <4>4. CASE EmitReturns
        BY <4>4 DEF EmitReturns, Converted
      <4> QED BY <2>2, <4>1, <4>2, <4>3, <4>4
    <3> QED BY <1>2, <2>2, <3>1, Zenon DEF MeaningInv
  <2>3. CASE UNCHANGED meaningVars
    <3>1. Converted' = Converted /\ ir' = ir /\ home' = home /\ clean' = clean
      BY <2>3, Zenon DEF meaningVars, vars, Converted
    <3> QED BY <1>2, <3>1, Zenon DEF MeaningInv
  <2> QED BY <2>1, <2>2, <2>3
<1> QED BY <1>1, <1>3, <1>5, <1>6, Zenon DEF MeaningInv

\* The code that tblock_emit writes for a block computes what its guest code
\* computes, unless one of the causes was met: for blocks of every size, every
\* program, every pool of host registers and whatever the operations do.
THEOREM CleanCodeIsRightHolds == MeaningSpec => []CleanCodeIsRight
<1>1. MeaningInv /\ [MeaningNext]_meaningVars => MeaningInv'
  BY WatchConvertInv, OtherStepInv, Zenon DEF MeaningNext
<1>2. MeaningInv => CleanCodeIsRight
  <2> SUFFICES ASSUME MeaningInv, pc = "done", clean
               PROVE  \A g \in GuestRegs :
                          GuestResult[g] = IF home[g] = -1 THEN Start(g) ELSE HostResult[home[g]]
    BY Zenon DEF CleanCodeIsRight
  <2>1. Converted = BlockInstrs
    BY DEF Converted
  <2>2. host = ir /\ Computes(BlockInstrs, source, ir, home)
    BY <2>1, Zenon DEF MeaningInv
  <2>3. Len(host) \in Nat
    BY DEF MeaningInv, TblockInv, TblockTypeOK
  <2> QED BY <2>2, <2>3, ComputedIsRight, Zenon
<1> QED BY MeaningInit_Inv, <1>1, <1>2, PTL DEF MeaningSpec
=============================================================================
