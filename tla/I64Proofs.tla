----------------------------- MODULE I64Proofs -----------------------------
(***************************************************************************)
(* Facts about the encoder of host instructions and its reference: what a  *)
(* processor reads from the bytes that i64_ir_to_raw writes, one           *)
(* instruction after the other, and the parts of an instruction with       *)
(* operands of any kind.                                                   *)
(*                                                                         *)
(* The disassembly is a recursive function over the code.  What it is for  *)
(* code of any length follows by induction, here with a least element.     *)
(***************************************************************************)
EXTENDS I64Ir, I64Decode, TLAPS, WellFoundedInduction

-----------------------------------------------------------------------------
(* Reading code. *)

\* A nonempty set of naturals has a least element.
LEMMA LeastElement ==
    ASSUME NEW T, T \subseteq Nat, T # {}
    PROVE  \E x \in T : \A y \in T : x <= y
<1> DEFINE Less == {ss \in Nat \X Nat : ss[1] < ss[2]}
<1>1. IsWellFoundedOn(Less, Nat)
  BY NatLessThanWellFounded, Zenon DEF OpToRel
<1>2. \A x, y \in Nat : y < x => <<y, x>> \in Less
  OBVIOUS
<1> HIDE DEF Less
<1>3. PICK x \in T : \A y \in T : ~ (<<y, x>> \in Less)
  BY <1>1, WFMin
<1>4. \A y \in T : x \in Nat /\ y \in Nat /\ ~(y < x)
  BY <1>2, <1>3
<1>5. \A y \in T : x <= y
  BY <1>4
<1> QED BY <1>3, <1>5

\* The instruction read at index i of code, and where the reading goes on.
At(c, i) == Decoded(SubSeq(c, i, Len(c)))
Rest(c, f, i) ==
    IF i > Len(c) THEN <<>>
    ELSE IF At(c, i) = Undecodable THEN <<At(c, i)>>
         ELSE <<At(c, i)>> \o f[i + At(c, i).len]

\* The disassembly from index m on.
ReadFrom(c, m, f) == f = [i \in m .. Len(c) + 1 |-> Rest(c, f, i)]

\* Reading makes progress and stays inside the code.
Progress(c) == \A i \in 1 .. Len(c) :
                  At(c, i) # Undecodable => At(c, i).len \in 1 .. Len(c) + 1 - i

\* The disassembly can be continued to the front by one index.
LEMMA ReadFromStep ==
    ASSUME NEW c, Len(c) \in Nat, Progress(c), NEW m \in 1 .. Len(c),
           NEW f, ReadFrom(c, m + 1, f)
    PROVE  \E g : ReadFrom(c, m, g)
<1> DEFINE g == [i \in m .. Len(c) + 1 |-> Rest(c, f, i)]
<1>1. ASSUME NEW i \in m .. Len(c) + 1
      PROVE  Rest(c, f, i) = Rest(c, g, i)
  <2>1. CASE i > Len(c)
    BY <2>1, Zenon DEF Rest
  <2>2. CASE ~(i > Len(c)) /\ At(c, i) = Undecodable
    BY <2>2, Zenon DEF Rest
  <2>3. CASE ~(i > Len(c)) /\ At(c, i) # Undecodable
    <3>1. i \in 1 .. Len(c)
      BY <2>3
    <3>2. At(c, i).len \in 1 .. Len(c) + 1 - i
      BY <2>3, <3>1 DEF Progress
    <3>3. i + At(c, i).len \in m + 1 .. Len(c) + 1
      BY <3>1, <3>2
    <3>4. f[i + At(c, i).len] = Rest(c, f, i + At(c, i).len)
      BY <3>3, Zenon DEF ReadFrom
    <3>5. i + At(c, i).len \in m .. Len(c) + 1
      BY <3>3
    <3>6. g[i + At(c, i).len] = Rest(c, f, i + At(c, i).len)
      BY <3>5
    <3> HIDE DEF g
    <3> QED BY <2>3, <3>4, <3>6, Zenon DEF Rest
  <2> QED BY <2>1, <2>2, <2>3
<1>2. g = [i \in m .. Len(c) + 1 |-> Rest(c, g, i)]
  BY <1>1, Zenon
<1> QED BY <1>2, Zenon DEF ReadFrom

\* The recursive definition of the disassembly has a solution.
LEMMA ReadFromExists ==
    ASSUME NEW c, Len(c) \in Nat, Progress(c)
    PROVE  \E f : ReadFrom(c, 1, f)
<1> DEFINE T == {m \in Nat : ~ \E f : ReadFrom(c, Len(c) + 1 - m, f)}
<1>1. SUFFICES ASSUME Len(c) \in T PROVE FALSE
  BY Len(c) + 1 - Len(c) = 1
<1>2. T \subseteq Nat /\ T # {}
  BY <1>1
<1> HIDE DEF T
<1>3. PICK x \in T : \A y \in T : x <= y
  BY <1>2, LeastElement
<1>4. x \in 0 .. Len(c) /\ ~ \E f : ReadFrom(c, Len(c) + 1 - x, f)
  BY <1>1, <1>3 DEF T
<1>5. CASE x = 0
  <2> DEFINE f == [i \in Len(c) + 1 .. Len(c) + 1 |-> <<>>]
  <2>1. \A i \in Len(c) + 1 .. Len(c) + 1 : Rest(c, f, i) = <<>>
    BY DEF Rest
  <2>2. f = [i \in Len(c) + 1 .. Len(c) + 1 |-> Rest(c, f, i)]
    BY <2>1, Zenon
  <2>3. ReadFrom(c, Len(c) + 1, f)
    BY <2>2, Zenon DEF ReadFrom
  <2>4. Len(c) + 1 - x = Len(c) + 1
    BY <1>5
  <2> QED BY <1>4, <2>3, <2>4, Zenon
<1>6. CASE x # 0
  <2>1. x - 1 \in Nat /\ x - 1 \notin T
    BY <1>3, <1>4, <1>6
  <2>2. PICK f : ReadFrom(c, Len(c) + 1 - (x - 1), f)
    BY <2>1 DEF T
  <2> DEFINE m == Len(c) + 1 - x
  <2>3. m \in 1 .. Len(c) /\ m + 1 = Len(c) + 1 - (x - 1)
    BY <1>4, <1>6
  <2>4. ReadFrom(c, m + 1, f)
    BY <2>2, <2>3
  <2> HIDE DEF m
  <2>5. \E g : ReadFrom(c, m, g)
    BY <2>3, <2>4, ReadFromStep
  <2> QED BY <1>4, <2>5 DEF m
<1> QED BY <1>5, <1>6

\* The recursive function of Disassembly is one.
LEMMA DisassemblyIsReadFrom ==
    ASSUME NEW c, Len(c) \in Nat, Progress(c)
    PROVE  \E f : ReadFrom(c, 1, f) /\ Disassembly(c) = f[1]
<1> DEFINE from == CHOOSE f : f = [i \in 1 .. Len(c) + 1 |->
                        IF i > Len(c) THEN <<>>
                        ELSE LET instr == Decoded(SubSeq(c, i, Len(c)))
                             IN  IF instr = Undecodable THEN <<instr>>
                                 ELSE <<instr>> \o f[i + instr.len]]
<1>1. Disassembly(c) = from[1]
  BY Zenon DEF Disassembly
<1>2. ReadFrom(c, 1, from)
  BY ReadFromExists, Zenon DEF ReadFrom, Rest, At
<1> QED BY <1>1, <1>2, Zenon

\* A sequence given by its elements, with one more in front.
LEMMA Prepended ==
    ASSUME NEW S, NEW k \in Nat, NEW g \in [1 .. k + 1 -> S]
    PROVE  <<g[1]>> \o [j \in 1 .. k |-> g[j + 1]] = [j \in 1 .. k + 1 |-> g[j]]
<1> DEFINE t == [j \in 1 .. k |-> g[j + 1]]
           u == <<g[1]>> \o t
<1>1. t \in Seq(S) /\ Len(t) = k /\ <<g[1]>> \in Seq(S) /\ Len(<<g[1]>>) = 1
  OBVIOUS
<1>2. u \in Seq(S) /\ Len(u) = k + 1
  BY <1>1
<1>3. ASSUME NEW j \in 1 .. k + 1 PROVE u[j] = g[j]
  <2>1. CASE j = 1
    BY <1>1, <2>1
  <2>2. CASE j # 1
    <3>1. u[j] = t[j - 1]
      BY <1>1, <2>2
    <3> QED BY <2>2, <3>1
  <2> QED BY <2>1, <2>2
<1>4. DOMAIN u = 1 .. k + 1 /\ u = [j \in DOMAIN u |-> u[j]]
  BY <1>2
<1> HIDE DEF u
<1>5. u = [j \in 1 .. k + 1 |-> g[j]]
  BY <1>3, <1>4
<1> QED BY <1>5 DEF u

\* What is put behind a sequence.
LEMMA Appended ==
    ASSUME NEW S, NEW u \in Seq(S), NEW v \in Seq(S)
    PROVE  /\ u \o v \in Seq(S) /\ Len(u \o v) = Len(u) + Len(v)
           /\ \A k \in 1 .. Len(u) : (u \o v)[k] = u[k]
OBVIOUS

LEMMA AppendedAt ==
    ASSUME NEW S, NEW u \in Seq(S), NEW v \in Seq(S), NEW k \in 1 .. Len(v)
    PROVE  (u \o v)[Len(u) + k] = v[k]
OBVIOUS

\* Code is made of n instructions, the i-th one beginning at at[i].
Chunks(c, n, at) ==
    /\ at \in [1 .. n + 1 -> Nat] /\ at[1] = 1 /\ at[n + 1] = Len(c) + 1
    /\ \A i \in 1 .. n :
          /\ at[i] \in 1 .. Len(c)
          /\ At(c, at[i]) # Undecodable
          /\ at[i + 1] = at[i] + At(c, at[i]).len

\* Code made of instructions is read as these instructions.
LEMMA DisassemblyOfChunks ==
    ASSUME NEW c, Len(c) \in Nat, Progress(c), NEW n \in Nat, NEW at, Chunks(c, n, at)
    PROVE  Disassembly(c) = [i \in 1 .. n |-> At(c, at[i])]
<1>1. PICK f : ReadFrom(c, 1, f) /\ Disassembly(c) = f[1]
  BY DisassemblyIsReadFrom
<1> DEFINE Behind(k) == [j \in 1 .. k |-> At(c, at[n - k + j])]
           T == {k \in 0 .. n : f[at[n + 1 - k]] # Behind(k)}
<1>2. SUFFICES T = {}
  <2>1. n \notin T
    BY <1>2
  <2>2. f[at[n + 1 - n]] = Behind(n) /\ at[n + 1 - n] = 1
    BY <2>1 DEF Chunks
  <2>3. \A j \in 1 .. n : n - n + j = j
    OBVIOUS
  <2>4. Behind(n) = [i \in 1 .. n |-> At(c, at[i])]
    BY <2>3
  <2> QED BY <1>1, <2>2, <2>4
<1>3. SUFFICES ASSUME T # {} PROVE FALSE
  OBVIOUS
<1>4. PICK k \in T : \A y \in T : k <= y
  <2>1. T \subseteq Nat
    OBVIOUS
  <2> HIDE DEF T
  <2> QED BY <1>3, <2>1, LeastElement
<1>5. CASE k = 0
  <2>1. at[n + 1] = Len(c) + 1 /\ Len(c) + 1 \in 1 .. Len(c) + 1
    BY DEF Chunks
  <2>2. f[Len(c) + 1] = Rest(c, f, Len(c) + 1)
    BY <1>1, <2>1, Zenon DEF ReadFrom
  <2>3. f[Len(c) + 1] = <<>>
    BY <2>2 DEF Rest
  <2>4. Behind(0) = <<>>
    OBVIOUS
  <2>5. n + 1 - k = n + 1 /\ f[at[n + 1 - k]] # Behind(k)
    BY <1>4, <1>5
  <2> QED BY <1>5, <2>1, <2>3, <2>4, <2>5
<1>6. CASE k # 0
  <2> DEFINE i == n + 1 - k
             x == At(c, at[i])
  <2>1. i \in 1 .. n /\ k - 1 \in 0 .. n /\ k \in 0 .. n
    BY <1>4, <1>6
  <2>2. k - 1 \notin T /\ n + 1 - (k - 1) = i + 1
    BY <1>4, <1>6
  <2>3. f[at[i + 1]] = Behind(k - 1)
    BY <2>1, <2>2
  <2>4. at[i] \in 1 .. Len(c) /\ x # Undecodable /\ at[i + 1] = at[i] + x.len
    BY <2>1 DEF Chunks
  <2>5. at[i] \in 1 .. Len(c) + 1 /\ ~(at[i] > Len(c))
    BY <2>4
  <2>6. f[at[i]] = Rest(c, f, at[i])
    BY <1>1, <2>5, Zenon DEF ReadFrom
  <2>7. Rest(c, f, at[i]) = <<x>> \o f[at[i + 1]]
    BY <2>4, <2>5, Zenon DEF Rest
  <2> DEFINE g == [j \in 1 .. (k - 1) + 1 |-> At(c, at[n - k + j])]
             S == {g[j] : j \in 1 .. (k - 1) + 1}
  <2>8. g[1] = x
    <3>1. 1 \in 1 .. (k - 1) + 1 /\ n - k + 1 = i
      BY <2>1, <1>6
    <3> QED BY <3>1
  <2>9. [j \in 1 .. k - 1 |-> g[j + 1]] = Behind(k - 1)
    <3>1. ASSUME NEW j \in 1 .. k - 1
          PROVE  j + 1 \in 1 .. (k - 1) + 1 /\ n - k + (j + 1) = n - (k - 1) + j
      <4> HIDE DEF T
      <4> QED BY <2>1
    <3> QED BY <3>1
  <2>10. [j \in 1 .. (k - 1) + 1 |-> g[j]] = Behind(k)
    <3>1. (k - 1) + 1 = k
      BY <2>1
    <3> QED BY <3>1
  <2>11. g \in [1 .. (k - 1) + 1 -> S] /\ k - 1 \in Nat
    BY <2>1
  <2> HIDE DEF g, S
  <2>12. <<g[1]>> \o [j \in 1 .. k - 1 |-> g[j + 1]] = [j \in 1 .. (k - 1) + 1 |-> g[j]]
    BY <2>11, Prepended
  <2>13. f[at[i]] = Behind(k)
    BY <2>3, <2>6, <2>7, <2>8, <2>9, <2>10, <2>12, Zenon
  <2> QED BY <1>4, <2>13
<1> QED BY <1>5, <1>6

\* An operand in memory ends behind the index where its SIB would be.
LEMMA MemoryNext ==
    ASSUME NEW b, NEW at \in Nat, NEW mod, NEW rm, NEW extX, NEW extB, NEW address
    PROVE  Memory(b, at, mod, rm, extX, extB, address).next \in Nat
           /\ Memory(b, at, mod, rm, extX, extB, address).next >= at
BY DEF Memory

\* So does one in the r/m field.
LEMMA RmFieldNext ==
    ASSUME NEW b, NEW at \in Nat, NEW modrm, NEW rex, NEW width, NEW rexed, NEW address
    PROVE  RmField(b, at, modrm, rex, width, rexed, address).next \in Nat
           /\ RmField(b, at, modrm, rex, width, rexed, address).next >= at
<1> DEFINE mem == Memory(b, at, modrm \div 64, modrm % 8, (rex \div 2) % 2, rex % 2, address)
           reg == Register(8 * (rex % 2) + (modrm % 8), width, rexed)
<1>1. mem.next \in Nat /\ mem.next >= at
  BY MemoryNext
<1>2. RmField(b, at, modrm, rex, width, rexed, address) \in {mem, [operand |-> reg, next |-> at]}
  BY Zenon DEF RmField
<1> HIDE DEF mem, reg
<1> QED BY <1>1, <1>2

\* The opcodes that are followed by a ModRM byte.
LEMMA ReadsModRM ==
    ASSUME NEW b, NEW at, NEW op, NEW leg, NEW rexed, NEW rex, NEW width,
           (op < 64 /\ op % 8 < 4) \/ op \in 136 .. 139
    PROVE  AfterPrefixes(b, at, op, leg, rexed, rex, width)
             = WithModRM(op, width,
                         RmField(b, at + 2, b[at + 1], rex, width, rexed,
                                 IF leg = 103 THEN 32 ELSE 64),
                         Register(8 * ((rex \div 4) % 2) + ((b[at + 1] \div 8) % 8), width, rexed))
BY DEF AfterPrefixes

\* PUSH of any register.
LEMMA ReadsPush ==
    ASSUME NEW b, NEW at, NEW op \in 80 .. 87, NEW leg, NEW rexed, NEW rex, NEW width
    PROVE  AfterPrefixes(b, at, op, leg, rexed, rex, width)
             = [op |-> Operation["PUSH"], width |-> 64, len |-> at,
                ops |-> <<RegRead(8 * (rex % 2) + op - 80)>>]
<1>1. ~((op < 64 /\ op % 8 < 4) \/ op \in 136 .. 139)
  OBVIOUS
<1> QED BY <1>1 DEF AfterPrefixes

\* PUSH of rAX, without any prefix.
LEMMA ReadsPlainPush ==
    ASSUME NEW b, NEW width
    PROVE  AfterPrefixes(b, 1, 80, 0, FALSE, 0, width)
             = [op |-> 80, width |-> 64, len |-> 1, ops |-> <<RegRead(0)>>]
<1>1. ASSUME NEW at, at = 1, NEW op, op = 80, NEW rex, rex = 0, NEW leg, NEW rexed
      PROVE  AfterPrefixes(b, at, op, leg, rexed, rex, width)
               = [op |-> 80, width |-> 64, len |-> at, ops |-> <<RegRead(0)>>]
  <2>1. op \in 80 .. 87 /\ 8 * (rex % 2) + op - 80 = 0 /\ Operation["PUSH"] = 80
    BY <1>1 DEF Operation
  <2>2. AfterPrefixes(b, at, op, leg, rexed, rex, width)
          = [op |-> Operation["PUSH"], width |-> 64, len |-> at,
             ops |-> <<RegRead(8 * (rex % 2) + op - 80)>>]
    BY <2>1, ReadsPush
  <2> QED BY <2>1, <2>2, Zenon
<1> QED BY <1>1, Zenon

\* What the emitter does not know.
LEMMA ReadsNothing ==
    ASSUME NEW b, NEW at, NEW op, NEW leg, NEW rexed, NEW rex, NEW width,
           ~((op < 64 /\ op % 8 < 4) \/ op \in 136 .. 139), op \notin 80 .. 87
    PROVE  AfterPrefixes(b, at, op, leg, rexed, rex, width) = Undecodable
BY DEF AfterPrefixes

\* Every instruction has a byte, whatever the bytes are.
LEMMA InstructionLen ==
    ASSUME NEW b
    PROVE  Instruction(b) = Undecodable \/ Instruction(b).len \in Nat \ {0}
<1>1. ASSUME NEW at \in Nat \ {0}, NEW op, NEW leg, NEW rexed, NEW rex, NEW width
      PROVE  LET x == AfterPrefixes(b, at, op, leg, rexed, rex, width)
             IN  x = Undecodable \/ x.len \in Nat \ {0}
  <2> DEFINE rm == RmField(b, at + 2, b[at + 1], rex, width, rexed, IF leg = 103 THEN 32 ELSE 64)
             reg == Register(8 * ((rex \div 4) % 2) + ((b[at + 1] \div 8) % 8), width, rexed)
             x == AfterPrefixes(b, at, op, leg, rexed, rex, width)
  <2>1. rm.next \in Nat /\ rm.next >= at + 2
    <3>1. at + 2 \in Nat
      OBVIOUS
    <3> QED BY <3>1, RmFieldNext
  <2> HIDE DEF rm, reg
  <2>2. WithModRM(op, width, rm, reg).len \in Nat \ {0}
    BY <2>1 DEF WithModRM
  <2>3. x = WithModRM(op, width, rm, reg)
        \/ x = [op |-> Operation["PUSH"], width |-> 64, len |-> at,
                ops |-> <<RegRead(8 * (rex % 2) + op - 80)>>]
        \/ x = Undecodable
    <3> DEFINE modrm == (op < 64 /\ op % 8 < 4) \/ op \in 136 .. 139
    <3>1. CASE modrm
      BY <3>1, ReadsModRM DEF rm, reg
    <3>2. CASE ~modrm /\ op \in 80 .. 87
      BY <3>2, ReadsPush
    <3>3. CASE ~modrm /\ op \notin 80 .. 87
      BY <3>3, ReadsNothing
    <3> QED BY <3>1, <3>2, <3>3
  <2> QED BY <2>2, <2>3
<1>2. ASSUME NEW at \in {1, 2}, NEW leg
      PROVE  AfterLegacy(b, at, leg) = Undecodable \/ AfterLegacy(b, at, leg).len \in Nat \ {0}
  BY <1>1 DEF AfterLegacy
<1> QED BY <1>2 DEF Instruction

\* Reading any code makes progress.
LEMMA ReadingProgresses ==
    ASSUME NEW S, NEW c \in Seq(S)
    PROVE  Progress(c)
<1> SUFFICES ASSUME NEW i \in 1 .. Len(c), At(c, i) # Undecodable
             PROVE  At(c, i).len \in 1 .. Len(c) + 1 - i
  BY DEF Progress
<1> DEFINE d == SubSeq(c, i, Len(c))
           x == Instruction(d \o [k \in 1 .. 8 |-> 0])
<1>1. Len(d) = Len(c) + 1 - i
  OBVIOUS
<1>2. x = Undecodable \/ x.len \in Nat \ {0}
  BY InstructionLen
<1>3. At(c, i) = IF x.len > Len(d) THEN Undecodable ELSE x
  BY Zenon DEF At, Decoded, Complete
<1> HIDE DEF d, x
<1> QED BY <1>1, <1>2, <1>3

Byte == 0 .. 255

\* The opcodes of the operations on r/m and reg in 64 bits.
WordOpcodes == {1, 9, 33, 41, 137}

\* What is read where i64_emit_64 wrote an instruction on two registers in 64
\* bits: x and y are the bits of REX for the fields reg and r/m.
LEMMA ReadsRegisters ==
    ASSUME NEW d \in Seq(Byte), Len(d) >= 3, NEW op \in WordOpcodes,
           NEW x \in 0 .. 1, NEW y \in 0 .. 1, NEW reg \in 0 .. 7, NEW rm \in 0 .. 7,
           d[1] = 72 + 4 * x + y, d[2] = op, d[3] = 192 + 8 * reg + rm
    PROVE  Decoded(d) = [op |-> 8 * (op \div 8), width |-> 64, len |-> 3,
                         ops |-> <<RegRead(8 * y + rm), RegRead(8 * x + reg)>>]
<1> DEFINE b == d \o [i \in 1 .. 8 |-> 0]
           rex == 8 + 4 * x + y
           result == [op |-> 8 * (op \div 8), width |-> 64, len |-> 3,
                      ops |-> <<RegRead(8 * y + rm), RegRead(8 * x + reg)>>]
<1>0. op \in {1, 9, 33, 41, 137}
  BY DEF WordOpcodes
<1> USE <1>0
<1>1. b[1] = 72 + 4 * x + y /\ b[2] = op /\ b[3] = 192 + 8 * reg + rm
  <2>1. [i \in 1 .. 8 |-> 0] \in Seq(Byte)
    BY DEF Byte
  <2> QED BY <2>1
<1> HIDE DEF b
<1>2. Width(op, rex, 0) = 64
  BY DEF Width
<1>3. b[1] - 64 = rex /\ b[1] \in 64 .. 79 /\ b[1] \notin {102, 103}
  BY <1>1
<1>4. Instruction(b) = AfterPrefixes(b, 2, op, 0, TRUE, rex, 64)
  <2>1. Instruction(b) = AfterLegacy(b, 1, 0)
    BY <1>3, Zenon DEF Instruction
  <2>2. (b[1] \in 64 .. 79) = TRUE /\ 1 + 1 = 2
    BY <1>3
  <2>3. AfterLegacy(b, 1, 0) = AfterPrefixes(b, 2, b[2], 0, TRUE, b[1] - 64, Width(b[2], b[1] - 64, 0))
    BY <2>2, Zenon DEF AfterLegacy
  <2> QED BY <1>1, <1>2, <1>3, <2>1, <2>3, Zenon
<1>5. /\ b[3] \div 64 = 3 /\ b[3] % 8 = rm /\ (b[3] \div 8) % 8 = reg
      /\ rex % 2 = y /\ (rex \div 4) % 2 = x
  <2>1. b[3] \div 64 = 3
    BY <1>1
  <2>2. b[3] % 8 = rm
    BY <1>1
  <2>3. b[3] \div 8 = 24 + reg
    BY <1>1
  <2>4. (24 + reg) % 8 = reg
    OBVIOUS
  <2>5. rex % 2 = y /\ rex \div 4 = 2 + x
    <3>1. (8 + 4 * x + y) % 2 = y
      OBVIOUS
    <3>2. (8 + 4 * x + y) \div 4 = 2 + x
      OBVIOUS
    <3> QED BY <3>1, <3>2
  <2>6. (2 + x) % 2 = x
    OBVIOUS
  <2> QED BY <2>1, <2>2, <2>3, <2>4, <2>5, <2>6
<1> HIDE DEF rex
<1>6. RmField(b, 4, b[3], rex, 64, TRUE, 64) = [operand |-> RegRead(8 * y + rm), next |-> 4]
  BY <1>5 DEF RmField, Register
<1>7. Register(8 * x + reg, 64, TRUE) = RegRead(8 * x + reg)
  BY DEF Register
<1>8. (op < 64 /\ op % 8 < 4) \/ op \in 136 .. 139
  OBVIOUS
<1>9. Instruction(b) = WithModRM(op, 64, RmField(b, 4, b[3], rex, 64, TRUE, 64),
                                 Register(8 * ((rex \div 4) % 2) + ((b[3] \div 8) % 8), 64, TRUE))
  <2>1. ASSUME NEW r
        PROVE  AfterPrefixes(b, 2, op, 0, r, rex, 64)
                 = WithModRM(op, 64, RmField(b, 4, b[3], rex, 64, r, 64),
                             Register(8 * ((rex \div 4) % 2) + ((b[3] \div 8) % 8), 64, r))
    BY <1>8, ReadsModRM
  <2> QED BY <1>4, <2>1, Zenon
<1>10. (op \div 2) % 2 = 0
  OBVIOUS
<1>11. Instruction(b) = result
  <2>1. ASSUME NEW A, NEW B
        PROVE  WithModRM(op, 64, [operand |-> A, next |-> 4], B)
                 = [op |-> 8 * (op \div 8), width |-> 64, len |-> 3, ops |-> <<A, B>>]
    BY <1>10 DEF WithModRM
  <2>2. Register(8 * ((rex \div 4) % 2) + ((b[3] \div 8) % 8), 64, TRUE) = RegRead(8 * x + reg)
    BY <1>5, <1>7, Zenon
  <2>3. Instruction(b) = WithModRM(op, 64, [operand |-> RegRead(8 * y + rm), next |-> 4],
                                   RegRead(8 * x + reg))
    BY <1>6, <1>9, <2>2, Zenon
  <2> QED BY <2>1, <2>3
<1>12. Complete(result, Len(d)) = result
  BY DEF Complete
<1> QED BY <1>11, <1>12 DEF Decoded, b

-----------------------------------------------------------------------------
(* Writing an instruction. *)

\* REX, opcode and ModRM: the extension of the register in the r/m field is in
\* the bit of the reg field and the other way round.
RegisterBytes(op, d, s) ==
    <<72 + 4 * Bit(Extended(d)) + Bit(Extended(s)), op, 192 + 8 * (s % 8) + (d % 8)>>

\* What the tables say of these opcodes.
IsWordDesc(desc) ==
    /\ desc.ops = <<RM(64), R(64)>> /\ desc.form = "RM_R"
    /\ "REX" \in desc.flags /\ "MODRM" \in desc.flags

LEMMA WordDesc ==
    ASSUME NEW op \in WordOpcodes
    PROVE  IsWordDesc(_i64_lookup_opcode_meta(I64Opcode(op)))
<1>1. _i64_lookup_opcode_meta(I64Opcode(op)) = L1_OPCODE_META_TABLE[op] /\ op \in 0 .. 255
  BY DEF _i64_lookup_opcode_meta, I64Opcode, WordOpcodes
<1> DEFINE form == (op % 8) + 1
<1>4. L1_OPCODE_META_TABLE[op]
        = CASE 8 * (op \div 8) \in AluGroups /\ form <= Len(AluRow) -> AluRow[form]
            [] 8 * (op \div 8) = MovGroup /\ form <= Len(MovRow) -> MovRow[form]
            [] op = PUSH_R64 -> PushRow
            [] OTHER -> NoDesc
  BY <1>1, Zenon DEF L1_OPCODE_META_TABLE
<1>2. CASE op \in {1, 9, 33, 41}
  <2>1. 8 * (op \div 8) \in AluGroups /\ (op % 8) + 1 = 2 /\ Len(AluRow) = 6
    BY <1>2 DEF AluGroups, AluRow
  <2>2. L1_OPCODE_META_TABLE[op] = AluRow[2]
    <3>1. form = 2 /\ form <= Len(AluRow) /\ 8 * (op \div 8) # MovGroup /\ op # PUSH_R64
      BY <1>2, <2>1 DEF MovGroup, PUSH_R64
    <3> HIDE DEF form
    <3> QED BY <1>4, <2>1, <3>1, Zenon
  <2>3. AluRow[2] = Desc(<<RM(64), R(64)>>, {"REX", "MODRM", "LEGACY"}, "RM_R")
    BY DEF AluRow
  <2> QED BY <1>1, <2>2, <2>3 DEF Desc, IsWordDesc
<1>3. CASE op = 137
  <2>1. 8 * (op \div 8) = MovGroup /\ (op % 8) + 1 = 2 /\ Len(MovRow) = 4 /\ MovGroup \notin AluGroups
    BY <1>3 DEF MovGroup, MovRow, AluGroups
  <2>2. L1_OPCODE_META_TABLE[op] = MovRow[2]
    <3>1. form = 2 /\ form <= Len(MovRow) /\ 8 * (op \div 8) \notin AluGroups /\ op # PUSH_R64
      BY <1>3, <2>1 DEF PUSH_R64
    <3> HIDE DEF form
    <3> QED BY <1>4, <2>1, <3>1, Zenon
  <2>3. MovRow[2] = Desc(<<RM(64), R(64)>>, {"REX", "MODRM"}, "RM_R")
    BY DEF MovRow
  <2> QED BY <1>1, <2>2, <2>3 DEF Desc, IsWordDesc
<1> QED BY <1>2, <1>3 DEF WordOpcodes

\* The summary of two registers of 64 bits.
IsWordSum(sum, d, s) ==
    /\ sum.flip /\ sum.wide
    /\ sum.dest <=> Extended(s)
    /\ sum.src <=> Extended(d)
    /\ ~sum.mem /\ ~sum.sib /\ ~sum.index /\ ~sum.address32 /\ ~sum.is16
    /\ ~sum.disp8 /\ ~sum.disp32
    /\ sum.sibAt = 1

LEMMA WordSum ==
    ASSUME NEW desc, IsWordDesc(desc), NEW d \in 0 .. 15, NEW s \in 0 .. 15
    PROVE  IsWordSum(SumCalc(desc, <<RegOperand(d, 64), RegOperand(s, 64)>>), d, s)
<1> DEFINE ops == <<RegOperand(d, 64), RegOperand(s, 64)>>
<1>1. \A i \in 1 .. 2 : ops[i].type = {"REG"} /\ ops[i].width = 64
  <2>1. \A id : RegOperand(id, 64).type = {"REG"} /\ RegOperand(id, 64).width = 64
    BY DEF RegOperand, NoOperand
  <2> QED BY <2>1
<1>2. ops[1].id = d /\ ops[2].id = s
  BY DEF RegOperand, NoOperand
<1>3. Given(desc) = 1 .. 2 /\ Flips(desc.form)
  BY DEF IsWordDesc, Given, Flips
<1>4. \A i \in 1 .. 2 : /\ "MEM" \notin ops[i].type /\ "SIB" \notin ops[i].type
                        /\ "DISP8" \notin ops[i].type /\ "DISP32" \notin ops[i].type
  BY <1>1
<1>5. AllWide(desc, ops)
  BY <1>1, <1>3 DEF AllWide
<1> HIDE DEF ops
<1>6. \A i \in 1 .. 2 : ~(ops[i].width = 16)
  BY <1>1
<1> QED BY <1>2, <1>3, <1>4, <1>5, <1>6, Zenon DEF SumCalc, IsMem, IsSib, IsWordSum, ops

\* Three bytes in a row.
LEMMA ThreeBytes ==
    ASSUME NEW a \in Nat, NEW b \in Nat, NEW c \in Nat
    PROVE  <<a>> \o <<b>> = <<a, b>> /\ <<a, b>> \o <<c>> = <<a, b, c>>
<1> DEFINE u == <<a>> \o <<b>>
           v == <<a, b>> \o <<c>>
<1>1. u \in Seq(Nat) /\ Len(u) = 2 /\ u[1] = a /\ u[2] = b
  OBVIOUS
<1>2. v \in Seq(Nat) /\ Len(v) = 3 /\ v[1] = a /\ v[2] = b /\ v[3] = c
  OBVIOUS
<1> HIDE DEF u, v
<1>3. u = <<a, b>>
  BY <1>1
<1>4. v = <<a, b, c>>
  BY <1>2
<1> QED BY <1>3, <1>4 DEF u, v

\* The bytes of an instruction on two registers: no byte is left out, since none
\* of the three is ever zero.
LEMMA EmitsRegisters ==
    ASSUME NEW op \in WordOpcodes, NEW d \in 0 .. 15, NEW s \in 0 .. 15
    PROVE  i64_emit_64(I64Opcode(op), <<RegOperand(d, 64), RegOperand(s, 64)>>)
             = RegisterBytes(op, d, s)
<1> DEFINE ops == <<RegOperand(d, 64), RegOperand(s, 64)>>
           desc == _i64_lookup_opcode_meta(I64Opcode(op))
           sum == SumCalc(desc, ops)
           rex == 72 + 4 * Bit(Extended(d)) + Bit(Extended(s))
           modrm == 192 + 8 * (s % 8) + (d % 8)
           With(flag, byte) == IF flag \in desc.flags THEN Present(byte) ELSE <<>>
<1>1. IsWordDesc(desc)
  BY WordDesc
<1>2. IsWordSum(sum, d, s)
  BY <1>1, WordSum
<1>3. ops[1].id = d /\ ops[2].id = s
  BY DEF RegOperand, NoOperand
<1>4. i64_emit_64(I64Opcode(op), ops)
        = With("LEGACY", _i64_leg_resolve(sum)) \o With("REX", _i64_rex_resolve(sum))
          \o <<I64Opcode(op).val>> \o With("MODRM", _i64_modrm_resolve(ops, sum))
          \o Present(_i64_sib_resolve(ops[sum.sibAt], sum)) \o Displacement(ops[sum.sibAt], sum)
  BY Zenon DEF i64_emit_64
<1> HIDE DEF desc, sum, ops
<1>5. _i64_leg_resolve(sum) = 0
  BY <1>2 DEF IsWordSum, _i64_leg_resolve
<1>6. _i64_rex_resolve(sum) = rex /\ rex \in 72 .. 77
  <2>1. Bit(Extended(d)) \in 0 .. 1 /\ Bit(Extended(s)) \in 0 .. 1
    BY DEF Bit
  <2>2. Bit(sum.wide) = 1 /\ Bit(sum.index) = 0
    BY <1>2 DEF IsWordSum, Bit
  <2>3. Bit(sum.src) = Bit(Extended(d)) /\ Bit(sum.dest) = Bit(Extended(s))
    BY <1>2 DEF IsWordSum, Bit
  <2> DEFINE full == 64 + 8 * Bit(sum.wide) + 4 * Bit(sum.src) + 2 * Bit(sum.index) + Bit(sum.dest)
  <2>4. _i64_rex_resolve(sum) = IF full = 64 THEN 0 ELSE full
    BY <1>2, Zenon DEF IsWordSum, _i64_rex_resolve
  <2>5. full = rex
    BY <2>1, <2>2, <2>3
  <2> HIDE DEF full
  <2> QED BY <2>1, <2>4, <2>5
<1>7. _i64_modrm_resolve(ops, sum) = modrm /\ modrm \in 192 .. 255
  <2>1. Mod(sum) = 3
    BY <1>2 DEF IsWordSum, Mod
  <2>2. _i64_modrm_resolve(ops, sum) = 64 * Mod(sum) + 8 * (s % 8) + (d % 8)
    BY <1>2, <1>3, Zenon DEF IsWordSum, _i64_modrm_resolve
  <2> QED BY <2>1, <2>2
<1>8. _i64_sib_resolve(ops[sum.sibAt], sum) = 0 /\ Displacement(ops[sum.sibAt], sum) = <<>>
  BY <1>2 DEF IsWordSum, _i64_sib_resolve, Displacement
<1> HIDE DEF rex, modrm
<1>9. /\ With("LEGACY", 0) = <<>> /\ With("REX", rex) = <<rex>>
      /\ With("MODRM", modrm) = <<modrm>> /\ Present(0) = <<>>
  BY <1>1, <1>6, <1>7 DEF IsWordDesc, Present
<1> HIDE DEF With
<1>10. i64_emit_64(I64Opcode(op), ops)
         = <<>> \o <<rex>> \o <<op>> \o <<modrm>> \o <<>> \o <<>>
  BY <1>4, <1>5, <1>6, <1>7, <1>8, <1>9 DEF I64Opcode
<1>11. <<>> \o <<rex>> \o <<op>> \o <<modrm>> \o <<>> \o <<>> = <<rex, op, modrm>>
  <2>1. <<>> \o <<rex>> = <<rex>>
    OBVIOUS
  <2>2. rex \in Nat /\ op \in Nat /\ modrm \in Nat
    BY <1>6, <1>7 DEF WordOpcodes
  <2>3. <<rex>> \o <<op>> = <<rex, op>> /\ <<rex, op>> \o <<modrm>> = <<rex, op, modrm>>
    BY <2>2, ThreeBytes
  <2>4. <<rex, op, modrm>> \o <<>> = <<rex, op, modrm>>
    OBVIOUS
  <2> QED BY <2>1, <2>2, <2>3, <2>4, Zenon
<1> QED BY <1>10, <1>11 DEF RegisterBytes, rex, modrm, ops

\* The opcode byte of an IR group.
WordOf == [ADD |-> 1, OR |-> 9, AND |-> 33, SUB |-> 41, MOV |-> 137]
Folded == {"ADD", "OR", "AND", "SUB"}

\* The tables from an IR opcode to the host's.
LEMMA WordOfGroup ==
    ASSUME NEW g \in Folded \cup {"MOV"}
    PROVE  LET opcode == IrOpcode(g, "I32") IN
           /\ \A d, s : _i64_ir_opcode_trans(IR_OPCODE_GROUP(opcode), IR_OPCODE_WIDTH(opcode),
                                            IrReg(d), IrReg(s)) = I64Opcode(WordOf[g])
           /\ WordOf[g] \in WordOpcodes
           /\ 8 * (WordOf[g] \div 8) = Operation[g]
           /\ g # "MOV" => IR_OPCODE_FLAGS(opcode) # IR_DEST_NEQ_SRC
<1> DEFINE opcode == IrOpcode(g, "I32")
<1>1. \A d, s : _i64_ir_opcode_form_res(IrReg(d), IrReg(s)) = "RM_R"
  BY DEF _i64_ir_opcode_form_res, IrReg
<1>2. IR_OPCODE_WIDTH(opcode) = 2 /\ IrWidth["I8"] = 0
  BY DEF IrOpcode, IR_OPCODE_WIDTH, IrWidth, IrGroup, IR_DEST_NEQ_SRC, Folded
<1>3. CASE g = "ADD"
  BY <1>1, <1>2, <1>3 DEF IrOpcode, IR_OPCODE_GROUP, IR_OPCODE_FLAGS, IrWidth, IrGroup,
     IR_DEST_NEQ_SRC, I64_IR_GROUP_TO_GENERIC, I64_IR_GENERIC_TO_SPECIFIC,
     _i64_ir_opcode_trans, WordOf, WordOpcodes, AluGroups, Operation
<1>4. CASE g = "OR"
  BY <1>1, <1>2, <1>4 DEF IrOpcode, IR_OPCODE_GROUP, IR_OPCODE_FLAGS, IrWidth, IrGroup,
     IR_DEST_NEQ_SRC, I64_IR_GROUP_TO_GENERIC, I64_IR_GENERIC_TO_SPECIFIC,
     _i64_ir_opcode_trans, WordOf, WordOpcodes, AluGroups, Operation
<1>5. CASE g = "AND"
  BY <1>1, <1>2, <1>5 DEF IrOpcode, IR_OPCODE_GROUP, IR_OPCODE_FLAGS, IrWidth, IrGroup,
     IR_DEST_NEQ_SRC, I64_IR_GROUP_TO_GENERIC, I64_IR_GENERIC_TO_SPECIFIC,
     _i64_ir_opcode_trans, WordOf, WordOpcodes, AluGroups, Operation
<1>6. CASE g = "SUB"
  BY <1>1, <1>2, <1>6 DEF IrOpcode, IR_OPCODE_GROUP, IR_OPCODE_FLAGS, IrWidth, IrGroup,
     IR_DEST_NEQ_SRC, I64_IR_GROUP_TO_GENERIC, I64_IR_GENERIC_TO_SPECIFIC,
     _i64_ir_opcode_trans, WordOf, WordOpcodes, AluGroups, Operation
<1>7. CASE g = "MOV"
  BY <1>1, <1>2, <1>7 DEF IrOpcode, IR_OPCODE_GROUP, IR_OPCODE_FLAGS, IrWidth, IrGroup,
     IR_DEST_NEQ_SRC, I64_IR_GROUP_TO_GENERIC, I64_IR_GENERIC_TO_SPECIFIC,
     _i64_ir_opcode_trans, WordOf, WordOpcodes, AluGroups, Operation
<1> QED BY <1>3, <1>4, <1>5, <1>6, <1>7 DEF Folded

\* An IR instruction of group g, whose registers are d and s.
IrOps(g, d, s) ==
    IF g = "MOV" THEN <<IrReg(d), IrReg(s)>> ELSE <<IrReg(d), IrReg(d), IrReg(s)>>
IsIrInstr(instr, g, d, s) ==
    /\ g \in Folded \cup {"MOV"} /\ d \in 0 .. 15 /\ s \in 0 .. 15
    /\ g = "MOV" => d # s
    /\ instr = IrInstrOf(IrOpcode(g, "I32"), IrOps(g, d, s))

\* The operands of the host instruction are d and s, in 64 bits.
LEMMA IrInstrConverted ==
    ASSUME NEW instr, NEW g, NEW d, NEW s, IsIrInstr(instr, g, d, s)
    PROVE  /\ ConvOpcode(instr) = I64Opcode(WordOf[g])
           /\ ConvOperand(instr, 1) = RegOperand(d, 64)
           /\ ConvOperand(instr, 2) = RegOperand(s, 64)
           /\ Accepts(instr)
<1> DEFINE opcode == IrOpcode(g, "I32")
           k == Skipped(instr)
           op == WordOf[g]
<1>1. instr.opcode = opcode /\ instr.ops = IrOps(g, d, s)
  BY DEF IsIrInstr, IrInstrOf
<1>2. /\ k = IF g = "MOV" THEN 0 ELSE 1
      /\ Len(instr.ops) = k + 2
      /\ IrOpAt(instr, k + 1) = IrReg(d) /\ IrOpAt(instr, k + 2) = IrReg(s)
  <2>1. CASE g = "MOV"
    <3>1. instr.ops = <<IrReg(d), IrReg(s)>> /\ d # s
      BY <1>1, <2>1 DEF IrOps, IsIrInstr
    <3>2. Len(instr.ops) = 2 /\ IrOpAt(instr, 1) = IrReg(d) /\ IrOpAt(instr, 2) = IrReg(s)
      BY <3>1 DEF IrOpAt
    <3>3. k = 0
      BY <3>1, <3>2 DEF Skipped, IrReg
    <3> QED BY <2>1, <3>2, <3>3
  <2>2. CASE g # "MOV"
    <3>1. instr.ops = <<IrReg(d), IrReg(d), IrReg(s)>>
      BY <1>1, <2>2 DEF IrOps
    <3>2. /\ Len(instr.ops) = 3 /\ IrOpAt(instr, 1) = IrReg(d)
          /\ IrOpAt(instr, 2) = IrReg(d) /\ IrOpAt(instr, 3) = IrReg(s)
      BY <3>1 DEF IrOpAt
    <3>3. k = 1
      BY <3>2 DEF Skipped
    <3> QED BY <2>2, <3>2, <3>3
  <2> QED BY <2>1, <2>2
<1>3. /\ \A x, y : _i64_ir_opcode_trans(IR_OPCODE_GROUP(opcode), IR_OPCODE_WIDTH(opcode),
                                       IrReg(x), IrReg(y)) = I64Opcode(op)
      /\ op \in WordOpcodes
      /\ g # "MOV" => IR_OPCODE_FLAGS(opcode) # IR_DEST_NEQ_SRC
  BY WordOfGroup DEF IsIrInstr
<1>4. ConvOpcode(instr) = I64Opcode(op)
  BY <1>1, <1>2, <1>3, Zenon DEF ConvOpcode
<1> DEFINE desc == _i64_lookup_opcode_meta(I64Opcode(op))
<1>5. IsWordDesc(desc)
  BY <1>3, WordDesc
<1>6. d \in 0 .. 15 /\ s \in 0 .. 15
  BY DEF IsIrInstr
<1> HIDE DEF op, desc, k
<1>7. ASSUME NEW x \in 0 .. 15, NEW y \in {R(64), RM(64)}
      PROVE  _i64_ir_operand_trans(IrReg(x), y) = RegOperand(x, 64)
  <2>1. y.type \cap {"REG"} = {"REG"} /\ y.width = 64
    BY DEF R, RM
  <2>2. IrReg(x).kind = "REG" /\ I64_REG_TO_OPERAND[IrReg(x).id] = x
    BY DEF IrReg, I64_REG_TO_OPERAND
  <2>3. _i64_ir_operand_trans(IrReg(x), y)
          = [NoOperand EXCEPT !.id = x, !.type = {"REG"}, !.width = 64]
    BY <2>1, <2>2, Zenon DEF _i64_ir_operand_trans
  <2>4. [NoOperand EXCEPT !.id = x, !.type = {"REG"}, !.width = 64]
          = [NoOperand EXCEPT !.type = {"REG"}, !.id = x, !.width = 64]
    BY DEF NoOperand
  <2> QED BY <2>3, <2>4, Zenon DEF RegOperand
<1>8. Len(desc.ops) = 2 /\ desc.ops[1] = RM(64) /\ desc.ops[2] = R(64)
  BY <1>5 DEF IsWordDesc
<1>9. ConvOperand(instr, 1) = _i64_ir_operand_trans(IrOpAt(instr, 1 + k), desc.ops[1])
  <2>1. 1 + k <= Len(instr.ops) /\ 1 <= Len(desc.ops)
    BY <1>2, <1>8
  <2> QED BY <1>4, <2>1, Zenon DEF ConvOperand, desc, k
<1>10. ConvOperand(instr, 2) = _i64_ir_operand_trans(IrOpAt(instr, 2 + k), desc.ops[2])
  <2>1. 2 + k <= Len(instr.ops) /\ 2 <= Len(desc.ops)
    BY <1>2, <1>8
  <2> QED BY <1>4, <2>1, Zenon DEF ConvOperand, desc, k
<1>11. 1 + k = k + 1 /\ 2 + k = k + 2
  BY <1>2
<1>12. ConvOperand(instr, 1) = RegOperand(d, 64) /\ ConvOperand(instr, 2) = RegOperand(s, 64)
  BY <1>2, <1>6, <1>7, <1>8, <1>9, <1>10, <1>11
<1>13. Accepts(instr)
  <2>1. desc.form = _i64_ir_opcode_form_res(IrOpAt(instr, k + 1), IrOpAt(instr, k + 2))
    BY <1>2, <1>5 DEF IsWordDesc, _i64_ir_opcode_form_res, IrReg
  <2>2. ~ /\ IrOpAt(instr, 1).id = IrOpAt(instr, 2).id
          /\ IR_OPCODE_FLAGS(instr.opcode) = IR_DEST_NEQ_SRC
    BY <1>1, <1>2, <1>3 DEF k, Skipped
  <2> QED BY <1>4, <2>1, <2>2, Zenon DEF Accepts, k, desc
<1> QED BY <1>4, <1>12, <1>13 DEF op

\* The bytes of an IR instruction are three.
LEMMA RegisterBytesType ==
    ASSUME NEW op \in WordOpcodes, NEW d \in 0 .. 15, NEW s \in 0 .. 15
    PROVE  RegisterBytes(op, d, s) \in Seq(Byte) /\ Len(RegisterBytes(op, d, s)) = 3
<1> DEFINE rex == 72 + 4 * Bit(Extended(d)) + Bit(Extended(s))
           modrm == 192 + 8 * (s % 8) + (d % 8)
<1>1. Bit(Extended(d)) \in 0 .. 1 /\ Bit(Extended(s)) \in 0 .. 1
  BY DEF Bit
<1>2. rex \in 0 .. 255 /\ op \in 0 .. 255 /\ modrm \in 0 .. 255
  BY <1>1 DEF WordOpcodes
<1> HIDE DEF rex, modrm
<1>3. <<rex, op, modrm>> \in Seq(Byte) /\ Len(<<rex, op, modrm>>) = 3
  BY <1>2 DEF Byte
<1> QED BY <1>3, Zenon DEF RegisterBytes, rex, modrm

\* The three bytes of an IR instruction.
LEMMA IrInstrWrites ==
    ASSUME NEW instr, NEW g, NEW d, NEW s, IsIrInstr(instr, g, d, s)
    PROVE  /\ i64_ir_to_raw(instr) = RegisterBytes(WordOf[g], d, s)
           /\ i64_ir_to_raw(instr) \in Seq(Byte) /\ Len(i64_ir_to_raw(instr)) = 3
<1>1. WordOf[g] \in WordOpcodes
  BY WordOfGroup DEF IsIrInstr
<1>2. d \in 0 .. 15 /\ s \in 0 .. 15
  BY DEF IsIrInstr
<1>3. i64_ir_to_raw(instr)
        = i64_emit_64(I64Opcode(WordOf[g]), <<RegOperand(d, 64), RegOperand(s, 64)>>)
  BY IrInstrConverted, Zenon DEF i64_ir_to_raw
<1>4. i64_ir_to_raw(instr) = RegisterBytes(WordOf[g], d, s)
  BY <1>1, <1>2, <1>3, EmitsRegisters
<1> QED BY <1>1, <1>2, <1>4, RegisterBytesType

\* What a processor reads from them.
ReadBack(d, s) ==
    <<RegRead(8 * Bit(Extended(s)) + (d % 8)), RegRead(8 * Bit(Extended(d)) + (s % 8))>>

\* Code that begins with the bytes w.
Begins(c, w) == Len(w) <= Len(c) /\ \A k \in 1 .. Len(w) : c[k] = w[k]

LEMMA IrInstrIsRead ==
    ASSUME NEW instr, NEW g, NEW d, NEW s, IsIrInstr(instr, g, d, s),
           NEW c \in Seq(Byte), Begins(c, i64_ir_to_raw(instr))
    PROVE  Decoded(c) = [op |-> Operation[g], width |-> 64, len |-> 3, ops |-> ReadBack(d, s)]
<1> DEFINE x == Bit(Extended(d))
           y == Bit(Extended(s))
           op == WordOf[g]
           reg == s % 8
           rm == d % 8
<1>1. op \in WordOpcodes /\ 8 * (op \div 8) = Operation[g]
  BY WordOfGroup DEF IsIrInstr
<1>2. d \in 0 .. 15 /\ s \in 0 .. 15
  BY DEF IsIrInstr
<1>3. x \in 0 .. 1 /\ y \in 0 .. 1 /\ rm \in 0 .. 7 /\ reg \in 0 .. 7
  BY <1>2 DEF Bit
<1>4. i64_ir_to_raw(instr) = <<72 + 4 * x + y, op, 192 + 8 * reg + rm>>
  <2>1. i64_ir_to_raw(instr) = RegisterBytes(WordOf[g], d, s)
    BY IrInstrWrites
  <2> QED BY <2>1, Zenon DEF RegisterBytes
<1> HIDE DEF x, y, op, reg, rm
<1>5. Len(c) >= 3 /\ c[1] = 72 + 4 * x + y /\ c[2] = op /\ c[3] = 192 + 8 * reg + rm
  BY <1>4 DEF Begins
<1>6. Decoded(c) = [op |-> 8 * (op \div 8), width |-> 64, len |-> 3,
                    ops |-> <<RegRead(8 * y + rm), RegRead(8 * x + reg)>>]
  BY <1>1, <1>3, <1>5, ReadsRegisters, ZenonT(60)
<1> QED BY <1>1, <1>6, Zenon DEF ReadBack, x, y, reg, rm

\* The registers are the ones asked for if and only if both are below r8 or both
\* are not.
LEMMA ReadBackIsRight ==
    ASSUME NEW d \in 0 .. 15, NEW s \in 0 .. 15
    PROVE  ReadBack(d, s) = <<RegRead(d), RegRead(s)>> <=> (Extended(d) <=> Extended(s))
<1>1. ASSUME NEW x, NEW y PROVE RegRead(x) = RegRead(y) <=> x = y
  BY DEF RegRead
<1>2. ReadBack(d, s) = <<RegRead(d), RegRead(s)>>
        <=> 8 * Bit(Extended(s)) + (d % 8) = d /\ 8 * Bit(Extended(d)) + (s % 8) = s
  BY <1>1 DEF ReadBack
<1>3. 8 * Bit(Extended(d)) + (d % 8) = d /\ 8 * Bit(Extended(s)) + (s % 8) = s
  BY DEF Bit, Extended
<1>4. Bit(Extended(d)) = Bit(Extended(s)) <=> (Extended(d) <=> Extended(s))
  BY DEF Bit
<1>5. Bit(Extended(d)) \in 0 .. 1 /\ Bit(Extended(s)) \in 0 .. 1 /\ d % 8 \in 0 .. 7 /\ s % 8 \in 0 .. 7
  BY DEF Bit
<1> QED BY <1>2, <1>3, <1>4, <1>5
-----------------------------------------------------------------------------
(* Code as it grows. *)

\* The code c is n pieces one behind the other, W[i] the i-th, beginning at at[i].
Written(c, n, at, W) ==
    /\ c \in Seq(Byte) /\ n \in Nat
    /\ at \in [1 .. n + 1 -> Nat] /\ at[1] = 1 /\ at[n + 1] = Len(c) + 1
    /\ \A i \in 1 .. n :
          /\ W[i] \in Seq(Byte)
          /\ at[i] >= 1 /\ at[i + 1] = at[i] + Len(W[i]) /\ at[i + 1] <= Len(c) + 1
          /\ \A k \in 1 .. Len(W[i]) : c[at[i] + k - 1] = W[i][k]

\* No code is written in no pieces.
LEMMA WrittenNone ==
    ASSUME NEW W
    PROVE  Written(<<>>, 0, [i \in 1 .. 1 |-> 1], W)
BY DEF Written

\* One piece more.
LEMMA WrittenOneMore ==
    ASSUME NEW c, NEW n, NEW at, NEW W, Written(c, n, at, W), NEW w \in Seq(Byte),
           NEW V, \A i \in 1 .. n : V[i] = W[i], V[n + 1] = w
    PROVE  \E a : Written(c \o w, n + 1, a, V)
<1> DEFINE e == c \o w
           a == [i \in 1 .. n + 2 |-> IF i = n + 2 THEN Len(e) + 1 ELSE at[i]]
<1>1. c \in Seq(Byte) /\ n \in Nat /\ at \in [1 .. n + 1 -> Nat] /\ at[1] = 1 /\ at[n + 1] = Len(c) + 1
  BY DEF Written
<1>2. e \in Seq(Byte) /\ Len(e) = Len(c) + Len(w) /\ \A k \in 1 .. Len(c) : e[k] = c[k]
  BY <1>1, Appended
<1>3. \A k \in 1 .. Len(w) : e[Len(c) + k] = w[k]
  BY <1>1, AppendedAt
<1>4. Len(c) \in Nat /\ Len(w) \in Nat
  BY <1>1
<1> HIDE DEF e
<1>5. a \in [1 .. (n + 1) + 1 -> Nat] /\ a[1] = 1 /\ a[n + 2] = Len(e) + 1 /\ a[n + 1] = Len(c) + 1
  BY <1>1, <1>2, <1>4
<1>6. \A i \in 1 .. n + 1 : a[i] = at[i]
  BY <1>1
<1> HIDE DEF a
<1>7. ASSUME NEW i \in 1 .. n + 1
      PROVE  /\ V[i] \in Seq(Byte)
             /\ a[i] >= 1 /\ a[i + 1] = a[i] + Len(V[i]) /\ a[i + 1] <= Len(e) + 1
             /\ \A k \in 1 .. Len(V[i]) : e[a[i] + k - 1] = V[i][k]
  <2>1. CASE i = n + 1
    <3>1. V[i] = w /\ a[i] = Len(c) + 1 /\ a[i + 1] = Len(e) + 1
      BY <1>1, <1>5, <2>1
    <3>2. \A k \in 1 .. Len(w) : a[i] + k - 1 = Len(c) + k
      BY <1>4, <3>1
    <3>3. \A k \in 1 .. Len(V[i]) : e[a[i] + k - 1] = V[i][k]
      BY <1>3, <3>1, <3>2
    <3>4. a[i] >= 1 /\ a[i + 1] = a[i] + Len(w) /\ a[i + 1] <= Len(e) + 1
      BY <1>2, <1>4, <3>1
    <3> QED BY <3>1, <3>3, <3>4
  <2>2. CASE i # n + 1
    <3>1. i \in 1 .. n /\ i + 1 \in 1 .. n + 1 /\ V[i] = W[i] /\ a[i] = at[i] /\ a[i + 1] = at[i + 1]
      BY <1>1, <1>6, <2>2
    <3>2. /\ W[i] \in Seq(Byte)
          /\ at[i] >= 1 /\ at[i + 1] = at[i] + Len(W[i]) /\ at[i + 1] <= Len(c) + 1
          /\ \A k \in 1 .. Len(W[i]) : c[at[i] + k - 1] = W[i][k]
      BY <3>1 DEF Written
    <3>3. at[i] \in Nat /\ Len(W[i]) \in Nat
      BY <1>1, <3>1, <3>2
    <3>4. ASSUME NEW k \in 1 .. Len(W[i]) PROVE e[at[i] + k - 1] = W[i][k]
      <4>1. at[i] + k - 1 \in 1 .. Len(c)
        BY <1>4, <3>2, <3>3
      <4> QED BY <1>2, <3>2, <4>1
    <3> QED BY <1>2, <1>4, <3>1, <3>2, <3>3, <3>4
  <2> QED BY <2>1, <2>2
<1>8. Written(e, n + 1, a, V)
  BY <1>1, <1>2, <1>5, <1>7 DEF Written
<1> QED BY <1>8 DEF e

\* Pieces that are read as one instruction each, wherever they are, are read one
\* after the other.
LEMMA WrittenIsRead ==
    ASSUME NEW c, NEW n, NEW at, NEW W, Written(c, n, at, W), NEW X,
           \A i \in 1 .. n : X[i] # Undecodable /\ X[i].len = Len(W[i]) /\ Len(W[i]) > 0,
           \A i \in 1 .. n : \A e \in Seq(Byte) : Begins(e, W[i]) => Decoded(e) = X[i]
    PROVE  Disassembly(c) = [i \in 1 .. n |-> X[i]]
<1>1. /\ c \in Seq(Byte) /\ n \in Nat /\ at \in [1 .. n + 1 -> Nat] /\ at[1] = 1
      /\ at[n + 1] = Len(c) + 1 /\ Len(c) \in Nat
  BY DEF Written
<1>2. Progress(c)
  BY <1>1, ReadingProgresses, Zenon
<1>3. ASSUME NEW i \in 1 .. n
      PROVE  /\ At(c, at[i]) = X[i] /\ at[i] \in 1 .. Len(c)
             /\ X[i] # Undecodable /\ at[i + 1] = at[i] + X[i].len
  <2> DEFINE e == SubSeq(c, at[i], Len(c))
             w == W[i]
             m == at[i]
  <2>1. /\ w \in Seq(Byte) /\ m \in Nat /\ m >= 1 /\ at[i + 1] = m + Len(w) /\ at[i + 1] <= Len(c) + 1
        /\ \A k \in 1 .. Len(w) : c[m + k - 1] = w[k]
    BY <1>1 DEF Written
  <2>2. Len(w) \in Nat /\ Len(w) > 0
    BY <2>1
  <2> HIDE DEF w, m
  <2>3. m \in 1 .. Len(c) /\ Len(w) <= Len(c) + 1 - m
    BY <1>1, <2>1, <2>2
  <2>4. ASSUME NEW S, NEW u \in Seq(S), NEW j \in 1 .. Len(u)
        PROVE  /\ SubSeq(u, j, Len(u)) \in Seq(S) /\ Len(SubSeq(u, j, Len(u))) = Len(u) + 1 - j
               /\ \A k \in 1 .. Len(u) + 1 - j : SubSeq(u, j, Len(u))[k] = u[j + k - 1]
    BY <2>4
  <2>5. /\ e \in Seq(Byte) /\ Len(e) = Len(c) + 1 - m
        /\ \A k \in 1 .. Len(c) + 1 - m : e[k] = c[m + k - 1]
    BY <1>1, <2>3, <2>4 DEF m
  <2> HIDE DEF e
  <2>6. \A k \in 1 .. Len(w) : k \in 1 .. Len(c) + 1 - m
    BY <1>1, <2>2, <2>3
  <2>7. Begins(e, w)
    BY <2>1, <2>3, <2>5, <2>6 DEF Begins
  <2>8. Decoded(e) = X[i]
    BY <2>5, <2>7 DEF w
  <2>9. X[i] # Undecodable /\ X[i].len = Len(w)
    BY DEF w
  <2> QED BY <2>1, <2>3, <2>8, <2>9 DEF At, e, m
<1>4. Chunks(c, n, at)
  BY <1>1, <1>3 DEF Chunks
<1>5. Disassembly(c) = [i \in 1 .. n |-> At(c, at[i])]
  BY <1>1, <1>2, <1>4, DisassemblyOfChunks
<1> QED BY <1>3, <1>5

\* What comes first in a disassembly.
LEMMA FirstOfDisassembly ==
    ASSUME NEW c, Len(c) \in Nat \ {0}, Progress(c)
    PROVE  Disassembly(c)[1] = At(c, 1)
<1> DEFINE S == {At(c, i) : i \in 1 .. Len(c)}
<1>1. PICK f : ReadFrom(c, 1, f) /\ Disassembly(c) = f[1]
  BY DisassemblyIsReadFrom
<1> DEFINE T == {k \in 0 .. Len(c) : f[Len(c) + 1 - k] \notin Seq(S)}
<1>2. ASSUME NEW j \in 1 .. Len(c) + 1 PROVE f[j] = Rest(c, f, j)
  BY <1>1, Zenon DEF ReadFrom
<1>3. T = {}
  <2> SUFFICES ASSUME T # {} PROVE FALSE
    OBVIOUS
  <2>1. PICK k \in T : \A y \in T : k <= y
    <3>1. T \subseteq Nat
      OBVIOUS
    <3> HIDE DEF T
    <3> QED BY <3>1, LeastElement
  <2> DEFINE j == Len(c) + 1 - k
  <2>2. k \in 0 .. Len(c) /\ j \in 1 .. Len(c) + 1 /\ f[j] \notin Seq(S)
    BY <2>1
  <2>3. j \in 1 .. Len(c)
    <3>1. k = 0 => f[j] = <<>>
      <4>1. k = 0 => j > Len(c)
        OBVIOUS
      <4> QED BY <1>2, <2>2, <4>1, Zenon DEF Rest
    <3>2. <<>> \in Seq(S)
      OBVIOUS
    <3>3. k # 0
      <4> HIDE DEF j, S
      <4> QED BY <2>2, <3>1, <3>2
    <3> HIDE DEF T, S
    <3> QED BY <2>2, <3>3
  <2> DEFINE x == At(c, j)
  <2>4. x \in S
    BY <2>3
  <2>5. f[j] = IF x = Undecodable THEN <<x>> ELSE <<x>> \o f[j + x.len]
    <3>1. ~(j > Len(c))
      BY <2>3
    <3> HIDE DEF j
    <3> QED BY <1>2, <2>2, <3>1, Zenon DEF Rest
  <2>6. x # Undecodable => f[j + x.len] \in Seq(S)
    <3> SUFFICES ASSUME x # Undecodable PROVE f[j + x.len] \in Seq(S)
      OBVIOUS
    <3>1. x.len \in 1 .. Len(c) + 1 - j
      <4> HIDE DEF j
      <4> QED BY <2>3 DEF Progress
    <3> DEFINE l == x.len
    <3> HIDE DEF x, S
    <3>2. k - l \in 0 .. Len(c) /\ ~(k <= k - l) /\ Len(c) + 1 - (k - l) = j + l
      <4> HIDE DEF l, T
      <4> QED BY <2>2, <3>1 DEF l
    <3>3. k - l \notin T
      <4> HIDE DEF T, l
      <4> QED BY <2>1, <3>2
    <3> HIDE DEF l, j
    <3> QED BY <3>2, <3>3 DEF l
  <2> HIDE DEF x, S, j, T
  <2>7. <<x>> \in Seq(S)
    BY <2>4
  <2>8. x # Undecodable => <<x>> \o f[j + x.len] \in Seq(S)
    BY <2>6, <2>7
  <2> QED BY <2>2, <2>5, <2>7, <2>8
<1>4. \A j \in 1 .. Len(c) + 1 : f[j] \in Seq(S)
  <2> SUFFICES ASSUME NEW j \in 1 .. Len(c) + 1, f[j] \notin Seq(S) PROVE FALSE
    OBVIOUS
  <2>1. Len(c) + 1 - j \in 0 .. Len(c) /\ Len(c) + 1 - (Len(c) + 1 - j) = j
    OBVIOUS
  <2> HIDE DEF S
  <2>2. Len(c) + 1 - j \in T
    BY <2>1
  <2> QED BY <1>3, <2>2
<1> DEFINE x == At(c, 1)
<1>5. f[1] = IF x = Undecodable THEN <<x>> ELSE <<x>> \o f[1 + x.len]
  <2>1. 1 \in 1 .. Len(c) + 1 /\ ~(1 > Len(c))
    OBVIOUS
  <2> QED BY <1>2, <2>1, Zenon DEF Rest
<1>6. x # Undecodable => f[1 + x.len] \in Seq(S)
  <2>1. x # Undecodable => x.len \in 1 .. Len(c)
    BY DEF Progress
  <2>2. x # Undecodable => 1 + x.len \in 1 .. Len(c) + 1
    <3> HIDE DEF x
    <3> QED BY <2>1
  <2> HIDE DEF x, S
  <2> QED BY <1>4, <2>2
<1>7. <<x>> \in Seq(S) /\ <<x>>[1] = x /\ Len(<<x>>) = 1
  <2>1. x \in S
    OBVIOUS
  <2> HIDE DEF x, S
  <2> QED BY <2>1
<1>8. x # Undecodable => (<<x>> \o f[1 + x.len])[1] = x
  <2> HIDE DEF x, S
  <2>1. 1 \in 1 .. Len(<<x>>)
    BY <1>7
  <2> QED BY <1>6, <1>7, <2>1, Appended
<1> HIDE DEF x
<1> QED BY <1>1, <1>5, <1>7, <1>8 DEF x
-----------------------------------------------------------------------------
(* The parts of an instruction with operands of any kind. *)

\* Where the bytes of an instruction are that is made of six pieces, all of them
\* but the last being one byte or none.
LEMMA Pieces ==
    ASSUME NEW u \in Seq(Byte), NEW v \in Seq(Byte)
    PROVE  /\ u \o v \in Seq(Byte) /\ Len(u \o v) = Len(u) + Len(v)
           /\ \A k \in 1 .. Len(u) : (u \o v)[k] = u[k]
           /\ \A k \in 1 .. Len(v) : (u \o v)[Len(u) + k] = v[k]
BY Appended, AppendedAt

\* The length of what is there of a byte.
There(byte) == IF byte = 0 THEN 0 ELSE 1

\* What the emitter makes of a byte that may be zero.
LEMMA PresentIs ==
    ASSUME NEW byte \in Byte
    PROVE  /\ Present(byte) \in Seq(Byte) /\ Len(Present(byte)) = There(byte)
           /\ There(byte) \in 0 .. 1 /\ (There(byte) = 0 <=> byte = 0)
           /\ byte # 0 => Present(byte)[1] = byte
<1>1. CASE byte = 0
  BY <1>1 DEF Present, There
<1>2. CASE byte # 0
  <2>1. <<byte>> \in Seq(Byte) /\ Len(<<byte>>) = 1 /\ <<byte>>[1] = byte
    OBVIOUS
  <2> QED BY <1>2, <2>1 DEF Present, There
<1> QED BY <1>1, <1>2

\* The bytes w are a prefix, a REX byte, an opcode, a ModRM and a SIB byte, each
\* of them left out if it is zero but the opcode, and a displacement.
Laid(w, leg, rex, val, modrm, sib, D) ==
    w = Present(leg) \o Present(rex) \o <<val>> \o Present(modrm) \o Present(sib) \o D

\* The indices of the pieces.
LaidAt(w, leg, rex, val, modrm, sib, D) ==
    LET o == There(leg) + There(rex) + 1
        m == o + There(modrm)
        s == m + There(sib)
    IN  /\ w \in Seq(Byte) /\ Len(w) = s + Len(D)
        /\ leg # 0 => w[1] = leg
        /\ rex # 0 => w[o - 1] = rex
        /\ w[o] = val
        /\ modrm # 0 => w[m] = modrm
        /\ sib # 0 => w[s] = sib
        /\ \A k \in 1 .. Len(D) : w[s + k] = D[k]

\* Bytes that are laid in pieces are found at these indices.
LEMMA LaidOut ==
    ASSUME NEW leg \in Byte, NEW rex \in Byte, NEW val \in Byte, NEW modrm \in Byte,
           NEW sib \in Byte, NEW D \in Seq(Byte), NEW w, Laid(w, leg, rex, val, modrm, sib, D)
    PROVE  LaidAt(w, leg, rex, val, modrm, sib, D)
<1> DEFINE w1 == Present(leg)
           w2 == w1 \o Present(rex)
           w3 == w2 \o <<val>>
           w4 == w3 \o Present(modrm)
           w5 == w4 \o Present(sib)
           w6 == w5 \o D
           o == There(leg) + There(rex) + 1
           m == o + There(modrm)
           s == m + There(sib)
<1>1. w = w6
  BY DEF Laid
<1>2. /\ w1 \in Seq(Byte) /\ Len(w1) = There(leg) /\ There(leg) \in 0 .. 1
      /\ leg # 0 => w1[1] = leg
      /\ There(leg) = 0 <=> leg = 0
  BY PresentIs
<1> HIDE DEF w1
<1>3. /\ w2 \in Seq(Byte) /\ Len(w2) = There(leg) + There(rex) /\ There(rex) \in 0 .. 1
      /\ \A k \in 1 .. Len(w1) : w2[k] = w1[k]
      /\ rex # 0 => w2[There(leg) + 1] = rex /\ There(rex) = 1
  <2>1. /\ Present(rex) \in Seq(Byte) /\ Len(Present(rex)) = There(rex)
        /\ There(rex) \in 0 .. 1 /\ (There(rex) = 0 <=> rex = 0)
        /\ rex # 0 => Present(rex)[1] = rex
    BY PresentIs
  <2>2. /\ w2 \in Seq(Byte) /\ Len(w2) = Len(w1) + Len(Present(rex))
        /\ \A k \in 1 .. Len(w1) : w2[k] = w1[k]
        /\ \A k \in 1 .. Len(Present(rex)) : w2[Len(w1) + k] = Present(rex)[k]
    BY <1>2, <2>1, Pieces
  <2> HIDE DEF w2
  <2> QED BY <1>2, <2>1, <2>2
<1> HIDE DEF w2
<1>4. /\ w3 \in Seq(Byte) /\ Len(w3) = o /\ w3[o] = val
      /\ \A k \in 1 .. Len(w2) : w3[k] = w2[k]
  <2>1. <<val>> \in Seq(Byte) /\ Len(<<val>>) = 1 /\ <<val>>[1] = val
    OBVIOUS
  <2>2. /\ w3 \in Seq(Byte) /\ Len(w3) = Len(w2) + Len(<<val>>)
        /\ \A k \in 1 .. Len(w2) : w3[k] = w2[k]
        /\ \A k \in 1 .. Len(<<val>>) : w3[Len(w2) + k] = <<val>>[k]
    BY <1>3, <2>1, Pieces
  <2> HIDE DEF w3
  <2> QED BY <1>2, <1>3, <2>1, <2>2
<1> HIDE DEF w3
<1>5. /\ w4 \in Seq(Byte) /\ Len(w4) = m /\ There(modrm) \in 0 .. 1
      /\ \A k \in 1 .. Len(w3) : w4[k] = w3[k]
      /\ modrm # 0 => w4[m] = modrm
  <2>1. /\ Present(modrm) \in Seq(Byte) /\ Len(Present(modrm)) = There(modrm)
        /\ There(modrm) \in 0 .. 1 /\ (There(modrm) = 0 <=> modrm = 0)
        /\ modrm # 0 => Present(modrm)[1] = modrm
    BY PresentIs
  <2>2. /\ w4 \in Seq(Byte) /\ Len(w4) = Len(w3) + Len(Present(modrm))
        /\ \A k \in 1 .. Len(w3) : w4[k] = w3[k]
        /\ \A k \in 1 .. Len(Present(modrm)) : w4[Len(w3) + k] = Present(modrm)[k]
    BY <1>4, <2>1, Pieces
  <2> HIDE DEF w4
  <2>3. modrm # 0 => There(modrm) = 1 /\ w4[Len(w3) + 1] = modrm
    BY <2>1, <2>2
  <2> QED BY <1>2, <1>3, <1>4, <2>1, <2>2, <2>3
<1> HIDE DEF w4
<1>6. /\ w5 \in Seq(Byte) /\ Len(w5) = s /\ There(sib) \in 0 .. 1
      /\ \A k \in 1 .. Len(w4) : w5[k] = w4[k]
      /\ sib # 0 => w5[s] = sib
  <2>1. /\ Present(sib) \in Seq(Byte) /\ Len(Present(sib)) = There(sib)
        /\ There(sib) \in 0 .. 1 /\ (There(sib) = 0 <=> sib = 0)
        /\ sib # 0 => Present(sib)[1] = sib
    BY PresentIs
  <2>2. /\ w5 \in Seq(Byte) /\ Len(w5) = Len(w4) + Len(Present(sib))
        /\ \A k \in 1 .. Len(w4) : w5[k] = w4[k]
        /\ \A k \in 1 .. Len(Present(sib)) : w5[Len(w4) + k] = Present(sib)[k]
    BY <1>5, <2>1, Pieces
  <2> HIDE DEF w5
  <2>3. sib # 0 => There(sib) = 1 /\ w5[Len(w4) + 1] = sib
    BY <2>1, <2>2
  <2> QED BY <1>2, <1>3, <1>4, <1>5, <2>1, <2>2, <2>3
<1> HIDE DEF w5
<1>7. /\ w6 \in Seq(Byte) /\ Len(w6) = s + Len(D)
      /\ \A k \in 1 .. Len(w5) : w6[k] = w5[k]
      /\ \A k \in 1 .. Len(D) : w6[s + k] = D[k]
  <2>1. /\ w6 \in Seq(Byte) /\ Len(w6) = Len(w5) + Len(D)
        /\ \A k \in 1 .. Len(w5) : w6[k] = w5[k]
        /\ \A k \in 1 .. Len(D) : w6[Len(w5) + k] = D[k]
    BY <1>6, Pieces
  <2> HIDE DEF w6
  <2> QED BY <1>6, <2>1
<1> HIDE DEF w6
<1>8. o \in 1 .. 3 /\ m \in o .. o + 1 /\ s \in m .. m + 1 /\ o - 1 = There(leg) + There(rex)
  BY <1>2, <1>3, <1>5, <1>6
<1>9. There(modrm) # 0 \/ m = o
  BY <1>8
<1> HIDE DEF s, m, o
<1>10. \A k \in 1 .. o : w6[k] = w3[k]
  <2>1. \A k \in 1 .. o : k \in 1 .. m /\ k \in 1 .. s
    BY <1>8
  <2> QED BY <1>4, <1>5, <1>6, <1>7, <2>1
<1>11. w6[o] = val
  BY <1>4, <1>8, <1>10
<1>12. \A k \in 1 .. o - 1 : w6[k] = w2[k]
  <2>1. Len(w2) = o - 1 /\ \A k \in 1 .. o - 1 : k \in 1 .. o
    BY <1>3, <1>8
  <2> QED BY <1>4, <1>10, <2>1
<1>13. rex # 0 => w6[o - 1] = rex
  <2>1. rex # 0 => o - 1 = There(leg) + 1 /\ o - 1 \in 1 .. o - 1
    BY <1>2, <1>3, <1>8
  <2> QED BY <1>3, <1>12, <2>1
<1>14. leg # 0 => w6[1] = leg
  <2>1. leg # 0 => 1 \in 1 .. o - 1 /\ 1 \in 1 .. Len(w1)
    BY <1>2, <1>3, <1>8
  <2> QED BY <1>2, <1>3, <1>12, <2>1
<1>15. modrm # 0 => w6[m] = modrm
  <2>1. m \in 1 .. m /\ m \in 1 .. s
    BY <1>8
  <2> QED BY <1>5, <1>6, <1>7, <2>1
<1>16. sib # 0 => w6[s] = sib
  <2>1. s \in 1 .. s
    BY <1>8
  <2> QED BY <1>6, <1>7, <2>1
<1>17. /\ w \in Seq(Byte) /\ Len(w) = s + Len(D)
       /\ leg # 0 => w[1] = leg
       /\ rex # 0 => w[o - 1] = rex
       /\ w[o] = val
       /\ modrm # 0 => w[m] = modrm
       /\ sib # 0 => w[s] = sib
       /\ \A k \in 1 .. Len(D) : w[s + k] = D[k]
  BY <1>1, <1>7, <1>11, <1>13, <1>14, <1>15, <1>16
<1> QED BY <1>17, Zenon DEF o, m, s, LaidAt

\* A bit is one or zero, by the condition.
LEMMA BitIs == ASSUME NEW b PROVE Bit(b) \in 0 .. 1 /\ (Bit(b) = 1 <=> b) /\ (Bit(b) = 0 <=> ~b)
BY DEF Bit

\* Equivalent conditions make the same bit.
LEMMA BitSame == ASSUME NEW a, NEW b, a <=> b PROVE Bit(a) = Bit(b)
BY DEF Bit

\* The fields of a ModRM or SIB byte.
LEMMA Fields ==
    ASSUME NEW m \in 0 .. 3, NEW g \in 0 .. 7, NEW l \in 0 .. 7, NEW x, x = 64 * m + 8 * g + l
    PROVE  /\ x \div 64 = m /\ (x \div 8) % 8 = g /\ x % 8 = l
           /\ x = 0 <=> m = 0 /\ g = 0 /\ l = 0
<1>1. x \div 64 = m
  OBVIOUS
<1>2. x % 8 = l
  OBVIOUS
<1>3. x \div 8 = 8 * m + g
  OBVIOUS
<1>4. (8 * m + g) % 8 = g
  OBVIOUS
<1>5. x = 0 <=> m = 0 /\ g = 0 /\ l = 0
  OBVIOUS
<1> QED BY <1>1, <1>2, <1>3, <1>4, <1>5

\* The bits of a REX byte.
LEMMA RexFields ==
    ASSUME NEW w \in 0 .. 1, NEW r \in 0 .. 1, NEW x \in 0 .. 1, NEW b \in 0 .. 1,
           NEW rex, rex = 8 * w + 4 * r + 2 * x + b
    PROVE  /\ rex % 2 = b /\ (rex \div 2) % 2 = x /\ (rex \div 4) % 2 = r
           /\ rex >= 8 <=> w = 1
<1>1. rex % 2 = b
  OBVIOUS
<1>2. rex \div 2 = 4 * w + 2 * r + x
  OBVIOUS
<1>3. (4 * w + 2 * r + x) % 2 = x
  OBVIOUS
<1>4. rex \div 4 = 2 * w + r
  OBVIOUS
<1>5. (2 * w + r) % 2 = r
  OBVIOUS
<1>6. rex >= 8 <=> w = 1
  OBVIOUS
<1> QED BY <1>1, <1>2, <1>3, <1>4, <1>5, <1>6

\* An id is its extension and its lower three bits.
LEMMA Halves ==
    ASSUME NEW id \in 0 .. 15
    PROVE  /\ 8 * Bit(Extended(id)) + (id % 8) = id
           /\ id % 8 \in 0 .. 7
           /\ ~Extended(id) <=> id < 8
           /\ ~Extended(id) <=> id % 8 = id
           /\ \A x \in 0 .. 1 : /\ 8 * x + (id % 8) \in 0 .. 15
                              /\ 8 * x + (id % 8) = id <=> x = Bit(Extended(id))
<1>1. Bit(Extended(id)) = IF id >= 8 THEN 1 ELSE 0
  BY DEF Bit, Extended
<1>2. id % 8 = IF id >= 8 THEN id - 8 ELSE id
  OBVIOUS
<1>3. Extended(id) <=> id >= 8
  BY DEF Extended
<1> QED BY <1>1, <1>2, <1>3

\* The lower three bits do not depend on the extension.
LEMMA LowBits ==
    ASSUME NEW x \in 0 .. 1, NEW g \in 0 .. 7
    PROVE  (8 * x + g) % 8 = g
OBVIOUS
-----------------------------------------------------------------------------
(* Reading prefixes, registers and memory. *)

\* The REX byte, which is left out without a bit.
RexByte(rex) == IF rex = 0 THEN 0 ELSE 64 + rex

\* Code with a prefix, a REX byte, each of them left out if it is zero, and an
\* opcode at the index o.
Prefixed(b, leg, rex, o, val) ==
    /\ leg \in {0, 102, 103} /\ rex \in 0 .. 15
    /\ o = There(leg) + There(RexByte(rex)) + 1
    /\ leg # 0 => b[1] = leg
    /\ RexByte(rex) # 0 => b[o - 1] = RexByte(rex)
    /\ b[o] = val
    /\ val \notin 64 .. 79 /\ val \notin {102, 103}

\* The instruction is read from there, with what the prefixes say.
ReadBehind(b, leg, rex, o, val) ==
    LET After(rexed) == AfterPrefixes(b, o, val, leg, rexed, rex, Width(val, rex, leg))
    IN  /\ rex = 0 => Instruction(b) = After(FALSE)
        /\ rex # 0 => Instruction(b) = After(TRUE)

\* Prefixes are told from the opcode behind them.
LEMMA PrefixesAreRead ==
    ASSUME NEW b, NEW leg, NEW rex, NEW o, NEW val, Prefixed(b, leg, rex, o, val)
    PROVE  ReadBehind(b, leg, rex, o, val)
<1> DEFINE at == There(leg) + 1
<1>5. /\ leg \in {0, 102, 103} /\ rex \in 0 .. 15
      /\ o = There(leg) + There(RexByte(rex)) + 1
      /\ leg # 0 => b[1] = leg
      /\ RexByte(rex) # 0 => b[o - 1] = RexByte(rex)
      /\ b[o] = val
      /\ val \notin 64 .. 79 /\ val \notin {102, 103}
  BY DEF Prefixed
<1>1. There(leg) = IF leg = 0 THEN 0 ELSE 1
  BY DEF There
<1>2. /\ There(RexByte(rex)) = IF rex = 0 THEN 0 ELSE 1
      /\ RexByte(rex) = IF rex = 0 THEN 0 ELSE 64 + rex
  BY <1>5 DEF There, RexByte
<1>3. CASE rex = 0
  <2>1. o = at /\ b[at] = val 
    BY <1>1, <1>2, <1>3, <1>5
  <2>2. (b[at] \in 64 .. 79) = FALSE
    BY <1>5, <2>1
  <2>3. AfterLegacy(b, at, leg) = AfterPrefixes(b, at, b[at], leg, FALSE, 0, Width(b[at], 0, leg))
    BY <2>2, Zenon DEF AfterLegacy
  <2>4. Instruction(b) = AfterLegacy(b, at, leg)
    <3>1. CASE leg = 0
      <4>1. at = 1 /\ b[1] \notin {102, 103}
        BY <1>1, <1>5, <2>1, <3>1
      <4> QED BY <3>1, <4>1, Zenon DEF Instruction
    <3>2. CASE leg # 0
      <4>1. at = 2 /\ b[1] = leg /\ b[1] \in {102, 103}
        BY <1>1, <1>5, <3>2
      <4> QED BY <4>1, Zenon DEF Instruction
    <3> QED BY <3>1, <3>2
  <2>5. Instruction(b) = AfterPrefixes(b, o, val, leg, FALSE, rex, Width(val, rex, leg))
    BY <1>3, <2>1, <2>3, <2>4, Zenon
  <2> QED BY <1>3, <2>5, Zenon DEF ReadBehind
<1>4. CASE rex # 0
  <2>1. o = at + 1 /\ b[at] = 64 + rex /\ b[at + 1] = val
    <3>1. o = at + 1 /\ o - 1 = at
      BY <1>1, <1>2, <1>4, <1>5
    <3> QED BY <1>2, <1>4, <1>5, <3>1
  <2>2. (b[at] \in 64 .. 79) = TRUE /\ b[at] - 64 = rex
    BY <1>4, <1>5, <2>1
  <2>3. AfterLegacy(b, at, leg)
          = AfterPrefixes(b, at + 1, b[at + 1], leg, TRUE, b[at] - 64, Width(b[at + 1], b[at] - 64, leg))
    BY <2>2, Zenon DEF AfterLegacy
  <2>4. Instruction(b) = AfterLegacy(b, at, leg)
    <3>1. CASE leg = 0
      <4>1. at = 1
        BY <1>1, <3>1
      <4>2. b[1] \notin {102, 103}
        BY <1>5, <2>1, <4>1
      <4> QED BY <3>1, <4>1, <4>2, Zenon DEF Instruction
    <3>2. CASE leg # 0
      <4>1. at = 2 /\ b[1] = leg /\ b[1] \in {102, 103}
        BY <1>1, <1>5, <3>2
      <4> QED BY <4>1, Zenon DEF Instruction
    <3> QED BY <3>1, <3>2
  <2>5. Instruction(b) = AfterPrefixes(b, o, val, leg, TRUE, rex, Width(val, rex, leg))
    BY <2>1, <2>2, <2>3, <2>4, Zenon
  <2> QED BY <1>4, <2>5, Zenon DEF ReadBehind
<1> QED BY <1>3, <1>4

\* What Decoded puts behind the code.
Zeros == [i \in 1 .. 8 |-> 0]

\* Registers that are read are the same by their ids, and none is a high byte.
LEMMA KindsDiffer ==
    ASSUME NEW i, NEW j
    PROVE  /\ RegRead(i) = RegRead(j) <=> i = j
           /\ HighByte(i) # RegRead(j)
BY DEF RegRead, HighByte

\* A register of more than 8 bits is the one of its id.
LEMMA RegisterIs ==
    ASSUME NEW id \in 0 .. 15, NEW width, NEW rexed, width # 8
    PROVE  Register(id, width, rexed) = RegRead(id)
BY DEF Register

\* Memory as it is read: the base, the index and the displacement.
BaseBits(b, at, rm) == IF rm = 4 THEN b[at] % 8 ELSE rm
Based(b, at, mod, rm) == ~(mod = 0 /\ BaseBits(b, at, rm) = 5)
BaseRead(b, at, mod, rm, extB) ==
    IF Based(b, at, mod, rm) THEN 8 * extB + BaseBits(b, at, rm) ELSE IF rm = 4 THEN -1 ELSE -2
IndexBits(b, at, extX) == 8 * extX + ((b[at] \div 8) % 8)
Indexed(b, at, rm, extX) == rm = 4 /\ IndexBits(b, at, extX) # 4
DispFrom(at, rm) == IF rm = 4 THEN at + 1 ELSE at
DispSize(b, at, mod, rm) ==
    IF mod = 1 THEN 1 ELSE IF mod = 2 \/ ~Based(b, at, mod, rm) THEN 4 ELSE 0
DispRead(b, at, mod, rm) ==
    LET from == DispFrom(at, rm) IN
    IF mod = 1 THEN SignExtended(b[from])
    ELSE IF mod = 2 \/ ~Based(b, at, mod, rm) THEN SubSeq(b, from, from + 3) ELSE <<0, 0, 0, 0>>

\* The decoder's memory operand by its parts.
LEMMA MemoryIs ==
    ASSUME NEW b, NEW at \in Nat, NEW mod \in 0 .. 2, NEW rm \in 0 .. 7, NEW extX, NEW extB, NEW address
    PROVE  Memory(b, at, mod, rm, extX, extB, address)
             = [operand |-> MemRead(BaseRead(b, at, mod, rm, extB),
                                    IF Indexed(b, at, rm, extX) THEN IndexBits(b, at, extX) ELSE -1,
                                    IF Indexed(b, at, rm, extX) THEN b[at] \div 64 ELSE 0,
                                    DispRead(b, at, mod, rm), address),
                next |-> DispFrom(at, rm) + DispSize(b, at, mod, rm)]
<1> DEFINE hasSib == rm = 4
           sib == IF hasSib THEN b[at] ELSE 0
           baseBits == IF hasSib THEN sib % 8 ELSE rm
           based == ~(mod = 0 /\ baseBits = 5)
           base == CASE based -> 8 * extB + baseBits
                     [] ~based /\ hasSib -> -1
                     [] OTHER -> -2
           index == 8 * extX + ((sib \div 8) % 8)
           indexed == hasSib /\ index # 4
           from == IF hasSib THEN at + 1 ELSE at
           size == CASE mod = 1 -> 1 [] mod = 2 \/ ~based -> 4 [] OTHER -> 0
           disp == CASE size = 1 -> SignExtended(b[from])
                     [] size = 4 -> SubSeq(b, from, from + 3)
                     [] OTHER -> <<0, 0, 0, 0>>
<1>1. Memory(b, at, mod, rm, extX, extB, address)
        = [operand |-> MemRead(base, IF indexed THEN index ELSE -1,
                               IF indexed THEN sib \div 64 ELSE 0, disp, address),
           next |-> from + size]
  BY Zenon DEF Memory
<1>2. baseBits = BaseBits(b, at, rm)
  BY DEF BaseBits
<1>3. based <=> Based(b, at, mod, rm)
  BY <1>2 DEF Based
<1>4. base = BaseRead(b, at, mod, rm, extB)
  <2> HIDE DEF baseBits, based
  <2> QED BY <1>2, <1>3 DEF BaseRead
<1>5. hasSib => sib = b[at]
  OBVIOUS
<1>6. hasSib => index = IndexBits(b, at, extX)
  BY <1>5 DEF IndexBits
<1>7. indexed <=> Indexed(b, at, rm, extX)
  BY <1>6 DEF Indexed
<1>8. from = DispFrom(at, rm)
  BY DEF DispFrom
<1>9. size = DispSize(b, at, mod, rm)
  <2>1. ~based => mod # 1 /\ mod # 2
    OBVIOUS
  <2> HIDE DEF based
  <2> QED BY <1>3, <2>1 DEF DispSize
<1>10. disp = DispRead(b, at, mod, rm)
  <2>1. size = IF mod = 1 THEN 1 ELSE IF mod = 2 \/ ~Based(b, at, mod, rm) THEN 4 ELSE 0
    BY <1>9 DEF DispSize
  <2> HIDE DEF size, based, from
  <2>2. CASE mod = 1
    <3>1. size = 1 /\ size # 4
      BY <2>1, <2>2
    <3> QED BY <1>8, <2>2, <3>1, Zenon DEF DispRead
  <2>3. CASE mod # 1 /\ (mod = 2 \/ ~Based(b, at, mod, rm))
    <3>1. size = 4 /\ size # 1
      BY <2>1, <2>3
    <3> QED BY <1>8, <2>3, <3>1, Zenon DEF DispRead
  <2>4. CASE mod # 1 /\ ~(mod = 2 \/ ~Based(b, at, mod, rm))
    <3>1. size # 4 /\ size # 1
      BY <2>1, <2>4
    <3> QED BY <1>8, <2>4, <3>1, Zenon DEF DispRead
  <2> QED BY <2>2, <2>3, <2>4
<1>11. (IF indexed THEN index ELSE -1) = IF Indexed(b, at, rm, extX) THEN IndexBits(b, at, extX) ELSE -1
  <2>1. indexed => hasSib
    OBVIOUS
  <2> HIDE DEF indexed, index, hasSib
  <2> QED BY <1>6, <1>7, <2>1
<1>12. (IF indexed THEN sib \div 64 ELSE 0) = IF Indexed(b, at, rm, extX) THEN b[at] \div 64 ELSE 0
  <2>1. indexed => hasSib
    OBVIOUS
  <2> HIDE DEF indexed, index, hasSib, sib
  <2> QED BY <1>5, <1>7, <2>1
<1> HIDE DEF base, indexed, index, sib, disp, from, size
<1> QED BY <1>1, <1>4, <1>8, <1>9, <1>10, <1>11, <1>12, Zenon

\* Memory operands are the same by their fields.
LEMMA MemReadIs ==
    ASSUME NEW b1, NEW i1, NEW s1, NEW d1, NEW a1, NEW b2, NEW i2, NEW s2, NEW d2, NEW a2
    PROVE  MemRead(b1, i1, s1, d1, a1) = MemRead(b2, i2, s2, d2, a2)
             <=> b1 = b2 /\ i1 = i2 /\ s1 = s2 /\ d1 = d2 /\ a1 = a2
BY DEF MemRead
=============================================================================
