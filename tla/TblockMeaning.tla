--------------------------- MODULE TblockMeaning ---------------------------
(***************************************************************************)
(* What the host code of a block computes, beside what its guest code      *)
(* does: the way from assembled MIPS words through the three passes to the *)
(* bytes a processor reads.  The code before the block is taken to have    *)
(* put the guest registers where the block first expects them.             *)
(***************************************************************************)
EXTENDS Tblock, Mips32, I64Ir, I64Decode

CONSTANTS
    Sources,        \* guest programs in assembly
    Apply(_, _, _), \* what an operation makes of two values
    Start(_)        \* the value a guest register has before the block

AsmInstr == [name : DOMAIN Funct, rd : GuestRegs, rs : GuestRegs, rt : GuestRegs]

\* The ids of guest registers have five bits.
ASSUME SourcesAssumption ==
    /\ GuestRegs \subseteq 0 .. 31
    /\ Sources \subseteq [0 .. BlockInstrs - 1 -> AsmInstr]

\* Words main.c writes as guest code, and their assembly in its comments.
ASSUME MainWords ==
    /\ Assembled(Asm("ADD", 9, 9, 10)) = [hi |-> 298, lo |-> 18464]    \* 0x012A4820
    /\ Assembled(Asm("SUB", 10, 10, 9)) = [hi |-> 329, lo |-> 20514]   \* 0x01495022
    /\ Assembled(Asm("AND", 9, 9, 10)) = [hi |-> 298, lo |-> 18468]    \* 0x012A4824
    /\ Assembled(Asm("OR", 10, 10, 9)) = [hi |-> 329, lo |-> 20517]    \* 0x01495025

VARIABLES
    source, \* the program
    home,   \* history: the host register a guest register was first put in, or -1
    clean   \* history: no step has met one of the known causes of wrong code

meaningVars == <<vars, source, home, clean>>

Homeless == [g \in GuestRegs |-> -1]

MeaningInit ==
    /\ source \in Sources
    /\ prog = [i \in DOMAIN source |-> GuestInstr(Assembled(source[i]))]
    /\ Init
    /\ home = Homeless /\ clean = TRUE

\* The homes after an instruction with these operands has been converted.
Housed == [g \in GuestRegs |->
    IF home[g] = -1 /\ g \in RegsOf(prog[next]) THEN Filled.assoc[g].id ELSE home[g]]

\* The causes of wrong code: an operand in another host register than before; two
\* guest registers in one (an operand without a host register is written with
\* id 0 or its spill index, as if that were a register); a spill index that no
\* register has; a destination that is also the second source, which the move of
\* the expansion overwrites; $zero written like any other register; and an
\* instruction that mixes host registers below 8 and from 8, whose extensions
\* the emitter swaps.
Converts(ops) ==
    /\ \A g \in RegsOf(prog[next]) : Filled.assoc[g].id = Housed[g] /\ Housed[g] <= 15
    /\ \A g, h \in GuestRegs : Housed[g] = Housed[h] /\ Housed[g] # -1 => g = h
    /\ ops[1] = ops[3] => ops[1] = ops[2]
    /\ ops[1] # 0
    /\ \A k \in DOMAIN Code :
          Extended(Head(Code[k].ops)) = Extended(Code[k].ops[Len(Code[k].ops)])

\* An instruction the table does not have, here XOR, is passed over in silence.
WatchConvert ==
    /\ Convert
    /\ IF prog[next].opcode # IR_INVALID_OPCODE
       THEN home' = Housed /\ clean' = (clean /\ Converts(prog[next].ops))
       ELSE clean' = (clean /\ source[next].name # "XOR") /\ UNCHANGED home
    /\ UNCHANGED source

MeaningNext ==
    \/ WatchConvert
    \/ (Scan \/ Prologue \/ EmitInstr \/ EmitReturns) /\ UNCHANGED <<source, home, clean>>
    \/ EmitAgain /\ home' = Homeless /\ clean' = TRUE /\ UNCHANGED source

MeaningSpec == MeaningInit /\ [][MeaningNext]_meaningVars
-----------------------------------------------------------------------------
\* $zero stays zero.
GuestStep(v, a) ==
    IF a.name = "NOP" \/ a.rd = 0 THEN v
    ELSE [v EXCEPT ![a.rd] = Apply(IF a.name = "XOR" THEN 48 ELSE Operation[a.name],
                                   v[a.rs], v[a.rt])]

\* An instruction of the machine, on 64-bit registers; any other spoils them.
HostStep(v, instr) ==
    IF instr.width = 64 /\ \A k \in 1 .. 2 : instr.ops[k].kind = "reg"
    THEN LET d == instr.ops[1].id
             s == instr.ops[2].id
         IN  [v EXCEPT ![d] = IF instr.op = Operation["MOV"] THEN v[s]
                              ELSE Apply(instr.op, v[d], v[s])]
    ELSE [r \in DOMAIN v |-> -1]

GuestResult ==
    LET run[i \in 0 .. BlockInstrs] ==
            IF i = 0 THEN [g \in GuestRegs |-> Start(g)]
            ELSE GuestStep(run[i - 1], source[i - 1])
    IN  run[BlockInstrs]

HostStart ==
    [r \in 0 .. 15 |->
        IF \E g \in GuestRegs : home[g] = r
        THEN Start(CHOOSE g \in GuestRegs : home[g] = r) ELSE 0]

\* The bytes ir_to_host has returned, one instruction after the other.
HostBytes ==
    LET Of(i) == i64_ir_to_raw(IrInstrOf(i.opcode, [k \in DOMAIN i.ops |-> IrReg(i.ops[k])]))
        upTo[n \in 0 .. Len(host)] == IF n = 0 THEN <<>> ELSE upTo[n - 1] \o Of(host[n])
    IN  upTo[Len(host)]

HostResult ==
    LET machine == Disassembly(HostBytes)
        run[i \in 0 .. Len(machine)] ==
            IF i = 0 THEN HostStart ELSE HostStep(run[i - 1], machine[i])
    IN  run[Len(machine)]

\* The bytes that tblock_emit writes compute what the guest code computes, and the
\* guest registers that were given no host register are as they were, unless
\* one of the causes was met: there is no further one, from the decoding of the
\* guest's words to the encoding of the host's.
CleanCodeIsRight ==
    pc = "done" /\ clean =>
        LET result == HostResult IN
        \A g \in GuestRegs :
            GuestResult[g] = IF home[g] = -1 THEN Start(g) ELSE result[home[g]]
=============================================================================
