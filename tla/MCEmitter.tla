----------------------------- MODULE MCEmitter -----------------------------
(* Each call alone, with registers of both halves and those with a meaning of *)
(* their own in ModRM and SIB; and short pieces of code from a few calls.      *)
EXTENDS Emitter

Ids == {0, 3, 4, 5, 8, 12, 13}
AllIds == 0 .. 15

Registers(widths) == {RegOperand(id, w) : id \in {0, 4, 8}, w \in widths}

Displacements ==
    {[type |-> {}, disp |-> <<0, 0, 0, 0>>], [type |-> {"DISP8"}, disp |-> <<128, 255, 255, 255>>],
     [type |-> {"DISP32"}, disp |-> <<0, 16, 0, 0>>]}

Memories ==
    {[NoOperand EXCEPT !.type = {"MEM"} \cup d.type, !.id = id, !.width = w, !.disp = d.disp] :
        id \in Ids, d \in Displacements, w \in {32, 64}}
    \cup {[NoOperand EXCEPT !.type = {"MEM", "SIB"} \cup d.type, !.id = id, !.width = w,
                            !.disp = d.disp, !.index = x, !.scale = s] :
            id \in Ids, d \in Displacements, w \in {32, 64}, x \in {0, 4, 9}, s \in {0, 3}}

\* The r/m operand is the first of the even two, the second of the others.
Pairs(k, widths) ==
    LET rms == Registers(widths) \cup Memories
        fit == {p \in rms \X Registers(widths) : IsMem(p[1]) \/ p[1].width = p[2].width}
    IN  IF k < 2 THEN fit ELSE {<<p[2], p[1]>> : p \in fit}

OperandCalls ==
    UNION {{FromOperands(g + k, p) : p \in Pairs(k, IF k % 2 = 0 THEN {8} ELSE {16, 64})} :
             g \in {0, MovGroup}, k \in 0 .. 3}
    \cup {FromOperands(PUSH_R64, <<RegOperand(id, 64), NoOperand>>) : id \in Ids}

Few ==
    IrCalls({2, 10, 11})
    \cup {FromOperands(1, <<[NoOperand EXCEPT !.type = {"MEM"}, !.id = id, !.width = 64],
                            RegOperand(0, 64)>>) : id \in {0, 3}}

Streams == {<<c>> : c \in OperandCalls \cup IrCalls(AllIds)} \cup {<<c, d>> : c \in Few, d \in Few}

ASSUME StreamsAreWellFormed == \A p \in Streams : \A i \in DOMAIN p : WellFormed(p[i])
=============================================================================
