------------------------------ MODULE MCTblock ------------------------------
(* Three frag-blocks of two instructions, of which one has a liveness bit.   *)
(* Of MIPS32 four temporaries that instructions with an opcode name, for     *)
(* which INTEL64 has two registers with ids of two of them, so that two are  *)
(* spilled side by side; and $zero and $s0, whose role has rBX and r12.      *)
EXTENDS TblockMeaning, RegMaps

Guests == {0, 3, 8, 9, 10, 11, 12, 16}
Hosts == {3, 10, 11, 12}
GuestRole == [g \in Guests |-> Mips32Role[g]]
HostPool == [role \in RegRoles |-> I64RoleMap[role] \cap Hosts]

Nop == Asm("NOP", 0, 0, 0)
Temporaries ==
    {Nop, Asm("XOR", 10, 9, 9), Asm("SUB", 8, 8, 9), Asm("ADD", 9, 8, 8), Asm("OR", 11, 9, 8)}
Others ==
    {Asm("AND", 16, 16, 16), Asm("SUB", 0, 0, 0), Asm("ADD", 8, 9, 8), Asm("ADD", 16, 9, 9),
     Asm("AND", 10, 10, 9), Asm("OR", 9, 8, 8)}

Indices == 0 .. Frags * FragInstrs - 1
Codes ==
    [Indices -> Temporaries]
    \cup {[i \in Indices |-> IF i < 4 THEN p[i] ELSE Nop] :
            p \in [0 .. 3 -> Others \cup {Asm("SUB", 8, 8, 9), Asm("OR", 11, 9, 8)}]}

\* Operations that tell each other and their operands apart, and values to
\* start from.
Mixed(op, a, b) == (3 * a + 5 * b + op + 1) % 101
Sevens(g) == 7 * g

Decodings == [Indices -> {GuestInstr(Assembled(a)) : a \in Temporaries \cup Others}]
=============================================================================
