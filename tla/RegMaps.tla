------------------------------ MODULE RegMaps ------------------------------
(* The register maps of the two architectures: which ids serve which role.   *)
(* (root[id].role of each map says the same as its role_map.)                *)
EXTENDS Integers

RegRoles == {"return", "temp", "preserve", "stack", "stack_ptr", "frame_ptr", "mem_ptr"}

\* _MIPS32_CPU_REG_MAP
Mips32Role == [id \in 0 .. 31 |->
    CASE id \in {0, 26, 27} \cup (16 .. 23)     -> "preserve"
      [] id \in {1, 24, 25} \cup (8 .. 15)      -> "temp"
      [] id \in {2, 3, 31}                      -> "return"
      [] id \in 4 .. 7                          -> "stack"
      [] id = 28                                -> "frame_ptr"
      [] id = 29                                -> "stack_ptr"
      [] id = 30                                -> "mem_ptr"]

\* _I64_CPU_REG_MAP; no register serves a role that is not listed.
I64RoleMap == [role \in RegRoles |->
    CASE role = "return"    -> {0}
      [] role = "stack"     -> {1, 2} \cup (6 .. 9)
      [] role = "preserve"  -> {3} \cup (12 .. 15)
      [] role = "stack_ptr" -> {4}
      [] role = "frame_ptr" -> {5}
      [] role = "temp"      -> {10, 11}
      [] OTHER              -> {}]
=============================================================================
