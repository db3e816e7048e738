--------------------------- MODULE MCMemoryAccess ---------------------------
(* A file name given by a register, and by the memory a register points to; *)
(* registers of one size, and one of half the size.                         *)
EXTENDS MemoryAccess

MCArgLocs ==
    {[type |-> "REGISTER", reg |-> 0, offset |-> 0],
     [type |-> "REGISTER_INDIRECT", reg |-> 1, offset |-> 1]}

MCRegSizes ==
    {[r \in Regs |-> RegBytes], [r \in Regs |-> IF r = 0 THEN 1 ELSE RegBytes]}
=============================================================================
