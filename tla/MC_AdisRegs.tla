---------------------------- MODULE MC_AdisRegs ----------------------------
(***************************************************************************)
(* Model for AdisRegs: a 4-byte register on page 0 and a 2-byte and a     *)
(* 1-byte register on page 1 at the same offsets, so that an access sent  *)
(* to the wrong page lands on another register.                            *)
(***************************************************************************)
EXTENDS AdisRegs

R1 == [addr |-> 16, size |-> 4]     \* page 0, offsets 16..19
R2 == [addr |-> 144, size |-> 2]    \* page 1, offsets 16..17
R3 == [addr |-> 146, size |-> 1]    \* page 1, offset 18

MC_Registers == {R1, R2, R3}
MC_Fields == {[reg |-> R1, mask |-> 256], [reg |-> R2, mask |-> 1]}

=============================================================================
