---------------------------- MODULE RegisterFile ----------------------------
(***************************************************************************)
(* What the paged register transport of the ADIS driver promises its      *)
(* callers: the device behaves as a plain file of registers.  A read      *)
(* returns the value the addressed register holds; a write, successful   *)
(* or failed, changes at most the register it addresses (a failed write   *)
(* may leave it torn, i.e. with any value); a rejected call changes       *)
(* nothing.  Pages, the page cache and the SPI framing are invisible.     *)
(***************************************************************************)
EXTENDS Integers

CONSTANTS
    Regs,       \* the registers
    Vals,       \* Vals[r]: the values register r can hold
    NoRead      \* "the last call returned no register value"

VARIABLES
    regs,       \* regs[r]: value held by register r
    out         \* result of the last call: [reg, val] or NoRead

vars == <<regs, out>>

Init ==
    /\ regs \in {f \in [Regs -> UNION {Vals[r] : r \in Regs}] :
                    \A r \in Regs : f[r] \in Vals[r]}
    /\ out = NoRead

\* A read returns the register's current value.
Read(r) ==
    /\ out' = [reg |-> r, val |-> regs[r]]
    /\ UNCHANGED regs

\* A write (completed, or failed part-way) sets the addressed register only.
Write(r) ==
    /\ \E v \in Vals[r] : regs' = [regs EXCEPT ![r] = v]
    /\ out' = NoRead

\* A call that returns an error without a register value.
Reject ==
    /\ out' = NoRead
    /\ UNCHANGED regs

Next == Reject \/ \E r \in Regs : Read(r) \/ Write(r)

Spec == Init /\ [][Next]_vars

=============================================================================
