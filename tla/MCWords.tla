------------------------------ MODULE MCWords ------------------------------
(***************************************************************************)
(* The scaled machine TLC enumerates: bytes of two bits, so words of       *)
(* eight bits and an address space of 256 bytes in pages of sixteen.       *)
(***************************************************************************)
EXTENDS Integers
LOCAL INSTANCE Bitwise

MCPow2 == [s \in 0 .. 7 |-> 2 ^ s]
MCPow2Small == [s \in 0 .. 3 |-> 2 ^ s]
MCAnd(a, b) == a & b
MCOr(a, b) == a | b
MCXor(a, b) == a ^^ b
=============================================================================
