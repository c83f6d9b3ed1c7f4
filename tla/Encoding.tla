------------------------------ MODULE Encoding ------------------------------
(***************************************************************************)
(* The instruction word and the encoders of tests/common/mod.rs.           *)
(*                                                                         *)
(* A 32-bit instruction word is the record of its six fields: f7 is bits   *)
(* 31..25, rs2 24..20, rs1 19..15, f3 14..12, rd 11..7 and op 6..0.  Every *)
(* immediate is a rearrangement of those fields.                           *)
(***************************************************************************)
EXTENDS Integers

Reg == 0 .. 31

Fields == [f7 : 0 .. 127, rs2 : Reg, rs1 : Reg, f3 : 0 .. 7, rd : Reg, op : 0 .. 127]

OpLui == 55      \* 0b0110111
OpAuipc == 23    \* 0b0010111
OpJal == 111     \* 0b1101111
OpJalr == 103    \* 0b1100111
OpBranch == 99   \* 0b1100011
OpLoad == 3      \* 0b0000011
OpStore == 35    \* 0b0100011
OpImmed == 19    \* 0b0010011
OpReg == 51      \* 0b0110011
OpFence == 15    \* 0b0001111
OpSystem == 115  \* 0b1110011

(* The bits n and up, kept to m values: (imm >> log2 n) & (m - 1). *)
Slice(imm, n, m) == (imm \div n) % m

RType(f7, rs2, rs1, f3, rd, op) ==
  [f7 |-> f7, rs2 |-> rs2, rs1 |-> rs1, f3 |-> f3, rd |-> rd, op |-> op]

IType(imm, rs1, f3, rd, op) == RType(Slice(imm, 32, 128), imm % 32, rs1, f3, rd, op)

SType(imm, rs2, rs1, f3, op) == RType(Slice(imm, 32, 128), rs2, rs1, f3, imm % 32, op)

BType(imm, rs2, rs1, f3, op) ==
  RType(Slice(imm, 4096, 2) * 64 + Slice(imm, 32, 64), rs2, rs1, f3,
        Slice(imm, 2, 16) * 2 + Slice(imm, 2048, 2), op)

(* imm is the value of the upper twenty bits. *)
UType(imm, rd, op) ==
  RType(Slice(imm, 8192, 128), Slice(imm, 256, 32), Slice(imm, 8, 32), imm % 8, rd, op)

JType(imm, rd, op) ==
  RType(Slice(imm, 1048576, 2) * 64 + Slice(imm, 32, 64),
        Slice(imm, 2, 16) * 2 + Slice(imm, 2048, 2),
        Slice(imm, 32768, 32), Slice(imm, 4096, 8), rd, op)
=============================================================================
