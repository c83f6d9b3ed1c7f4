---------------------------- MODULE MCOperators ----------------------------
(***************************************************************************)
(* The pure functions of both interpreters.  The arithmetic, on every pair *)
(* of words.  The decoders, at full width: every funct7 and funct3 of the  *)
(* legal opcodes and of opcodes one bit or one extension away, on register *)
(* fields that tell their bits apart.                                      *)
(***************************************************************************)
EXTENDS Operators, MCWords

Opcodes ==
  {OpLui, OpAuipc, OpJal, OpJalr, OpBranch, OpLoad, OpStore, OpImmed, OpReg, OpFence,
   OpSystem} \cup {0, 7, 47, 59, 114, 127}

(* rs2, rs1 and rd. *)
Operands ==
  {<<0, 0, 0>>, <<1, 0, 0>>, <<0, 1, 0>>, <<0, 0, 1>>, <<31, 31, 31>>, <<21, 10, 9>>,
   <<10, 21, 22>>}

MCCodeWords ==
  {RType(0, r[1], r[2], f3, r[3], op) : op \in Opcodes, f3 \in 0 .. 7, r \in Operands}
=============================================================================
