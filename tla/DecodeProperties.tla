-------------------------- MODULE DecodeProperties --------------------------
(***************************************************************************)
(* What the two decoders promise of one instruction word.                  *)
(***************************************************************************)
EXTENDS Decode, RefTables

F3Of(op) ==
  CASE op \in {"Eq", "B", "Add", "Sub", "Mul"} -> 0
    [] op \in {"Ne", "H", "Sll", "Mulh"} -> 1
    [] op \in {"W", "Slt", "Mulhsu"} -> 2
    [] op \in {"Sltu", "Mulhu"} -> 3
    [] op \in {"Lt", "Bu", "Xor", "Div"} -> 4
    [] op \in {"Ge", "Hu", "Srl", "Sra", "Divu"} -> 5
    [] op \in {"Ltu", "Or", "Rem"} -> 6
    [] op \in {"Geu", "And", "Remu"} -> 7

F7Of(op) == IF op \in {"Sub", "Sra"} THEN 32 ELSE 0

(* The word that stands for an instruction, through the tests' encoders.   *)
Encode(i) ==
  CASE i.kind = "Lui" -> UType(i.imm, i.rd, OpLui)
    [] i.kind = "Auipc" -> UType(i.imm, i.rd, OpAuipc)
    [] i.kind = "Jal" -> JType(i.imm, i.rd, OpJal)
    [] i.kind = "Jalr" -> IType(i.imm, i.rs1, 0, i.rd, OpJalr)
    [] i.kind = "Branch" -> BType(i.imm, i.rs2, i.rs1, F3Of(i.op), OpBranch)
    [] i.kind = "Load" -> IType(i.imm, i.rs1, F3Of(i.op), i.rd, OpLoad)
    [] i.kind = "Store" -> SType(i.imm, i.rs2, i.rs1, F3Of(i.op), OpStore)
    [] i.kind = "OpImm" ->
         IType(i.imm + 32 * F7Of(i.op), i.rs1, F3Of(i.op), i.rd, OpImmed)
    [] i.kind = "Op" -> RType(F7Of(i.op), i.rs2, i.rs1, F3Of(i.op), i.rd, OpReg)
    [] i.kind = "Mul" -> RType(1, i.rs2, i.rs1, F3Of(i.op), i.rd, OpReg)
    [] i.kind = "Ecall" -> RType(0, 0, 0, 0, 0, OpSystem)
    [] i.kind = "Ebreak" -> RType(0, 1, 0, 0, 0, OpSystem)

(* Decoding loses nothing: a word that decodes is the encoding of what it  *)
(* decodes to, so no bit of an accepted word is ignored and nothing is     *)
(* approximated.  Fence alone has don't-care bits (decode.rs 181-336).     *)
LosslessAt(w) ==
  LET i == Decode(w)
  IN i # Illegal => /\ i \in Instr
                    /\ i.kind # "Fence" => Encode(i) = w

(* The two decoders accept the same words and read the same immediates     *)
(* from them (lockstep.rs, the legality test; decode.rs 151-336 and        *)
(* hartbeat-ref lib.rs 130-148).                                           *)
DecodersAgreeAt(w) ==
  LET i == Decode(w)
  IN /\ (i = Illegal) = ~RefLegal(w)
     /\ i.kind \in {"Lui", "Auipc"} => i.imm = RefImmU(w)
     /\ i.kind = "Jal" => i.imm = RefImmJ(w)
     /\ i.kind = "Branch" => i.imm = RefImmB(w)
     /\ i.kind = "Store" => i.imm = RefImmS(w)
     /\ i.kind \in {"Jalr", "Load"} => i.imm = RefImmI(w)
     /\ i.kind = "OpImm" => i.imm = IF i.op \in {"Sll", "Srl", "Sra"} THEN w.rs2 ELSE RefImmI(w)
=============================================================================
