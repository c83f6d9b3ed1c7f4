------------------------------- MODULE Decode -------------------------------
(***************************************************************************)
(* Instruction decoding at full width (decode.rs).                         *)
(*                                                                         *)
(* decode turns the fields of a word into a typed instruction, or into     *)
(* Illegal where the code returns None.                                    *)
(***************************************************************************)
EXTENDS Encoding

AluOp == {"Add", "Sub", "Sll", "Slt", "Sltu", "Xor", "Srl", "Sra", "Or", "And"}
MulOp == {"Mul", "Mulh", "Mulhsu", "Mulhu", "Div", "Divu", "Rem", "Remu"}
BranchOp == {"Eq", "Ne", "Lt", "Ge", "Ltu", "Geu"}
LoadOp == {"B", "H", "W", "Bu", "Hu"}
StoreOp == {"B", "H", "W"}

Instr ==
  [kind : {"Lui", "Auipc", "Jal"}, rd : Reg, imm : Int]
    \cup [kind : {"Jalr"}, rd : Reg, rs1 : Reg, imm : Int]
    \cup [kind : {"Branch"}, op : BranchOp, rs1 : Reg, rs2 : Reg, imm : Int]
    \cup [kind : {"Load"}, op : LoadOp, rd : Reg, rs1 : Reg, imm : Int]
    \cup [kind : {"Store"}, op : StoreOp, rs1 : Reg, rs2 : Reg, imm : Int]
    \cup [kind : {"OpImm"}, op : AluOp, rd : Reg, rs1 : Reg, imm : Int]
    \cup [kind : {"Op"}, op : AluOp, rd : Reg, rs1 : Reg, rs2 : Reg]
    \cup [kind : {"Mul"}, op : MulOp, rd : Reg, rs1 : Reg, rs2 : Reg]
    \cup [kind : {"Fence", "Ecall", "Ebreak"}]

(* decode's None. *)
Illegal == [kind |-> "Illegal"]

(***************************************************************************)
(* Immediates: the bits collected by masks, then sign-extended from the    *)
(* given number of values.                                                 *)
(***************************************************************************)
Sext(v, m) == IF v < m \div 2 THEN v ELSE v - m

ImmI(w) == Sext(w.f7 * 32 + w.rs2, 4096)

ImmS(w) == Sext(w.f7 * 32 + w.rd, 4096)

(* Mutant: the sign bit of an I-type immediate. *)
ImmBShort(w) ==
  Sext((w.f7 \div 64) * 4096 + (w.rd % 2) * 2048 + (w.f7 % 64) * 32 + (w.rd \div 2) * 2,
       4096)

ImmB(w) ==
  Sext((w.f7 \div 64) * 4096 + (w.rd % 2) * 2048 + (w.f7 % 64) * 32 + (w.rd \div 2) * 2,
       8192)

ImmJ(w) ==
  Sext((w.f7 \div 64) * 1048576 + (w.rs1 * 8 + w.f3) * 4096 + (w.rs2 % 2) * 2048
         + ((w.f7 % 64) * 16 + w.rs2 \div 2) * 2,
       2097152)

(* The twenty bits above bit 12 of word & 0xffff_f000, without that shift. *)
ImmU(w) == w.f7 * 8192 + w.rs2 * 256 + w.rs1 * 8 + w.f3

(* The operation a funct3 (and funct7) selects; "None" where the code      *)
(* returns None.                                                           *)
BranchOpOf(f3) ==
  CASE f3 = 0 -> "Eq" [] f3 = 1 -> "Ne" [] f3 = 4 -> "Lt"
    [] f3 = 5 -> "Ge" [] f3 = 6 -> "Ltu" [] f3 = 7 -> "Geu"
    [] OTHER -> "None"

LoadOpOf(f3) ==
  CASE f3 = 0 -> "B" [] f3 = 1 -> "H" [] f3 = 2 -> "W"
    [] f3 = 4 -> "Bu" [] f3 = 5 -> "Hu"
    [] OTHER -> "None"

StoreOpOf(f3) ==
  CASE f3 = 0 -> "B" [] f3 = 1 -> "H" [] f3 = 2 -> "W" [] OTHER -> "None"

(* Mutant: slli without its funct7 check. *)
ImmOpOfLoose(f3, f7) ==
  CASE f3 = 0 -> "Add" [] f3 = 1 -> "Sll" [] f3 = 2 -> "Slt" [] f3 = 3 -> "Sltu"
    [] f3 = 4 -> "Xor" [] f3 = 6 -> "Or" [] f3 = 7 -> "And"
    [] f3 = 5 /\ f7 = 0 -> "Srl"
    [] f3 = 5 /\ f7 = 32 -> "Sra"
    [] OTHER -> "None"

ImmOpOf(f3, f7) ==
  CASE f3 = 0 -> "Add" [] f3 = 2 -> "Slt" [] f3 = 3 -> "Sltu"
    [] f3 = 4 -> "Xor" [] f3 = 6 -> "Or" [] f3 = 7 -> "And"
    [] f3 = 1 /\ f7 = 0 -> "Sll"
    [] f3 = 5 /\ f7 = 0 -> "Srl"
    [] f3 = 5 /\ f7 = 32 -> "Sra"
    [] OTHER -> "None"

RegOpOf(f3, f7) ==
  CASE f7 = 0 /\ f3 = 0 -> "Add" [] f7 = 0 /\ f3 = 1 -> "Sll"
    [] f7 = 0 /\ f3 = 2 -> "Slt" [] f7 = 0 /\ f3 = 3 -> "Sltu"
    [] f7 = 0 /\ f3 = 4 -> "Xor" [] f7 = 0 /\ f3 = 5 -> "Srl"
    [] f7 = 0 /\ f3 = 6 -> "Or" [] f7 = 0 /\ f3 = 7 -> "And"
    [] f7 = 32 /\ f3 = 0 -> "Sub" [] f7 = 32 /\ f3 = 5 -> "Sra"
    [] OTHER -> "None"

MulOpOf(f3) ==
  CASE f3 = 0 -> "Mul" [] f3 = 1 -> "Mulh" [] f3 = 2 -> "Mulhsu"
    [] f3 = 3 -> "Mulhu" [] f3 = 4 -> "Div" [] f3 = 5 -> "Divu"
    [] f3 = 6 -> "Rem" [] OTHER -> "Remu"

(* Shifts carry their amount, the five bits of rs2, as the immediate. *)
ImmOf(op, w) == IF op \in {"Sll", "Srl", "Sra"} THEN w.rs2 ELSE ImmI(w)

(* The system words: everything but the opcode is zero, or 1 in rs2. *)
IsSystem(w, n) == w = [f7 |-> 0, rs2 |-> n, rs1 |-> 0, f3 |-> 0, rd |-> 0, op |-> OpSystem]

Decode(w) ==
  CASE w.op = OpLui -> [kind |-> "Lui", rd |-> w.rd, imm |-> ImmU(w)]
    [] w.op = OpAuipc -> [kind |-> "Auipc", rd |-> w.rd, imm |-> ImmU(w)]
    [] w.op = OpJal -> [kind |-> "Jal", rd |-> w.rd, imm |-> ImmJ(w)]
    [] w.op = OpJalr /\ w.f3 = 0 ->
         [kind |-> "Jalr", rd |-> w.rd, rs1 |-> w.rs1, imm |-> ImmI(w)]
    [] w.op = OpBranch /\ BranchOpOf(w.f3) # "None" ->
         [kind |-> "Branch", op |-> BranchOpOf(w.f3), rs1 |-> w.rs1, rs2 |-> w.rs2,
          imm |-> ImmB(w)]
    [] w.op = OpLoad /\ LoadOpOf(w.f3) # "None" ->
         [kind |-> "Load", op |-> LoadOpOf(w.f3), rd |-> w.rd, rs1 |-> w.rs1,
          imm |-> ImmI(w)]
    [] w.op = OpStore /\ StoreOpOf(w.f3) # "None" ->
         [kind |-> "Store", op |-> StoreOpOf(w.f3), rs1 |-> w.rs1, rs2 |-> w.rs2,
          imm |-> ImmS(w)]
    [] w.op = OpImmed /\ ImmOpOf(w.f3, w.f7) # "None" ->
         LET op == ImmOpOf(w.f3, w.f7)
         IN [kind |-> "OpImm", op |-> op, rd |-> w.rd, rs1 |-> w.rs1, imm |-> ImmOf(op, w)]
    [] w.op = OpReg /\ w.f7 = 1 ->
         [kind |-> "Mul", op |-> MulOpOf(w.f3), rd |-> w.rd, rs1 |-> w.rs1, rs2 |-> w.rs2]
    [] w.op = OpReg /\ RegOpOf(w.f3, w.f7) # "None" ->
         [kind |-> "Op", op |-> RegOpOf(w.f3, w.f7), rd |-> w.rd, rs1 |-> w.rs1,
          rs2 |-> w.rs2]
    [] w.op = OpFence /\ w.f3 = 0 -> [kind |-> "Fence"]
    [] IsSystem(w, 0) -> [kind |-> "Ecall"]
    [] IsSystem(w, 1) -> [kind |-> "Ebreak"]
    [] OTHER -> Illegal
=============================================================================
