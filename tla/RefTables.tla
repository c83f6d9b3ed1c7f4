------------------------------ MODULE RefTables ------------------------------
(***************************************************************************)
(* The tables of the reference interpreter (hartbeat-ref/src/lib.rs): its  *)
(* immediates, which words it accepts, and its arithmetic, selected by the *)
(* raw funct3 and funct7 and never by a typed operation.                   *)
(***************************************************************************)
EXTENDS Words, Encoding

(***************************************************************************)
(* Immediates: an arithmetic shift of the whole word extends the sign, so  *)
(* each starts from the signed upper bits and adds the rest below.         *)
(***************************************************************************)
TopBit(w) == w.f7 \div 64
SignedF7(w) == w.f7 - 128 * TopBit(w)

RefImmI(w) == SignedF7(w) * 32 + w.rs2
RefImmS(w) == SignedF7(w) * 32 + w.rd
RefImmB(w) ==
  (w.rd % 2) * 2048 + (w.f7 % 64) * 32 + ((w.rd \div 2) % 16) * 2 - TopBit(w) * 4096
RefImmU(w) == w.f7 * 8192 + w.rs2 * 256 + w.rs1 * 8 + w.f3
RefImmJ(w) ==
  (w.rs1 * 8 + w.f3) * 4096 + (w.rs2 % 2) * 2048
    + ((w.f7 % 64) * 16 + (w.rs2 \div 2)) * 2 - TopBit(w) * 1048576

(***************************************************************************)
(* Which words have an arm.  The others answer RefTrap::Illegal.           *)
(***************************************************************************)
LegalImm(f3, f7) == CASE f3 = 1 -> f7 = 0 [] f3 = 5 -> f7 \in {0, 32} [] OTHER -> TRUE
LegalReg(f3, f7) == f7 \in {0, 1} \/ (f7 = 32 /\ f3 \in {0, 5})
LegalBranch(f3) == f3 \in {0, 1, 4, 5, 6, 7}
LegalLoad(f3) == f3 \in {0, 1, 2, 4, 5}
LegalStore(f3) == f3 \in {0, 1, 2}

(* 0x00000073 and 0x00100073. *)
SystemWord(w, n) == w = RType(0, n, 0, 0, 0, OpSystem)

RefLegal(w) ==
  \/ w.op \in {OpLui, OpAuipc, OpJal}
  \/ w.op \in {OpJalr, OpFence} /\ w.f3 = 0
  \/ w.op = OpBranch /\ LegalBranch(w.f3)
  \/ w.op = OpLoad /\ LegalLoad(w.f3)
  \/ w.op = OpStore /\ LegalStore(w.f3)
  \/ w.op = OpImmed /\ LegalImm(w.f3, w.f7)
  \/ w.op = OpReg /\ LegalReg(w.f3, w.f7)
  \/ SystemWord(w, 0) \/ SystemWord(w, 1)

(***************************************************************************)
(* Arithmetic.  Each table is defined on the legal codes only.             *)
(***************************************************************************)
(* `sh`: the shift amount is masked here, and not once per shift. *)
Shl(a, sh) == Wrap(a * Pow2[sh])
Shr(a, sh) == a \div Pow2[sh]
Sar(a, sh) == Wrap(Signed(a) \div Pow2[sh])

(* The OP-IMM table: (f3, f7) on register va, immediate i, amount sh. *)
ImmTable(f3, f7, va, i, sh) ==
  CASE f3 = 0 -> Wrap(va + i)
    [] f3 = 2 -> Truth(Signed(va) < Signed(i))
    [] f3 = 3 -> Truth(va < i)
    [] f3 = 4 -> BitXor(va, i)
    [] f3 = 6 -> BitOr(va, i)
    [] f3 = 7 -> BitAnd(va, i)
    [] f3 = 1 /\ f7 = 0 -> Shl(va, sh)
    [] f3 = 5 /\ f7 = 0 -> Shr(va, sh)
    [] f3 = 5 /\ f7 = 32 -> Sar(va, sh)

(* mul_div: every high half and every division through 64-bit operands. *)
MulDivTable(f3, a, b) ==
  LET sa == Signed(a)
      sb == Signed(b)
      max == WordMod - 1
      min == WordMod \div 2
      size(n) == IF n < 0 THEN -n ELSE n
      quot == size(sa) \div size(sb)
      rest == size(sa) % size(sb)
  IN CASE f3 = 0 -> (sa * sb) % WordMod
       [] f3 = 1 -> ((sa * sb) \div WordMod) % WordMod
       [] f3 = 2 -> ((sa * b) \div WordMod) % WordMod
       [] f3 = 3 -> ((a * b) \div WordMod) % WordMod
       [] f3 \in {4, 5} /\ b = 0 -> max
       [] f3 \in {6, 7} /\ b = 0 -> a
       [] f3 = 4 /\ b # 0 ->
            IF a = min /\ b = max THEN min
            ELSE (IF (sa < 0) = (sb < 0) THEN quot ELSE -quot) % WordMod
       [] f3 = 5 /\ b # 0 -> a \div b
       [] f3 = 6 /\ b # 0 ->
            IF a = min /\ b = max THEN 0
            ELSE (IF sa < 0 THEN -rest ELSE rest) % WordMod
       [] f3 = 7 /\ b # 0 -> a % b

(* The OP table: (f7, f3) on two register values. *)
RegTable(f3, f7, va, vb) ==
  LET sh == vb % XLen
  IN CASE f7 = 0 /\ f3 = 0 -> Wrap(va + vb)
       [] f7 = 32 /\ f3 = 0 -> Wrap(va - vb)
       [] f7 = 0 /\ f3 = 1 -> Shl(va, sh)
       [] f7 = 0 /\ f3 = 2 -> Truth(Signed(va) < Signed(vb))
       [] f7 = 0 /\ f3 = 3 -> Truth(va < vb)
       [] f7 = 0 /\ f3 = 4 -> BitXor(va, vb)
       [] f7 = 0 /\ f3 = 5 -> Shr(va, sh)
       [] f7 = 32 /\ f3 = 5 -> Sar(va, sh)
       [] f7 = 0 /\ f3 = 6 -> BitOr(va, vb)
       [] f7 = 0 /\ f3 = 7 -> BitAnd(va, vb)
       [] f7 = 1 -> MulDivTable(f3, va, vb)

(* The BRANCH table: greater-or-equal is the negation of less-than. *)
Take(f3, va, vb) ==
  CASE f3 = 0 -> va = vb
    [] f3 = 1 -> va # vb
    [] f3 = 4 -> Signed(va) < Signed(vb)
    [] f3 = 5 -> ~(Signed(va) < Signed(vb))
    [] f3 = 6 -> va < vb
    [] f3 = 7 -> ~(va < vb)
=============================================================================
