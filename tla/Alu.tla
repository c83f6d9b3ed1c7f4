-------------------------------- MODULE Alu --------------------------------
(***************************************************************************)
(* The arithmetic of exec.rs: alu, muldiv and branch_taken.                *)
(***************************************************************************)
EXTENDS Words

(* i32::MIN and -1, as words. *)
MIN == WordMod \div 2
NegOne == WordMod - 1

(* Mutant: a mask one bit short. *)
ShiftAmountShort(b) == b % (XLen \div 2)

(* b & 0x1f. *)
ShiftAmount(b) == b % XLen

Alu(op, a, b) ==
  CASE op = "Add" -> Wrap(a + b)
    [] op = "Sub" -> Wrap(a - b)
    [] op = "Sll" -> Wrap(a * Pow2[ShiftAmount(b)])
    [] op = "Slt" -> Truth(Signed(a) < Signed(b))
    [] op = "Sltu" -> Truth(a < b)
    [] op = "Xor" -> BitXor(a, b)
    [] op = "Srl" -> a \div Pow2[ShiftAmount(b)]
    [] op = "Sra" -> Wrap(Signed(a) \div Pow2[ShiftAmount(b)])
    [] op = "Or" -> BitOr(a, b)
    [] OTHER -> BitAnd(a, b)

(* Mutant: a division by 2^32 in place of the arithmetic shift. *)
HighTruncated(p) == Wrap(IF p < 0 THEN -((-p) \div WordMod) ELSE p \div WordMod)

(* The high word of a two-word product: (p >> 32) as u32. *)
High(p) == Wrap(p \div WordMod)

Abs(n) == IF n < 0 THEN -n ELSE n

(* Rust's `/` and `%` on signed integers truncate towards zero. *)
Quotient(m, n) ==
  IF (m < 0) = (n < 0) THEN Abs(m) \div Abs(n) ELSE -(Abs(m) \div Abs(n))

(* Mutant: rem_euclid, or a language whose % follows the divisor. *)
RemainderEuclidean(m, n) == m % Abs(n)

Remainder(m, n) == IF m < 0 THEN -(Abs(m) % Abs(n)) ELSE Abs(m) % Abs(n)

(* Mutant: division by zero answers zero. *)
SignedDivZero(a, b) ==
  CASE b = 0 -> 0
    [] a = MIN /\ b = NegOne -> MIN
    [] OTHER -> Wrap(Quotient(Signed(a), Signed(b)))

SignedDiv(a, b) ==
  CASE b = 0 -> NegOne
    [] a = MIN /\ b = NegOne -> MIN
    [] OTHER -> Wrap(Quotient(Signed(a), Signed(b)))

SignedRem(a, b) ==
  CASE b = 0 -> a
    [] a = MIN /\ b = NegOne -> 0
    [] OTHER -> Wrap(Remainder(Signed(a), Signed(b)))

MulDiv(op, a, b) ==
  CASE op = "Mul" -> Wrap(a * b)
    [] op = "Mulh" -> High(Signed(a) * Signed(b))
    [] op = "Mulhsu" -> High(Signed(a) * b)
    [] op = "Mulhu" -> High(a * b)
    [] op = "Div" -> SignedDiv(a, b)
    [] op = "Divu" -> IF b = 0 THEN NegOne ELSE a \div b
    [] op = "Rem" -> SignedRem(a, b)
    [] OTHER -> IF b = 0 THEN a ELSE a % b

BranchTaken(op, a, b) ==
  CASE op = "Eq" -> a = b
    [] op = "Ne" -> a # b
    [] op = "Lt" -> Signed(a) < Signed(b)
    [] op = "Ge" -> Signed(a) >= Signed(b)
    [] op = "Ltu" -> a < b
    [] OTHER -> a >= b
=============================================================================
