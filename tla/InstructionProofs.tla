-------------------------- MODULE InstructionProofs --------------------------
(***************************************************************************)
(* What the pure functions of the interpreters compute, for every operand  *)
(* and every one of the 2^32 instruction words: the arithmetic, the two    *)
(* decoders, and their agreement.                                          *)
(***************************************************************************)
EXTENDS Alu, DecodeProperties, WellFoundedInduction, TLAPS

(***************************************************************************)
(* Induction: a set of numbers that is not empty has a least one.  Claims  *)
(* about every number are proved from the least counterexample.            *)
(***************************************************************************)
LEMMA LeastElement ==
  ASSUME NEW S, S \subseteq Nat, S # {} PROVE \E n \in S : \A m \in S : n <= m
  <1>1. IsWellFoundedOn(OpToRel(<, Nat), Nat) BY NatLessThanWellFounded
  <1>2. PICK n \in S : \A m \in S : <<m, n>> \notin OpToRel(<, Nat) BY <1>1, WFMin
  <1>3. \A m \in S : n <= m
    <2> TAKE m \in S
    <2>1. m \in Nat /\ n \in Nat OBVIOUS
    <2>2. ~(m < n) BY <1>2, <2>1 DEF OpToRel
    <2> QED BY <2>1, <2>2
  <1> QED BY <1>3

(***************************************************************************)
(* Descent: a sequence of steps that each go down in a well-founded order  *)
(* ends.  The orders are the lexicographic ones of pairs and triples.      *)
(***************************************************************************)
LowerPair == LexPairOrdering(OpToRel(<, Nat), OpToRel(<, Nat), Nat, Nat)
LowerTriple == LexPairOrdering(OpToRel(<, Nat), LowerPair, Nat, Nat \X Nat)

PairDescends(new, old) == <<new, old>> \in LowerPair
TripleDescends(new, old) == <<new, old>> \in LowerTriple

(* How far a counter is from its bound. *)
ToGo(n, bound) == IF n < bound THEN bound - n ELSE 0

(* No sequence goes down for ever in either order. *)
THEOREM NoEndlessDescent ==
  /\ IsWellFoundedOn(LowerPair, Nat \X Nat)
  /\ IsWellFoundedOn(LowerTriple, Nat \X (Nat \X Nat))
  BY NatLessThanWellFounded, WFLexPairOrdering DEF LowerPair, LowerTriple

(* One pair is lower than another. *)
LEMMA PairLower ==
  ASSUME NEW a \in Nat, NEW b \in Nat, NEW c \in Nat, NEW d \in Nat,
         a < c \/ (a = c /\ b < d)
  PROVE  PairDescends(<<a, b>>, <<c, d>>)
  BY DEF PairDescends, LowerPair, LexPairOrdering, OpToRel

(* One triple is lower than another. *)
LEMMA TripleLower ==
  ASSUME NEW a \in Nat, NEW b \in Nat, NEW c \in Nat,
         NEW d \in Nat, NEW e \in Nat, NEW f \in Nat,
         a < d \/ (a = d /\ (b < e \/ (b = e /\ c < f)))
  PROVE  TripleDescends(<<a, <<b, c>>>>, <<d, <<e, f>>>>)
  <1>1. CASE a < d BY <1>1 DEF TripleDescends, LowerTriple, LexPairOrdering, OpToRel
  <1>2. CASE a = d /\ (b < e \/ (b = e /\ c < f))
    <2>1. PairDescends(<<b, c>>, <<e, f>>) BY <1>2, PairLower
    <2> QED BY <1>2, <2>1 DEF TripleDescends, PairDescends, LowerTriple, LexPairOrdering
  <1> QED BY <1>1, <1>2

(* A counter that is counted up comes closer to its bound. *)
LEMMA ToGoFacts ==
  ASSUME NEW n \in Nat, NEW bound \in Nat
  PROVE  /\ ToGo(n, bound) \in Nat
         /\ n < bound => ToGo(n + 1, bound) < ToGo(n, bound)
  BY DEF ToGo

(***************************************************************************)
(* Words, at every byte base.                                              *)
(***************************************************************************)
(* Division with a positive divisor, as the provers need it. *)
LEMMA DivMod ==
  ASSUME NEW n \in Int, NEW d \in Nat \ {0}
  PROVE  /\ n \div d \in Int
         /\ n % d \in 0 .. d - 1
         /\ n = d * (n \div d) + (n % d)
  OBVIOUS

(* Quotient and remainder are the only ones.                              *)
LEMMA DivModUnique ==
  ASSUME NEW n \in Int, NEW d \in Nat \ {0}, NEW q \in Int, NEW r \in 0 .. d - 1,
         n = d * q + r
  PROVE  n \div d = q /\ n % d = r
  OBVIOUS

(* The modulus of a word is positive, and not tiny.                       *)
LEMMA WordModType == WordMod \in Nat \ {0} /\ WordMod >= 16
  BY BaseAssumption DEF WordMod

(* The modulus of a half word is positive, and not tiny.                  *)
LEMMA HalfModType == HalfMod \in Nat \ {0} /\ HalfMod >= 4
  BY BaseAssumption DEF HalfMod

(* Every wrapped integer is a word. *)
LEMMA WrapType == ASSUME NEW n \in Int PROVE Wrap(n) \in Word
  BY WordModType, DivMod DEF Wrap, Word

(* Wrapping leaves words alone. *)
LEMMA WrapWord == ASSUME NEW n \in Word PROVE Wrap(n) = n
  <1>1. n = WordMod * 0 + n /\ n \in 0 .. WordMod - 1 /\ n \in Int
    BY WordModType DEF Word
  <1> QED BY <1>1, WordModType, DivModUnique DEF Wrap

(* A word read as signed is an integer.                                   *)
LEMMA SignedType == ASSUME NEW a \in Word PROVE Signed(a) \in Int
  BY WordModType DEF Signed, SignExtend, Word

(* The outcome of a comparison, 0 or 1, is a word.                        *)
LEMMA TruthType == ASSUME NEW p PROVE Truth(p) \in Word
  BY WordModType DEF Truth, Word

(* The product of the bytes' weights: a word is a multiple of four long.   *)
LEMMA WordModMultiple == \E k \in Nat : WordMod = 4 * k
  <1>1. PICK h \in Nat : Base = 2 * h
    <2>1. Base = 2 * (Base \div 2) + (Base % 2) /\ Base \div 2 \in Int
      BY BaseAssumption, DivMod
    <2>2. Base \div 2 \in Nat /\ Base = 2 * (Base \div 2) BY <2>1, BaseAssumption
    <2> QED BY <2>2
  <1>2. WordMod = 4 * (h * h * (Base * Base))
    <2>1. Base * Base = 4 * (h * h) BY <1>1
    <2>2. WordMod = (Base * Base) * (Base * Base) BY BaseAssumption DEF WordMod
    <2> QED BY <2>1, <2>2, BaseAssumption
  <1> QED BY <1>2, BaseAssumption

(* Each byte of a word is a byte.                                         *)
LEMMA ByteAtType == ASSUME NEW v \in Word, NEW i \in Nat PROVE ByteAt(v, i) \in Byte
  <1> v \in Int /\ Base \in Nat \ {0} /\ HalfMod \in Nat \ {0} /\ HalfMod * Base \in Nat \ {0}
    BY BaseAssumption, WordModType, HalfModType DEF Word
  <1>1. v \div Base \in Int /\ v \div HalfMod \in Int /\ v \div (HalfMod * Base) \in Int
    BY DivMod
  <1>2. /\ v % Base \in 0 .. Base - 1
        /\ (v \div Base) % Base \in 0 .. Base - 1
        /\ (v \div HalfMod) % Base \in 0 .. Base - 1
        /\ (v \div (HalfMod * Base)) % Base \in 0 .. Base - 1
    BY <1>1, DivMod
  <1> QED BY <1>2 DEF ByteAt, Byte

(* Division is monotonic.                                                 *)
LEMMA DivMono ==
  ASSUME NEW m \in Int, NEW n \in Int, m <= n, NEW d \in Nat \ {0}
  PROVE  m \div d <= n \div d
  OBVIOUS

(* A quotient of naturals is a natural.                                   *)
LEMMA DivNat == ASSUME NEW n \in Nat, NEW d \in Nat \ {0} PROVE n \div d \in Nat
  OBVIOUS

(* One more digit. *)
LEMMA Digit ==
  ASSUME NEW v \in Int, NEW m \in Nat \ {0}, NEW b \in Nat \ {0}
  PROVE  v % (m * b) = (v % m) + ((v \div m) % b) * m
  <1>1. PICK q \in Int, r \in 0 .. m - 1 : v = m * q + r /\ q = v \div m /\ r = v % m
    BY DivMod
  <1>2. PICK q2 \in Int, r2 \in 0 .. b - 1 : q = b * q2 + r2 /\ r2 = q % b
    BY <1>1, DivMod
  <1>3. m * q = (m * b) * q2 + r2 * m
    <2>1. m * q = m * (b * q2) + m * r2 BY <1>2
    <2>2. m * (b * q2) = (m * b) * q2 OBVIOUS
    <2> QED BY <2>1, <2>2
  <1>4. r + r2 * m \in 0 .. m * b - 1
    <2>1. (b - 1 - r2) * m >= 0 BY <1>2
    <2>2. (b - 1 - r2) * m = b * m - m - r2 * m OBVIOUS
    <2>3. r2 * m >= 0 /\ r2 * m \in Int /\ b * m = m * b OBVIOUS
    <2> QED BY <2>1, <2>2, <2>3
  <1>5. PICK s \in 0 .. m * b - 1, d \in Nat \ {0} : s = r + r2 * m /\ d = m * b
    <2>1. m * b \in Nat \ {0} OBVIOUS
    <2> QED BY <1>4, <2>1
  <1>6. v = d * q2 + s /\ s \in 0 .. d - 1 BY <1>1, <1>3, <1>5
  <1>7. v % d = s BY <1>6, DivModUnique
  <1> QED BY <1>1, <1>2, <1>5, <1>7

(***************************************************************************)
(* alu, muldiv and the values they compute.                                *)
(***************************************************************************)
(* The constants of exec.rs, i32::MIN and u32::MAX, are words.            *)
LEMMA MinType == MIN \in Word /\ NegOne \in Word
  <1>1. WordMod \div 2 \in Int /\ WordMod = 2 * (WordMod \div 2) + (WordMod % 2)
        /\ WordMod % 2 \in 0 .. 1
    BY WordModType, DivMod
  <1> QED BY <1>1, WordModType DEF MIN, NegOne, Word

(* A register's value is an integer, read unsigned or signed.             *)
LEMMA WordInt == ASSUME NEW a \in Word PROVE a \in Nat /\ a \in Int /\ Signed(a) \in Int
  BY SignedType, WordModType DEF Word

(* The divisor of every shift is a positive power of two. *)
LEMMA ShiftType == ASSUME NEW b \in Word PROVE Pow2[ShiftAmount(b)] \in Nat \ {0}
  <1>1. b % XLen \in 0 .. XLen - 1 BY WordInt, XLenAssumption, DivMod
  <1> QED BY <1>1, XLenAssumption DEF ShiftAmount

(* A word divided by a positive number is a word. *)
LEMMA DivWord == ASSUME NEW a \in Word, NEW d \in Nat \ {0} PROVE a \div d \in Word
  <1>1. PICK q \in Int, r \in 0 .. d - 1 : a = d * q + r /\ q = a \div d
    BY WordInt, DivMod
  <1>2. q \in Nat /\ q <= a
    <2>1. a \in Nat BY WordInt
    <2>2. q >= 0
      <3>1. SUFFICES ASSUME q < 0 PROVE FALSE BY <1>1
      <3>2. d * q <= -d BY <1>1, <3>1
      <3> QED BY <1>1, <2>1, <3>2
    <2>3. d * q >= q BY <1>1, <2>2
    <2> QED BY <1>1, <2>1, <2>2, <2>3
  <1> QED BY <1>1, <1>2, WordModType DEF Word

(* A remainder of words is a word: remu stays in a register.              *)
LEMMA ModWord == ASSUME NEW a \in Word, NEW b \in Word, b # 0 PROVE a % b \in Word
  <1>1. b \in Nat \ {0} /\ a \in Int BY WordInt
  <1>2. a % b \in 0 .. b - 1 BY <1>1, DivMod
  <1> QED BY <1>2, WordModType DEF Word

(* alu returns a u32. *)
LEMMA AluType ==
  ASSUME NEW op, NEW a \in Word, NEW b \in Word PROVE Alu(op, a, b) \in Word
  <1>1. a \in Int /\ b \in Int /\ Signed(a) \in Int BY WordInt
  <1>2. PICK p \in Nat \ {0} : p = Pow2[ShiftAmount(b)] BY ShiftType
  <1>3. a + b \in Int /\ a - b \in Int /\ a * p \in Int BY <1>1
  <1>4. Signed(a) \div p \in Int BY <1>1, DivMod
  <1>5. Wrap(a + b) \in Word /\ Wrap(a - b) \in Word /\ Wrap(a * p) \in Word
        /\ Wrap(Signed(a) \div p) \in Word
    BY <1>3, <1>4, WrapType
  <1>6. a \div p \in Word BY DivWord
  <1>7. Truth(Signed(a) < Signed(b)) \in Word /\ Truth(a < b) \in Word BY TruthType
  <1>8. BitXor(a, b) \in Word /\ BitOr(a, b) \in Word /\ BitAnd(a, b) \in Word
    BY BitAssumption
  <1> QED BY <1>2, <1>5, <1>6, <1>7, <1>8 DEF Alu

(* A non-zero word is non-zero as a signed number. *)
LEMMA SignedNonZero == ASSUME NEW a \in Word, a # 0 PROVE Signed(a) # 0
  BY WordModType DEF Signed, SignExtend, Word

(* Truncating division and remainder are integers. *)
LEMMA TruncatedType ==
  ASSUME NEW m \in Int, NEW n \in Int, n # 0
  PROVE  Quotient(m, n) \in Int /\ Remainder(m, n) \in Int
  <1>1. Abs(m) \in Int /\ Abs(n) \in Nat \ {0} BY DEF Abs
  <1>2. Abs(m) \div Abs(n) \in Int /\ Abs(m) % Abs(n) \in 0 .. Abs(n) - 1
    BY <1>1, DivMod
  <1>3. PICK q \in Int, r \in Int : q = Abs(m) \div Abs(n) /\ r = Abs(m) % Abs(n)
    BY <1>1, <1>2
  <1> QED BY <1>3 DEF Quotient, Remainder

(* muldiv returns a u32 in every case, division by zero and i32::MIN / -1  *)
(* included.                                                               *)
LEMMA MulDivType ==
  ASSUME NEW op, NEW a \in Word, NEW b \in Word PROVE MulDiv(op, a, b) \in Word
  <1>1. a \in Int /\ b \in Int /\ Signed(a) \in Int /\ Signed(b) \in Int BY WordInt
  <1>2. ASSUME NEW p \in Int PROVE High(p) \in Word
    <2>1. p \div WordMod \in Int BY WordModType, DivMod
    <2> QED BY <2>1, WrapType DEF High
  <1>3. a * b \in Int /\ Signed(a) * Signed(b) \in Int /\ Signed(a) * b \in Int BY <1>1
  <1>4. Wrap(a * b) \in Word /\ High(Signed(a) * Signed(b)) \in Word
        /\ High(Signed(a) * b) \in Word /\ High(a * b) \in Word
    BY <1>2, <1>3, WrapType
  <1>5. 0 \in Word /\ MIN \in Word /\ NegOne \in Word
    BY MinType, WordModType DEF Word
  <1>6. SignedDiv(a, b) \in Word /\ SignedRem(a, b) \in Word
    <2>1. CASE b = 0 BY <1>5, <2>1 DEF SignedDiv, SignedRem
    <2>2. CASE b # 0
      <3>1. Signed(b) # 0 BY <2>2, SignedNonZero
      <3>2. Quotient(Signed(a), Signed(b)) \in Int /\ Remainder(Signed(a), Signed(b)) \in Int
        BY <1>1, <3>1, TruncatedType
      <3>3. Wrap(Quotient(Signed(a), Signed(b))) \in Word
            /\ Wrap(Remainder(Signed(a), Signed(b))) \in Word
        BY <3>2, WrapType
      <3> QED BY <1>5, <2>2, <3>3 DEF SignedDiv, SignedRem
    <2> QED BY <2>1, <2>2
  <1>7. (IF b = 0 THEN NegOne ELSE a \div b) \in Word
    <2>1. CASE b = 0 BY <1>5, <2>1
    <2>2. CASE b # 0
      <3>1. b \in Nat \ {0} BY <2>2, WordInt
      <3> QED BY <2>2, <3>1, DivWord
    <2> QED BY <2>1, <2>2
  <1>8. (IF b = 0 THEN a ELSE a % b) \in Word BY ModWord
  <1> QED BY <1>4, <1>6, <1>7, <1>8 DEF MulDiv

(* A loaded byte or halfword extends to a u32. *)
LEMMA SignExtendType ==
  ASSUME NEW v \in Int, NEW m \in Int PROVE Wrap(SignExtend(v, m)) \in Word
  <1>1. SignExtend(v, m) \in Int BY DEF SignExtend
  <1> QED BY <1>1, WrapType

(***************************************************************************)
(* Types.                                                                  *)
(***************************************************************************)
(* A word's fields lie in their widths, and are all of the word.          *)
LEMMA FieldTypes ==
  ASSUME NEW w \in Fields
  PROVE  /\ w.f7 \in 0 .. 127 /\ w.rs2 \in 0 .. 31 /\ w.rs1 \in 0 .. 31
         /\ w.f3 \in 0 .. 7 /\ w.rd \in 0 .. 31 /\ w.op \in 0 .. 127
         /\ w = RType(w.f7, w.rs2, w.rs1, w.f3, w.rd, w.op)
  BY SMT DEF Fields, Reg, RType

(* Sign extension answers an integer.                                     *)
LEMMA SextType == ASSUME NEW v \in Int, NEW m \in Int PROVE Sext(v, m) \in Int
  BY SMT DEF Sext

(* The five immediate extractors answer integers, on every word.          *)
LEMMA ImmediateType ==
  ASSUME NEW w \in Fields
  PROVE  ImmI(w) \in Int /\ ImmS(w) \in Int /\ ImmB(w) \in Int /\ ImmJ(w) \in Int
         /\ ImmU(w) \in Int
  <1>1. /\ w.f7 \in Int /\ w.rs2 \in Int /\ w.rs1 \in Int /\ w.f3 \in Int /\ w.rd \in Int
    BY FieldTypes
  <1>2. /\ w.f7 \div 64 \in Int /\ w.f7 % 64 \in Int /\ w.rd % 2 \in Int
        /\ w.rd \div 2 \in Int /\ w.rs2 % 2 \in Int /\ w.rs2 \div 2 \in Int
    BY <1>1, SMT
  <1>3. ImmI(w) \in Int
    <2>1. w.f7 * 32 + w.rs2 \in Int /\ 4096 \in Int BY <1>1, SMT
    <2> QED BY <2>1, SextType DEF ImmI
  <1>4. ImmS(w) \in Int
    <2>1. w.f7 * 32 + w.rd \in Int /\ 4096 \in Int BY <1>1, SMT
    <2> QED BY <2>1, SextType DEF ImmS
  <1>5. ImmB(w) \in Int
    <2>1. /\ (w.f7 \div 64) * 4096 + (w.rd % 2) * 2048 + (w.f7 % 64) * 32
             + (w.rd \div 2) * 2 \in Int
          /\ 8192 \in Int
      BY <1>2, SMT
    <2> QED BY <2>1, SextType, SMT DEF ImmB
  <1>6. ImmJ(w) \in Int
    <2>1. /\ (w.f7 \div 64) * 1048576 + (w.rs1 * 8 + w.f3) * 4096 + (w.rs2 % 2) * 2048
             + ((w.f7 % 64) * 16 + w.rs2 \div 2) * 2 \in Int
          /\ 2097152 \in Int
      BY <1>1, <1>2, SMT
    <2> QED BY <2>1, SextType, SMT DEF ImmJ
  <1>7. ImmU(w) \in Int BY <1>1, SMT DEF ImmU
  <1> QED BY <1>3, <1>4, <1>5, <1>6, <1>7

(* What the tables of funct3 and funct7 answer is an operation or nothing. *)
LEMMA OpTables ==
  ASSUME NEW f3 \in 0 .. 7, NEW f7 \in 0 .. 127
  PROVE  /\ BranchOpOf(f3) \in BranchOp \cup {"None"}
         /\ LoadOpOf(f3) \in LoadOp \cup {"None"}
         /\ StoreOpOf(f3) \in StoreOp \cup {"None"}
         /\ ImmOpOf(f3, f7) \in AluOp \cup {"None"}
         /\ RegOpOf(f3, f7) \in AluOp \cup {"None"}
         /\ MulOpOf(f3) \in MulOp
  BY SMT DEF BranchOpOf, LoadOpOf, StoreOpOf, ImmOpOf, RegOpOf, MulOpOf,
         BranchOp, LoadOp, StoreOp, AluOp, MulOp

(* decode answers a well-formed instruction or None: no word falls through *)
(* to an operation that execute has no arm for (decode.rs 187-336).        *)
THEOREM DecodeType == \A w \in Fields : Decode(w) \in Instr \cup {Illegal}
  <1> TAKE w \in Fields
  <1> DEFINE op == w.op
             b == BranchOpOf(w.f3)
             l == LoadOpOf(w.f3)
             s == StoreOpOf(w.f3)
             m == ImmOpOf(w.f3, w.f7)
             r == RegOpOf(w.f3, w.f7)
  <1>1. ImmI(w) \in Int /\ ImmS(w) \in Int /\ ImmB(w) \in Int /\ ImmJ(w) \in Int
        /\ ImmU(w) \in Int /\ ImmOf(m, w) \in Int
    BY ImmediateType, SMT DEF ImmOf, Fields, Reg
  <1>2. /\ b \in BranchOp \cup {"None"} /\ l \in LoadOp \cup {"None"}
        /\ s \in StoreOp \cup {"None"} /\ m \in AluOp \cup {"None"}
        /\ r \in AluOp \cup {"None"} /\ MulOpOf(w.f3) \in MulOp
    BY OpTables, SMT DEF Fields
  <1>3. w.rd \in Reg /\ w.rs1 \in Reg /\ w.rs2 \in Reg BY SMT DEF Fields
  <1> HIDE DEF b, l, s, m, r
  <1> USE DEF OpLui, OpAuipc, OpJal, OpJalr, OpBranch, OpLoad, OpStore, OpImmed, OpReg,
              OpFence, OpSystem
  <1>4. CASE op \in {OpLui, OpAuipc, OpJal}
    BY <1>1, <1>3, <1>4, SMT DEF Decode, Instr
  <1>5. CASE op = OpJalr BY <1>1, <1>3, <1>5, SMT DEF Decode, Instr, IsSystem, Illegal
  <1>6. CASE op = OpBranch
    BY <1>1, <1>2, <1>3, <1>6, SMT DEF Decode, Instr, IsSystem, Illegal, b
  <1>7. CASE op = OpLoad
    BY <1>1, <1>2, <1>3, <1>7, SMT DEF Decode, Instr, IsSystem, Illegal, l
  <1>8. CASE op = OpStore
    BY <1>1, <1>2, <1>3, <1>8, SMT DEF Decode, Instr, IsSystem, Illegal, s
  <1>9. CASE op = OpImmed
    BY <1>1, <1>2, <1>3, <1>9, SMT DEF Decode, Instr, IsSystem, Illegal, m
  <1>10. CASE op = OpReg
    BY <1>1, <1>2, <1>3, <1>10, SMT DEF Decode, Instr, IsSystem, Illegal, r
  <1>11. CASE op \notin {OpLui, OpAuipc, OpJal, OpJalr, OpBranch, OpLoad, OpStore, OpImmed,
                         OpReg}
    BY <1>11, SMT DEF Decode, Instr, Illegal
  <1> QED BY <1>4, <1>5, <1>6, <1>7, <1>8, <1>9, <1>10, <1>11

(***************************************************************************)
(* Positional arithmetic.                                                  *)
(***************************************************************************)
(* v is a, b and c side by side, b with m values and c with n. *)
Digits(v, n, m, a, b, c) ==
  /\ n \in Nat \ {0} /\ m \in Nat \ {0}
  /\ a \in Int /\ b \in Nat /\ b < m /\ c \in Nat /\ c < n
  /\ v = n * (m * a + b) + c

(* The middle digit is what shifting and masking takes out.               *)
LEMMA SliceOf ==
  ASSUME NEW v, NEW n, NEW m, NEW a, NEW b, NEW c, Digits(v, n, m, a, b, c)
  PROVE  Slice(v, n, m) = b
  <1> USE DEF Digits
  <1>1. PICK u \in Int : u = m * a + b OBVIOUS
  <1>2. u % m = b BY <1>1, DivModUnique
  <1>3. n * u \in Int /\ v = n * u + c /\ v \in Int BY <1>1
  <1>4. v \div n = u BY <1>1, <1>3, DivModUnique
  <1> QED BY <1>2, <1>4 DEF Slice

(* The low digit. *)
LEMMA LowOf ==
  ASSUME NEW v, NEW n \in Nat \ {0}, NEW a \in Int, NEW c \in 0 .. n - 1, v = n * a + c
  PROVE  v % n = c
  <1>1. n * a \in Int /\ v \in Int OBVIOUS
  <1> QED BY <1>1, DivModUnique

(* The pieces of funct7, rd and rs2 that the immediates move about, as     *)
(* names, so that what remains is linear arithmetic.                       *)
Top(w) == w.f7 \div 64
Mid(w) == w.f7 % 64
RdHigh(w) == w.rd \div 2
RdLow(w) == w.rd % 2
Rs2High(w) == w.rs2 \div 2
Rs2Low(w) == w.rs2 % 2

(* The pieces lie in their widths and make up the fields they came from.  *)
LEMMA Pieces ==
  ASSUME NEW w \in Fields
  PROVE  /\ Top(w) \in 0 .. 1 /\ Mid(w) \in 0 .. 63 /\ w.f7 = 64 * Top(w) + Mid(w)
         /\ RdHigh(w) \in 0 .. 15 /\ RdLow(w) \in 0 .. 1 /\ w.rd = 2 * RdHigh(w) + RdLow(w)
         /\ Rs2High(w) \in 0 .. 15 /\ Rs2Low(w) \in 0 .. 1
         /\ w.rs2 = 2 * Rs2High(w) + Rs2Low(w)
         /\ w.rs1 \in 0 .. 31 /\ w.f3 \in 0 .. 7 /\ w.rs2 \in 0 .. 31 /\ w.rd \in 0 .. 31
  <1>1. /\ w.f7 \in 0 .. 127 /\ w.rs2 \in 0 .. 31 /\ w.rs1 \in 0 .. 31 /\ w.f3 \in 0 .. 7
        /\ w.rd \in 0 .. 31
    BY FieldTypes
  <1>2. Top(w) \in 0 .. 1 /\ Mid(w) \in 0 .. 63 /\ w.f7 = 64 * Top(w) + Mid(w)
    BY <1>1, SMT DEF Top, Mid
  <1>3. RdHigh(w) \in 0 .. 15 /\ RdLow(w) \in 0 .. 1 /\ w.rd = 2 * RdHigh(w) + RdLow(w)
    BY <1>1, SMT DEF RdHigh, RdLow
  <1>4. /\ Rs2High(w) \in 0 .. 15 /\ Rs2Low(w) \in 0 .. 1
        /\ w.rs2 = 2 * Rs2High(w) + Rs2Low(w)
    BY <1>1, SMT DEF Rs2High, Rs2Low
  <1> QED BY <1>1, <1>2, <1>3, <1>4, SMT

(* The halves of the moduli that sign extension compares with.            *)
LEMMA Halvings == 4096 \div 2 = 2048 /\ 8192 \div 2 = 4096
  BY SMT

(* The weight of bit 20, named because the provers are slow on its digits. *)
Mega == 1048576

(* What is used of the weight of bit 20.                                  *)
LEMMA MegaFacts ==
  /\ Mega \in Nat /\ Mega = 256 * 4096 /\ (2 * Mega) \div 2 = Mega
  /\ 1048576 = Mega /\ 2097152 = 2 * Mega
  BY SMT DEF Mega

(* Sign extension moves the top bit's weight below zero. *)
LEMMA ImmValues ==
  ASSUME NEW w \in Fields
  PROVE  /\ ImmI(w) = Mid(w) * 32 + w.rs2 + Top(w) * (-2048)
         /\ ImmS(w) = Mid(w) * 32 + w.rd + Top(w) * (-2048)
         /\ ImmB(w) = RdLow(w) * 2048 + Mid(w) * 32 + RdHigh(w) * 2 + Top(w) * (-4096)
         /\ ImmJ(w) = (w.rs1 * 8 + w.f3) * 4096 + Rs2Low(w) * 2048
                        + (Mid(w) * 16 + Rs2High(w)) * 2 - Top(w) * Mega
  <1>1. ImmI(w) = Mid(w) * 32 + w.rs2 + Top(w) * (-2048)
    <2>1. ImmI(w) = Sext((64 * Top(w) + Mid(w)) * 32 + w.rs2, 4096)
      BY Pieces, SMT DEF ImmI
    <2>2. CASE Top(w) = 0 BY <2>1, <2>2, Pieces, Halvings, SMT DEF Sext
    <2>3. CASE Top(w) = 1 BY <2>1, <2>3, Pieces, Halvings, SMT DEF Sext
    <2> QED BY <2>2, <2>3, Pieces, SMT
  <1>2. ImmS(w) = Mid(w) * 32 + w.rd + Top(w) * (-2048)
    <2>1. ImmS(w) = Sext((64 * Top(w) + Mid(w)) * 32 + w.rd, 4096)
      BY Pieces, SMT DEF ImmS
    <2>2. CASE Top(w) = 0 BY <2>1, <2>2, Pieces, Halvings, SMT DEF Sext
    <2>3. CASE Top(w) = 1 BY <2>1, <2>3, Pieces, Halvings, SMT DEF Sext
    <2> QED BY <2>2, <2>3, Pieces, SMT
  <1>3. ImmB(w) = RdLow(w) * 2048 + Mid(w) * 32 + RdHigh(w) * 2 + Top(w) * (-4096)
    <2>1. ImmB(w) = Sext(Top(w) * 4096 + RdLow(w) * 2048 + Mid(w) * 32 + RdHigh(w) * 2, 8192)
      BY SMT DEF ImmB, Top, Mid, RdLow, RdHigh
    <2>2. CASE Top(w) = 0 BY <2>1, <2>2, Pieces, Halvings, SMT DEF Sext
    <2>3. CASE Top(w) = 1 BY <2>1, <2>3, Pieces, Halvings, SMT DEF Sext
    <2> QED BY <2>2, <2>3, Pieces, SMT
  <1>4. ImmJ(w) = (w.rs1 * 8 + w.f3) * 4096 + Rs2Low(w) * 2048
                    + (Mid(w) * 16 + Rs2High(w)) * 2 - Top(w) * Mega
    <2>5. PICK a \in Int : a = (w.rs1 * 8 + w.f3) * 4096 BY Pieces, SMT
    <2>6. PICK b \in Int : b = Rs2Low(w) * 2048 BY Pieces, SMT
    <2>7. PICK c \in Int : c = (Mid(w) * 16 + Rs2High(w)) * 2 BY Pieces, SMT
    <2>8. PICK m \in Int : m = Top(w) * Mega BY Pieces, MegaFacts, SMT
    <2>1. PICK u \in Int :
            /\ u = (w.rs1 * 8 + w.f3) * 4096 + Rs2Low(w) * 2048
                    + (Mid(w) * 16 + Rs2High(w)) * 2
            /\ 0 <= u /\ u < Mega
      <3>1. PICK hi \in 0 .. 255 : hi = w.rs1 * 8 + w.f3
        <4>1. w.rs1 * 8 + w.f3 \in 0 .. 255 BY Pieces, SMT
        <4> QED BY <4>1, SMT
      <3>2. PICK lo \in Int : /\ lo = Rs2Low(w) * 2048 + (Mid(w) * 16 + Rs2High(w)) * 2
                              /\ 0 <= lo /\ lo < 4096
        BY Pieces, SMT
      <3>3. hi * 4096 + lo \in Int /\ 0 <= hi * 4096 + lo /\ hi * 4096 + lo < 256 * 4096
        BY <3>1, <3>2, SMT
      <3>4. hi * 4096 + lo = (w.rs1 * 8 + w.f3) * 4096 + Rs2Low(w) * 2048
                               + (Mid(w) * 16 + Rs2High(w)) * 2
        BY <3>1, <3>2, Pieces, SMT
      <3> QED BY <3>3, <3>4, MegaFacts, SMT
    <2>2. ImmJ(w) = Sext(Top(w) * Mega + u, 2 * Mega)
      <3>1. ImmJ(w) = Sext(Top(w) * Mega + (w.rs1 * 8 + w.f3) * 4096 + Rs2Low(w) * 2048
                             + (Mid(w) * 16 + Rs2High(w)) * 2, 2 * Mega)
        BY MegaFacts, SMT DEF ImmJ, Top, Mid, Rs2Low, Rs2High
      <3>2. m + a + b + c = m + u BY <2>1, <2>5, <2>6, <2>7, <2>8, SMT
      <3>3. ImmJ(w) = Sext(m + a + b + c, 2 * Mega) BY <2>5, <2>6, <2>7, <2>8, <3>1, SMT
      <3>4. ImmJ(w) = Sext(m + u, 2 * Mega) BY <3>2, <3>3, SMT
      <3> QED BY <2>5, <2>6, <2>7, <2>8, <3>4, SMT
    <2>3. ImmJ(w) = u - Top(w) * Mega
      <3>1. CASE Top(w) = 0 BY <2>1, <2>2, <3>1, MegaFacts, SMT DEF Sext
      <3>2. CASE Top(w) = 1 BY <2>1, <2>2, <3>2, MegaFacts, SMT DEF Sext
      <3> QED BY <3>1, <3>2, Pieces, SMT
    <2>4. ImmJ(w) = a + b + c - m BY <2>1, <2>3, <2>5, <2>6, <2>7, <2>8, SMT
    <2> QED BY <2>4, <2>5, <2>6, <2>7, <2>8, SMT
  <1> QED BY <1>1, <1>2, <1>3, <1>4, SMT

(* The reference reads the same immediates. *)
LEMMA SameImmediates ==
  ASSUME NEW w \in Fields
  PROVE  /\ ImmI(w) = RefImmI(w) /\ ImmS(w) = RefImmS(w) /\ ImmB(w) = RefImmB(w)
         /\ ImmJ(w) = RefImmJ(w) /\ ImmU(w) = RefImmU(w)
  <1>1. TopBit(w) = Top(w) BY SMT DEF TopBit, Top
  <1>2. SignedF7(w) = Mid(w) - 64 * Top(w)
    BY <1>1, Pieces, SMT DEF SignedF7
  <1>3. (w.rd \div 2) % 16 = RdHigh(w)
    <2>1. RdHigh(w) % 16 = RdHigh(w) BY Pieces, SMT
    <2> QED BY <2>1, SMT DEF RdHigh
  <1>4. ImmI(w) = RefImmI(w) BY <1>2, Pieces, ImmValues, SMT DEF RefImmI
  <1>5. ImmS(w) = RefImmS(w) BY <1>2, Pieces, ImmValues, SMT DEF RefImmS
  <1>6. ImmB(w) = RefImmB(w)
    <2>1. RefImmB(w) = RdLow(w) * 2048 + Mid(w) * 32 + RdHigh(w) * 2 - Top(w) * 4096
      BY <1>1, <1>3, SMT DEF RefImmB, Mid, RdLow
    <2> QED BY <2>1, Pieces, ImmValues, SMT
  <1>7. ImmJ(w) = RefImmJ(w)
    <2>1. RefImmJ(w) = (w.rs1 * 8 + w.f3) * 4096 + Rs2Low(w) * 2048
                         + (Mid(w) * 16 + Rs2High(w)) * 2 - Top(w) * Mega
      BY MegaFacts, SMT DEF RefImmJ, TopBit, Top, Mid, Rs2Low, Rs2High
    <2> QED BY <2>1, ImmValues, SMT
  <1>8. ImmU(w) = RefImmU(w) BY SMT DEF ImmU, RefImmU
  <1> QED BY <1>4, <1>5, <1>6, <1>7, <1>8, SMT

(* The reference accepts the same operations. *)
LEMMA SameOps ==
  ASSUME NEW f3 \in 0 .. 7, NEW f7 \in 0 .. 127
  PROVE  /\ BranchOpOf(f3) # "None" <=> LegalBranch(f3)
         /\ LoadOpOf(f3) # "None" <=> LegalLoad(f3)
         /\ StoreOpOf(f3) # "None" <=> LegalStore(f3)
         /\ ImmOpOf(f3, f7) # "None" <=> LegalImm(f3, f7)
         /\ f7 = 1 \/ RegOpOf(f3, f7) # "None" <=> LegalReg(f3, f7)
  <1>1. BranchOpOf(f3) # "None" <=> LegalBranch(f3) BY SMT DEF BranchOpOf, LegalBranch
  <1>2. LoadOpOf(f3) # "None" <=> LegalLoad(f3) BY SMT DEF LoadOpOf, LegalLoad
  <1>3. StoreOpOf(f3) # "None" <=> LegalStore(f3) BY SMT DEF StoreOpOf, LegalStore
  <1>4. ImmOpOf(f3, f7) # "None" <=> LegalImm(f3, f7) BY SMT DEF ImmOpOf, LegalImm
  <1>5. f7 = 1 \/ RegOpOf(f3, f7) # "None" <=> LegalReg(f3, f7)
    BY SMT DEF RegOpOf, LegalReg
  <1> QED BY <1>1, <1>2, <1>3, <1>4, <1>5, SMT

(***************************************************************************)
(* The encoders take apart what the immediates put together.               *)
(***************************************************************************)
(* What IType and SType cut: bits 11..5 and 4..0. *)
LEMMA Cut12 ==
  ASSUME NEW t \in 0 .. 1, NEW mid \in 0 .. 63, NEW r \in 0 .. 31, NEW v,
         v = mid * 32 + r + t * (-2048)
  PROVE  Slice(v, 32, 128) = 64 * t + mid /\ v % 32 = r
  <1>1. Digits(v, 32, 128, -t, 64 * t + mid, r) BY SMT DEF Digits
  <1>2. PICK a \in Int : a = 128 * (-t) + (64 * t + mid) BY SMT
  <1>3. v = 32 * a + r /\ 32 \in Nat \ {0} /\ r \in 0 .. 32 - 1 BY <1>2, SMT
  <1> QED BY <1>1, <1>3, SliceOf, LowOf, SMT

(* The bits that Encode takes from an I immediate are funct7 and rs2.     *)
LEMMA BitsI ==
  ASSUME NEW w \in Fields
  PROVE  Slice(ImmI(w), 32, 128) = w.f7 /\ ImmI(w) % 32 = w.rs2
  <1>1. PICK t \in 0 .. 1, mid \in 0 .. 63, r \in 0 .. 31 :
          t = Top(w) /\ mid = Mid(w) /\ r = w.rs2
    BY Pieces, Zenon
  <1>2. ImmI(w) = mid * 32 + r + t * (-2048) BY <1>1, ImmValues, SMT
  <1>3. Slice(ImmI(w), 32, 128) = 64 * t + mid /\ ImmI(w) % 32 = r BY <1>2, Cut12, SMTT(30)
  <1>4. w.f7 = 64 * t + mid BY <1>1, Pieces, Zenon
  <1> QED BY <1>1, <1>3, <1>4, Zenon

(* The bits that Encode takes from an S immediate are funct7 and rd.      *)
LEMMA BitsS ==
  ASSUME NEW w \in Fields
  PROVE  Slice(ImmS(w), 32, 128) = w.f7 /\ ImmS(w) % 32 = w.rd
  <1>1. PICK t \in 0 .. 1, mid \in 0 .. 63, r \in 0 .. 31 :
          t = Top(w) /\ mid = Mid(w) /\ r = w.rd
    BY Pieces, SMT
  <1>2. ImmS(w) = mid * 32 + r + t * (-2048) BY <1>1, ImmValues, SMT
  <1>3. Slice(ImmS(w), 32, 128) = 64 * t + mid /\ ImmS(w) % 32 = r BY <1>2, Cut12, SMTT(30)
  <1>4. w.f7 = 64 * t + mid BY <1>1, Pieces, Zenon
  <1> QED BY <1>1, <1>3, <1>4, Zenon

(* The bits that Encode takes from a U immediate are the upper twenty.    *)
LEMMA BitsU ==
  ASSUME NEW w \in Fields
  PROVE  /\ Slice(ImmU(w), 8192, 128) = w.f7 /\ Slice(ImmU(w), 256, 32) = w.rs2
         /\ Slice(ImmU(w), 8, 32) = w.rs1 /\ ImmU(w) % 8 = w.f3
  <1>1. PICK f \in 0 .. 127, r2 \in 0 .. 31, r1 \in 0 .. 31, f3 \in 0 .. 7 :
          f = w.f7 /\ r2 = w.rs2 /\ r1 = w.rs1 /\ f3 = w.f3
    <2>1. w.f7 \in 0 .. 127 /\ w.rs2 \in 0 .. 31 /\ w.rs1 \in 0 .. 31 /\ w.f3 \in 0 .. 7
      BY FieldTypes, Zenon
    <2> QED BY <2>1, Zenon
  <1>2. PICK v \in Int : v = f * 8192 + r2 * 256 + r1 * 8 + f3 BY SMT
  <1>3. ImmU(w) = v BY <1>1, <1>2, SMT DEF ImmU
  <1>4. Digits(v, 8192, 128, 0, f, r2 * 256 + r1 * 8 + f3) BY <1>2, SMT DEF Digits
  <1>5. Digits(v, 256, 32, f, r2, r1 * 8 + f3) BY <1>2, SMT DEF Digits
  <1>6. Digits(v, 8, 32, f * 32 + r2, r1, f3) BY <1>2, SMT DEF Digits
  <1>7. v % 8 = f3
    <2>1. PICK a \in Int : a = f * 1024 + r2 * 32 + r1 BY SMT
    <2>2. v = 8 * a + f3 /\ 8 \in Nat \ {0} /\ f3 \in 0 .. 8 - 1 BY <1>2, <2>1, SMT
    <2> QED BY <2>2, LowOf, SMT
  <1>8. Slice(v, 8192, 128) = f BY <1>4, SliceOf, SMT
  <1>9. Slice(v, 256, 32) = r2 /\ Slice(v, 8, 32) = r1 BY <1>5, <1>6, SliceOf, SMT
  <1> QED BY <1>1, <1>3, <1>7, <1>8, <1>9, SMT

(* The bits that Encode takes from a B immediate are funct7 and rd.       *)
LEMMA BitsB ==
  ASSUME NEW w \in Fields
  PROVE  /\ Slice(ImmB(w), 4096, 2) * 64 + Slice(ImmB(w), 32, 64) = w.f7
         /\ Slice(ImmB(w), 2, 16) * 2 + Slice(ImmB(w), 2048, 2) = w.rd
  <1>1. PICK t \in 0 .. 1, mid \in 0 .. 63, hd \in 0 .. 15, ld \in 0 .. 1 :
          t = Top(w) /\ mid = Mid(w) /\ hd = RdHigh(w) /\ ld = RdLow(w)
    BY Pieces
  <1>2. w.f7 = 64 * t + mid /\ w.rd = 2 * hd + ld BY <1>1, Pieces, SMT
  <1>3. PICK v \in Int : v = ld * 2048 + mid * 32 + hd * 2 + t * (-4096) BY SMT
  <1>4. ImmB(w) = v BY <1>1, <1>3, ImmValues, SMT
  <1>5. Digits(v, 4096, 2, -t, t, ld * 2048 + mid * 32 + hd * 2) BY <1>3, SMT DEF Digits
  <1>6. Digits(v, 32, 64, ld + t * (-2), mid, hd * 2) BY <1>3, SMT DEF Digits
  <1>7. Digits(v, 2, 16, ld * 64 + mid + t * (-128), hd, 0) BY <1>3, SMT DEF Digits
  <1>8. Digits(v, 2048, 2, -t, ld, mid * 32 + hd * 2) BY <1>3, SMT DEF Digits
  <1>9. Slice(v, 4096, 2) = t /\ Slice(v, 32, 64) = mid BY <1>5, <1>6, SliceOf, SMT
  <1>10. Slice(v, 2, 16) = hd /\ Slice(v, 2048, 2) = ld BY <1>7, <1>8, SliceOf, SMT
  <1> QED BY <1>2, <1>4, <1>9, <1>10, SMT

(* The bits that Encode takes from a J immediate are the upper twenty.    *)
LEMMA BitsJ ==
  ASSUME NEW w \in Fields
  PROVE  /\ Slice(ImmJ(w), 1048576, 2) * 64 + Slice(ImmJ(w), 32, 64) = w.f7
         /\ Slice(ImmJ(w), 2, 16) * 2 + Slice(ImmJ(w), 2048, 2) = w.rs2
         /\ Slice(ImmJ(w), 32768, 32) = w.rs1 /\ Slice(ImmJ(w), 4096, 8) = w.f3
  <1>1. PICK t \in 0 .. 1, mid \in 0 .. 63, hs \in 0 .. 15, ls \in 0 .. 1 :
          t = Top(w) /\ mid = Mid(w) /\ hs = Rs2High(w) /\ ls = Rs2Low(w)
    BY Pieces
  <1>2. PICK r1 \in 0 .. 31, f3 \in 0 .. 7 : r1 = w.rs1 /\ f3 = w.f3 BY FieldTypes
  <1>3. w.f7 = 64 * t + mid /\ w.rs2 = 2 * hs + ls BY <1>1, Pieces, SMT
  <1>4. PICK up \in 0 .. 255 : up = r1 * 8 + f3
    <2>1. r1 * 8 + f3 \in 0 .. 255 BY SMT
    <2> QED BY <2>1, SMT
  <1>5. PICK low \in 0 .. 4095 : low = ls * 2048 + (mid * 16 + hs) * 2
    <2>1. ls * 2048 + (mid * 16 + hs) * 2 \in 0 .. 4095 BY SMT
    <2> QED BY <2>1, SMT
  <1>6. PICK v \in Int : v = up * 4096 + low - t * (256 * 4096) BY SMT
  <1>7. ImmJ(w) = v
    <2>1. t * Mega = t * (256 * 4096) BY MegaFacts, SMT
    <2>2. ImmJ(w) = up * 4096 + ls * 2048 + (mid * 16 + hs) * 2 - t * Mega
      BY <1>1, <1>2, <1>4, ImmValues, SMT
    <2> QED BY <1>5, <1>6, <2>1, <2>2, SMT
  <1>8. Digits(v, Mega, 2, -t, t, up * 4096 + low)
    <2>1. Mega \in Nat /\ Mega = 256 * 4096 BY MegaFacts, SMT
    <2>2. PICK c \in Int : /\ c = up * 4096 + low
                           /\ 0 <= c /\ c < 256 * 4096
      BY SMT
    <2>3. c \in Nat /\ c < Mega BY <2>1, <2>2, SMT
    <2>4. CASE t = 0
      <3>1. v = Mega * (2 * (-t) + t) + c BY <1>6, <2>1, <2>2, <2>4, SMT
      <3> QED BY <2>1, <2>2, <2>3, <3>1, SMT DEF Digits
    <2>5. CASE t = 1
      <3>1. v = Mega * (2 * (-t) + t) + c BY <1>6, <2>1, <2>2, <2>5, SMT
      <3> QED BY <2>1, <2>2, <2>3, <3>1, SMT DEF Digits
    <2> QED BY <2>4, <2>5
  <1>9. Digits(v, 32, 64, up * 2 + ls + t * (-512), mid, hs * 2)
    BY <1>5, <1>6, SMT DEF Digits
  <1>10. Digits(v, 2, 16, up * 128 + ls * 64 + mid + t * (-32768), hs, 0)
    BY <1>5, <1>6, SMT DEF Digits
  <1>11. Digits(v, 2048, 2, up + t * (-256), ls, mid * 32 + hs * 2)
    BY <1>5, <1>6, SMT DEF Digits
  <1>12. Digits(v, 32768, 32, -t, r1, f3 * 4096 + low) BY <1>4, <1>6, SMT DEF Digits
  <1>13. Digits(v, 4096, 8, r1 + t * (-32), f3, low) BY <1>4, <1>6, SMT DEF Digits
  <1>14. Slice(v, Mega, 2) = t BY <1>8, SliceOf
  <1>15. Slice(v, 32, 64) = mid /\ Slice(v, 2, 16) = hs BY <1>9, <1>10, SliceOf, SMT
  <1>16. Slice(v, 2048, 2) = ls BY <1>11, SliceOf, SMT
  <1>17. Slice(v, 32768, 32) = r1 BY <1>12, SliceOf, SMT
  <1>18. Slice(v, 4096, 8) = f3 BY <1>13, SliceOf, SMT
  <1>19. Slice(v, Mega, 2) = Slice(v, 1048576, 2) BY MegaFacts, SMT
  <1> QED BY <1>2, <1>3, <1>7, <1>14, <1>15, <1>16, <1>17, <1>18, <1>19, SMT

(* An operation determines the funct3 and funct7 that selected it.         *)
LEMMA BranchBits ==
  ASSUME NEW f3 \in 0 .. 7, BranchOpOf(f3) # "None" PROVE F3Of(BranchOpOf(f3)) = f3
  BY SMT DEF BranchOpOf, F3Of

(* A load determines its funct3.                                          *)
LEMMA LoadBits ==
  ASSUME NEW f3 \in 0 .. 7, LoadOpOf(f3) # "None" PROVE F3Of(LoadOpOf(f3)) = f3
  BY SMT DEF LoadOpOf, F3Of

(* A store determines its funct3.                                         *)
LEMMA StoreBits ==
  ASSUME NEW f3 \in 0 .. 7, StoreOpOf(f3) # "None" PROVE F3Of(StoreOpOf(f3)) = f3
  BY SMT DEF StoreOpOf, F3Of

(* An operation of the M extension determines its funct3.                 *)
LEMMA MulBits == ASSUME NEW f3 \in 0 .. 7 PROVE F3Of(MulOpOf(f3)) = f3
  BY SMT DEF MulOpOf, F3Of

(* A register operation determines its funct3 and funct7.                 *)
LEMMA RegBits ==
  ASSUME NEW f3 \in 0 .. 7, NEW f7 \in 0 .. 127, RegOpOf(f3, f7) # "None"
  PROVE  F3Of(RegOpOf(f3, f7)) = f3 /\ F7Of(RegOpOf(f3, f7)) = f7
  BY SMT DEF RegOpOf, F3Of, F7Of

(* An immediate operation determines its funct3, a shift its funct7 too.  *)
LEMMA ImmBits ==
  ASSUME NEW f3 \in 0 .. 7, NEW f7 \in 0 .. 127, ImmOpOf(f3, f7) # "None"
  PROVE  /\ F3Of(ImmOpOf(f3, f7)) = f3
         /\ ImmOpOf(f3, f7) \in {"Sll", "Srl", "Sra"} => F7Of(ImmOpOf(f3, f7)) = f7
         /\ ImmOpOf(f3, f7) \notin {"Sll", "Srl", "Sra"} => F7Of(ImmOpOf(f3, f7)) = 0
  BY SMT DEF ImmOpOf, F3Of, F7Of

(***************************************************************************)
(* What decode answers, opcode by opcode.                                  *)
(***************************************************************************)
LEMMA OpcodeValues ==
  /\ OpLui = 55 /\ OpAuipc = 23 /\ OpJal = 111 /\ OpJalr = 103 /\ OpBranch = 99
  /\ OpLoad = 3 /\ OpStore = 35 /\ OpImmed = 19 /\ OpReg = 51 /\ OpFence = 15
  /\ OpSystem = 115
  BY DEF OpLui, OpAuipc, OpJal, OpJalr, OpBranch, OpLoad, OpStore, OpImmed, OpReg, OpFence,
         OpSystem

(* A system word has the system opcode, and is one of the two at most.     *)
LEMMA SystemOpcode ==
  ASSUME NEW w \in Fields
  PROVE  /\ w.op # OpSystem => ~IsSystem(w, 0) /\ ~IsSystem(w, 1)
         /\ ~(IsSystem(w, 0) /\ IsSystem(w, 1))
  BY SMT DEF IsSystem

(* What decode answers for lui and auipc.                                 *)
LEMMA DecodeUpper ==
  ASSUME NEW w \in Fields
  PROVE  /\ w.op = OpLui => Decode(w) = [kind |-> "Lui", rd |-> w.rd, imm |-> ImmU(w)]
         /\ w.op = OpAuipc => Decode(w) = [kind |-> "Auipc", rd |-> w.rd, imm |-> ImmU(w)]
  <1>1. CASE w.op = OpLui BY <1>1, SystemOpcode, OpcodeValues, SMT DEF Decode
  <1>2. CASE w.op = OpAuipc BY <1>2, SystemOpcode, OpcodeValues, SMT DEF Decode
  <1> QED BY <1>1, <1>2, OpcodeValues, SMT

(* What decode answers for jal.                                           *)
LEMMA DecodeJal ==
  ASSUME NEW w \in Fields, w.op = OpJal
  PROVE  Decode(w) = [kind |-> "Jal", rd |-> w.rd, imm |-> ImmJ(w)]
  BY SystemOpcode, OpcodeValues, SMT DEF Decode

(* What decode answers for jalr: nothing unless funct3 is zero.           *)
LEMMA DecodeJalr ==
  ASSUME NEW w \in Fields, w.op = OpJalr
  PROVE  Decode(w) = IF w.f3 = 0
                     THEN [kind |-> "Jalr", rd |-> w.rd, rs1 |-> w.rs1, imm |-> ImmI(w)]
                     ELSE Illegal
  BY SystemOpcode, OpcodeValues, SMT DEF Decode

(* What decode answers for the branch opcode.                             *)
LEMMA DecodeBranch ==
  ASSUME NEW w \in Fields, w.op = OpBranch
  PROVE  Decode(w) = IF BranchOpOf(w.f3) # "None"
                     THEN [kind |-> "Branch", op |-> BranchOpOf(w.f3), rs1 |-> w.rs1,
                           rs2 |-> w.rs2, imm |-> ImmB(w)]
                     ELSE Illegal
  BY SystemOpcode, OpcodeValues, SMT DEF Decode

(* What decode answers for the load opcode.                               *)
LEMMA DecodeLoad ==
  ASSUME NEW w \in Fields, w.op = OpLoad
  PROVE  Decode(w) = IF LoadOpOf(w.f3) # "None"
                     THEN [kind |-> "Load", op |-> LoadOpOf(w.f3), rd |-> w.rd,
                           rs1 |-> w.rs1, imm |-> ImmI(w)]
                     ELSE Illegal
  BY SystemOpcode, OpcodeValues, SMT DEF Decode

(* What decode answers for the store opcode.                              *)
LEMMA DecodeStore ==
  ASSUME NEW w \in Fields, w.op = OpStore
  PROVE  Decode(w) = IF StoreOpOf(w.f3) # "None"
                     THEN [kind |-> "Store", op |-> StoreOpOf(w.f3), rs1 |-> w.rs1,
                           rs2 |-> w.rs2, imm |-> ImmS(w)]
                     ELSE Illegal
  BY SystemOpcode, OpcodeValues, SMT DEF Decode

(* What decode answers for the immediate opcode.                          *)
LEMMA DecodeOpImm ==
  ASSUME NEW w \in Fields, w.op = OpImmed
  PROVE  Decode(w) = IF ImmOpOf(w.f3, w.f7) # "None"
                     THEN [kind |-> "OpImm", op |-> ImmOpOf(w.f3, w.f7), rd |-> w.rd,
                           rs1 |-> w.rs1, imm |-> ImmOf(ImmOpOf(w.f3, w.f7), w)]
                     ELSE Illegal
  BY SystemOpcode, OpcodeValues, SMT DEF Decode

(* What decode answers for the register opcode when funct7 is 1.          *)
LEMMA DecodeMul ==
  ASSUME NEW w \in Fields, w.op = OpReg, w.f7 = 1
  PROVE  Decode(w) = [kind |-> "Mul", op |-> MulOpOf(w.f3), rd |-> w.rd, rs1 |-> w.rs1,
                      rs2 |-> w.rs2]
  <1>1. RegOpOf(w.f3, w.f7) = "None" BY SMT DEF RegOpOf
  <1> QED BY <1>1, SystemOpcode, OpcodeValues, SMT DEF Decode

(* What decode answers for the register opcode otherwise.                 *)
LEMMA DecodeOp ==
  ASSUME NEW w \in Fields, w.op = OpReg, w.f7 # 1
  PROVE  Decode(w) = IF RegOpOf(w.f3, w.f7) # "None"
                     THEN [kind |-> "Op", op |-> RegOpOf(w.f3, w.f7), rd |-> w.rd,
                           rs1 |-> w.rs1, rs2 |-> w.rs2]
                     ELSE Illegal
  BY SystemOpcode, OpcodeValues, SMT DEF Decode

(* The opcodes above; the others are fence, system or nothing.             *)
Grouped == {OpLui, OpAuipc, OpJal, OpJalr, OpBranch, OpLoad, OpStore, OpImmed, OpReg}

(* What decode answers for every other opcode.                            *)
LEMMA DecodeRest ==
  ASSUME NEW w \in Fields, w.op \notin Grouped
  PROVE  Decode(w) = IF w.op = OpFence /\ w.f3 = 0 THEN [kind |-> "Fence"]
                     ELSE IF IsSystem(w, 0) THEN [kind |-> "Ecall"]
                     ELSE IF IsSystem(w, 1) THEN [kind |-> "Ebreak"]
                     ELSE Illegal
  BY SystemOpcode, OpcodeValues, SMT DEF Decode, Grouped

(* Decoding loses nothing, on all of the 2^32 words (decode.rs 181-336):   *)
(* a word that decodes is the encoding of what it decodes to.              *)
THEOREM DecodeLossless == \A w \in Fields : LosslessAt(w)
  <1> TAKE w \in Fields
  <1> DEFINE i == Decode(w)
  <1> SUFFICES ASSUME i # Illegal, i.kind # "Fence" PROVE Encode(i) = w
    BY DecodeType, SMT DEF LosslessAt
  <1>1. w.f3 \in 0 .. 7 /\ w.f7 \in 0 .. 127 /\ w.rs2 \in 0 .. 31
        /\ w = RType(w.f7, w.rs2, w.rs1, w.f3, w.rd, w.op)
    BY FieldTypes
  <1>2. CASE w.op = OpLui
    <2>1. i = [kind |-> "Lui", rd |-> w.rd, imm |-> ImmU(w)] BY <1>2, DecodeUpper
    <2>2. Encode(i) = UType(ImmU(w), w.rd, OpLui) BY <2>1, SMT DEF Encode
    <2> QED BY <1>1, <1>2, <2>2, BitsU, SMT DEF UType
  <1>3. CASE w.op = OpAuipc
    <2>1. i = [kind |-> "Auipc", rd |-> w.rd, imm |-> ImmU(w)] BY <1>3, DecodeUpper
    <2>2. Encode(i) = UType(ImmU(w), w.rd, OpAuipc) BY <2>1, SMT DEF Encode
    <2> QED BY <1>1, <1>3, <2>2, BitsU, SMT DEF UType
  <1>4. CASE w.op = OpJal
    <2>1. i = [kind |-> "Jal", rd |-> w.rd, imm |-> ImmJ(w)] BY <1>4, DecodeJal
    <2>2. Encode(i) = JType(ImmJ(w), w.rd, OpJal) BY <2>1, SMT DEF Encode
    <2> QED BY <1>1, <1>4, <2>2, BitsJ, SMT DEF JType
  <1>5. CASE w.op = OpJalr
    <2>1. w.f3 = 0 /\ i = [kind |-> "Jalr", rd |-> w.rd, rs1 |-> w.rs1, imm |-> ImmI(w)]
      BY <1>5, DecodeJalr
    <2>2. Encode(i) = IType(ImmI(w), w.rs1, 0, w.rd, OpJalr) BY <2>1, SMT DEF Encode
    <2> QED BY <1>1, <1>5, <2>1, <2>2, BitsI, SMT DEF IType
  <1>6. CASE w.op = OpBranch
    <2>1. BranchOpOf(w.f3) # "None"
          /\ i = [kind |-> "Branch", op |-> BranchOpOf(w.f3), rs1 |-> w.rs1, rs2 |-> w.rs2,
                  imm |-> ImmB(w)]
      BY <1>6, DecodeBranch
    <2>2. Encode(i) = BType(ImmB(w), w.rs2, w.rs1, F3Of(BranchOpOf(w.f3)), OpBranch)
      BY <2>1, SMT DEF Encode
    <2>3. F3Of(BranchOpOf(w.f3)) = w.f3 BY <1>1, <2>1, BranchBits, SMT
    <2> QED BY <1>1, <1>6, <2>2, <2>3, BitsB, SMT DEF BType
  <1>7. CASE w.op = OpLoad
    <2>1. LoadOpOf(w.f3) # "None"
          /\ i = [kind |-> "Load", op |-> LoadOpOf(w.f3), rd |-> w.rd, rs1 |-> w.rs1,
                  imm |-> ImmI(w)]
      BY <1>7, DecodeLoad
    <2>2. Encode(i) = IType(ImmI(w), w.rs1, F3Of(LoadOpOf(w.f3)), w.rd, OpLoad)
      BY <2>1, SMT DEF Encode
    <2>3. F3Of(LoadOpOf(w.f3)) = w.f3 BY <1>1, <2>1, LoadBits, SMT
    <2> QED BY <1>1, <1>7, <2>2, <2>3, BitsI, SMT DEF IType
  <1>8. CASE w.op = OpStore
    <2>1. StoreOpOf(w.f3) # "None"
          /\ i = [kind |-> "Store", op |-> StoreOpOf(w.f3), rs1 |-> w.rs1, rs2 |-> w.rs2,
                  imm |-> ImmS(w)]
      BY <1>8, DecodeStore
    <2>2. Encode(i) = SType(ImmS(w), w.rs2, w.rs1, F3Of(StoreOpOf(w.f3)), OpStore)
      BY <2>1, SMT DEF Encode
    <2>3. F3Of(StoreOpOf(w.f3)) = w.f3 BY <1>1, <2>1, StoreBits, SMT
    <2> QED BY <1>1, <1>8, <2>2, <2>3, BitsS, SMT DEF SType
  <1>9. CASE w.op = OpImmed
    <2> DEFINE m == ImmOpOf(w.f3, w.f7)
    <2>1. m # "None"
          /\ i = [kind |-> "OpImm", op |-> m, rd |-> w.rd, rs1 |-> w.rs1, imm |-> ImmOf(m, w)]
      BY <1>9, DecodeOpImm
    <2>2. F3Of(m) = w.f3 BY <1>1, <2>1, ImmBits, Zenon
    <2>3. Encode(i) = IType(ImmOf(m, w) + 32 * F7Of(m), w.rs1, w.f3, w.rd, OpImmed)
      <3> HIDE DEF m, i
      <3> QED BY <2>1, <2>2, SMT DEF Encode
    <2>4. PICK v \in Int : /\ v = ImmOf(m, w) + 32 * F7Of(m)
                           /\ Slice(v, 32, 128) = w.f7 /\ v % 32 = w.rs2
      <3>1. CASE m \in {"Sll", "Srl", "Sra"}
        <4>1. F7Of(m) = w.f7 BY <1>1, <2>1, <3>1, ImmBits, Zenon
        <4>2. PICK f \in 0 .. 127, r \in 0 .. 31 : f = w.f7 /\ r = w.rs2 BY <1>1
        <4>3. ImmOf(m, w) + 32 * F7Of(m) = r + 32 * f BY <3>1, <4>1, <4>2 DEF ImmOf
        <4>4. PICK v \in Int : v = r + 32 * f
          <5>1. r + 32 * f \in Int BY SMT
          <5> QED BY <5>1, SMT
        <4>5. v = 32 * f + r /\ 32 \in Nat \ {0} /\ r \in 0 .. 32 - 1 BY <4>4, SMT
        <4>6. Digits(v, 32, 128, 0, f, r) BY <4>5, SMT DEF Digits
        <4>7. Slice(v, 32, 128) = f /\ v % 32 = r BY <4>5, <4>6, SliceOf, LowOf, SMT
        <4> QED BY <4>2, <4>3, <4>4, <4>7
      <3>2. CASE m \notin {"Sll", "Srl", "Sra"}
        <4>1. F7Of(m) = 0 BY <1>1, <2>1, <3>2, ImmBits, Zenon
        <4>2. ImmI(w) \in Int BY ImmediateType
        <4>3. ImmOf(m, w) + 32 * F7Of(m) = ImmI(w) BY <3>2, <4>1, <4>2, SMT DEF ImmOf
        <4> QED BY <4>2, <4>3, BitsI
      <3> QED BY <3>1, <3>2
    <2> QED BY <1>1, <1>9, <2>3, <2>4, SMT DEF IType
  <1>10. CASE w.op = OpReg /\ w.f7 = 1
    <2>1. i = [kind |-> "Mul", op |-> MulOpOf(w.f3), rd |-> w.rd, rs1 |-> w.rs1,
               rs2 |-> w.rs2]
      BY <1>10, DecodeMul
    <2>2. Encode(i) = RType(1, w.rs2, w.rs1, F3Of(MulOpOf(w.f3)), w.rd, OpReg)
      BY <2>1, SMT DEF Encode
    <2>3. F3Of(MulOpOf(w.f3)) = w.f3 BY <1>1, MulBits, SMT
    <2> QED BY <1>1, <1>10, <2>2, <2>3
  <1>11. CASE w.op = OpReg /\ w.f7 # 1
    <2> DEFINE r == RegOpOf(w.f3, w.f7)
    <2>1. r # "None"
          /\ i = [kind |-> "Op", op |-> r, rd |-> w.rd, rs1 |-> w.rs1, rs2 |-> w.rs2]
      BY <1>11, DecodeOp
    <2>2. F3Of(r) = w.f3 /\ F7Of(r) = w.f7 BY <1>1, <2>1, RegBits, Zenon
    <2>3. Encode(i) = RType(F7Of(r), w.rs2, w.rs1, F3Of(r), w.rd, OpReg)
      <3> HIDE DEF r, i
      <3> QED BY <2>1, SMT DEF Encode
    <2> QED BY <1>1, <1>11, <2>2, <2>3
  <1>12. CASE w.op \notin Grouped
    <2>1. \/ i = [kind |-> "Ecall"] /\ IsSystem(w, 0)
          \/ i = [kind |-> "Ebreak"] /\ IsSystem(w, 1)
      BY <1>12, DecodeRest
    <2>2. CASE i = [kind |-> "Ecall"] /\ IsSystem(w, 0)
      <3>1. Encode(i) = RType(0, 0, 0, 0, 0, OpSystem) BY <2>2, SMT DEF Encode
      <3> QED BY <2>2, <3>1 DEF IsSystem, RType
    <2>3. CASE i = [kind |-> "Ebreak"] /\ IsSystem(w, 1)
      <3>1. Encode(i) = RType(0, 1, 0, 0, 0, OpSystem) BY <2>3, SMT DEF Encode
      <3> QED BY <2>3, <3>1 DEF IsSystem, RType
    <2> QED BY <2>1, <2>2, <2>3
  <1> QED BY <1>2, <1>3, <1>4, <1>5, <1>6, <1>7, <1>8, <1>9, <1>10, <1>11, <1>12 DEF Grouped

(* The two decoders accept the same words and read the same immediates, on *)
(* all of the 2^32 words (decode.rs 151-336, hartbeat-ref lib.rs 130-304). *)
THEOREM DecodersAlwaysAgree == \A w \in Fields : DecodersAgreeAt(w)
  <1> TAKE w \in Fields
  <1>1. w.f3 \in 0 .. 7 /\ w.f7 \in 0 .. 127 BY FieldTypes
  <1>2. IsSystem(w, 0) = SystemWord(w, 0) /\ IsSystem(w, 1) = SystemWord(w, 1)
    BY DEF IsSystem, SystemWord, RType
  <1>3. /\ IsSystem(w, 0) => w.op = OpSystem
        /\ IsSystem(w, 1) => w.op = OpSystem
    BY SMT DEF IsSystem
  <1>4. (Decode(w) = Illegal) = ~RefLegal(w)
    <2>1. CASE w.op \in {OpLui, OpAuipc} BY <2>1, DecodeUpper, SMT DEF RefLegal, Illegal
    <2>2. CASE w.op = OpJal BY <2>2, DecodeJal, SMT DEF RefLegal, Illegal
    <2>3. CASE w.op = OpJalr
      BY <1>2, <1>3, <2>3, DecodeJalr, OpcodeValues, SMT DEF RefLegal, Illegal
    <2>4. CASE w.op = OpBranch
      <3>1. BranchOpOf(w.f3) # "None" <=> LegalBranch(w.f3) BY <1>1, SameOps
      <3> QED BY <1>2, <1>3, <2>4, <3>1, DecodeBranch, OpcodeValues, SMT DEF RefLegal, Illegal
    <2>5. CASE w.op = OpLoad
      <3>1. LoadOpOf(w.f3) # "None" <=> LegalLoad(w.f3) BY <1>1, SameOps
      <3> QED BY <1>2, <1>3, <2>5, <3>1, DecodeLoad, OpcodeValues, SMT DEF RefLegal, Illegal
    <2>6. CASE w.op = OpStore
      <3>1. StoreOpOf(w.f3) # "None" <=> LegalStore(w.f3) BY <1>1, SameOps
      <3> QED BY <1>2, <1>3, <2>6, <3>1, DecodeStore, OpcodeValues, SMT DEF RefLegal, Illegal
    <2>7. CASE w.op = OpImmed
      <3>1. ImmOpOf(w.f3, w.f7) # "None" <=> LegalImm(w.f3, w.f7) BY <1>1, SameOps
      <3> QED BY <1>2, <1>3, <2>7, <3>1, DecodeOpImm, OpcodeValues, SMT DEF RefLegal, Illegal
    <2>8. CASE w.op = OpReg
      <3>1. w.f7 = 1 \/ RegOpOf(w.f3, w.f7) # "None" <=> LegalReg(w.f3, w.f7)
        BY <1>1, SameOps
      <3> QED BY <1>2, <1>3, <2>8, <3>1, DecodeMul, DecodeOp, OpcodeValues, SMT
              DEF RefLegal, Illegal
    <2>9. CASE w.op \notin Grouped
      BY <1>2, <2>9, DecodeRest, OpcodeValues, SMT DEF RefLegal, Illegal, Grouped
    <2> QED BY <2>1, <2>2, <2>3, <2>4, <2>5, <2>6, <2>7, <2>8, <2>9 DEF Grouped
  <1>5. /\ Decode(w).kind \in {"Lui", "Auipc"} => Decode(w).imm = RefImmU(w)
        /\ Decode(w).kind = "Jal" => Decode(w).imm = RefImmJ(w)
        /\ Decode(w).kind = "Branch" => Decode(w).imm = RefImmB(w)
        /\ Decode(w).kind = "Store" => Decode(w).imm = RefImmS(w)
        /\ Decode(w).kind \in {"Jalr", "Load"} => Decode(w).imm = RefImmI(w)
        /\ Decode(w).kind = "OpImm" =>
             Decode(w).imm = IF Decode(w).op \in {"Sll", "Srl", "Sra"} THEN w.rs2
                             ELSE RefImmI(w)
    <2>1. CASE w.op \in {OpLui, OpAuipc} BY <2>1, SameImmediates, DecodeUpper, SMT
    <2>2. CASE w.op = OpJal BY <2>2, SameImmediates, DecodeJal, SMT
    <2>3. CASE w.op = OpJalr BY <2>3, SameImmediates, DecodeJalr, SMT DEF Illegal
    <2>4. CASE w.op = OpBranch BY <2>4, SameImmediates, DecodeBranch, SMT DEF Illegal
    <2>5. CASE w.op = OpLoad BY <2>5, SameImmediates, DecodeLoad, SMT DEF Illegal
    <2>6. CASE w.op = OpStore BY <2>6, SameImmediates, DecodeStore, SMT DEF Illegal
    <2>7. CASE w.op = OpImmed BY <2>7, SameImmediates, DecodeOpImm, SMT DEF Illegal, ImmOf
    <2>8. CASE w.op = OpReg BY <2>8, DecodeMul, DecodeOp, SMT DEF Illegal
    <2>9. CASE w.op \notin Grouped BY <2>9, DecodeRest, SMT DEF Illegal
    <2> QED BY <2>1, <2>2, <2>3, <2>4, <2>5, <2>6, <2>7, <2>8, <2>9 DEF Grouped
  <1> QED BY <1>4, <1>5, SMT DEF DecodersAgreeAt

(***************************************************************************)
(* The arithmetic of the two interpreters.                                 *)
(***************************************************************************)
(* Reduction to a word does not see whole multiples of the modulus.        *)
LEMMA WrapShift == ASSUME NEW n \in Int, NEW k \in Int PROVE Wrap(n + WordMod * k) = Wrap(n)
  <1>1. /\ n \div WordMod \in Int /\ n % WordMod \in 0 .. WordMod - 1
        /\ n = WordMod * (n \div WordMod) + (n % WordMod)
    BY WordModType, DivMod
  <1>2. PICK q \in Int, r \in 0 .. WordMod - 1 : q = n \div WordMod /\ r = n % WordMod BY <1>1
  <1>3. WordMod * (q + k) = WordMod * q + WordMod * k BY WordModType
  <1>4. PICK s \in Int, t \in Int, u \in Int :
          s = WordMod * q /\ t = WordMod * k /\ u = WordMod * (q + k)
    BY WordModType
  <1>5. n = s + r /\ u = s + t BY <1>1, <1>2, <1>3, <1>4
  <1>6. n + t = u + r /\ n + t \in Int /\ r \in Int BY <1>4, <1>5
  <1>7. q + k \in Int /\ n + t = WordMod * (q + k) + r BY <1>4, <1>6
  <1>8. (n + t) % WordMod = r BY <1>6, <1>7, WordModType, DivModUnique
  <1> QED BY <1>2, <1>4, <1>8 DEF Wrap

(* A word and its signed reading differ by a multiple of the modulus.      *)
LEMMA SignedShift ==
  ASSUME NEW a \in Word PROVE \E k \in {0, -1} : Signed(a) = a + WordMod * k
  <1>1. a \in Int /\ WordMod \in Int BY WordInt, WordModType
  <1>2. WordMod * 0 = 0 /\ WordMod * (-1) = -WordMod BY <1>1
  <1> QED BY <1>1, <1>2 DEF Signed, SignExtend

(* So adding to either gives the same word: the reference adds to the      *)
(* signed reading, the primary to the word.                                *)
LEMMA WrapSignedSum ==
  ASSUME NEW a \in Word, NEW n \in Int PROVE Wrap(Signed(a) + n) = Wrap(a + n)
  <1>1. PICK k \in {0, -1} : Signed(a) = a + WordMod * k BY SignedShift
  <1>2. PICK t \in Int : t = WordMod * k BY WordModType
  <1>3. Signed(a) + n = (a + n) + t /\ a + n \in Int BY <1>1, <1>2, WordInt
  <1>4. k \in Int OBVIOUS
  <1>5. Wrap((a + n) + WordMod * k) = Wrap(a + n) BY <1>3, <1>4, WrapShift
  <1> QED BY <1>2, <1>3, <1>5

(* The low word of a product does not depend on the operands' signs.       *)
LEMMA WrapSignedProduct ==
  ASSUME NEW a \in Word, NEW b \in Word PROVE Wrap(Signed(a) * Signed(b)) = Wrap(a * b)
  <1>1. PICK k \in {0, -1} : Signed(a) = a + WordMod * k BY SignedShift
  <1>2. PICK l \in {0, -1} : Signed(b) = b + WordMod * l BY SignedShift
  <1>3. /\ a \in Int /\ b \in Int /\ WordMod \in Int /\ k \in Int /\ l \in Int
    BY WordInt, WordModType
  <1>4. PICK m \in Int : m = a * l + k * b + WordMod * (k * l) BY <1>3
  <1>5. Signed(a) * Signed(b) = a * b + WordMod * m
    <2>1. (a + WordMod * k) * (b + WordMod * l)
            = a * b + WordMod * (a * l + k * b + WordMod * (k * l))
      <3>1. CASE k = 0 BY <1>3, <3>1
      <3>2. CASE k = -1 BY <1>3, <3>2
      <3> QED BY <3>1, <3>2
    <2> QED BY <1>1, <1>2, <1>4, <2>1
  <1>6. PICK p \in Int : p = a * b BY <1>3
  <1>7. Wrap(p + WordMod * m) = Wrap(p) BY WrapShift
  <1> QED BY <1>5, <1>6, <1>7

(* The multiplication and division table (exec.rs 36-81 and hartbeat-ref   *)
(* lib.rs 309-353).                                                        *)
LEMMA SameMulDiv ==
  ASSUME NEW a \in Word, NEW b \in Word, NEW f3 \in 0 .. 7
  PROVE  MulDiv(MulOpOf(f3), a, b) = MulDivTable(f3, a, b)
  <1>0. NegOne # 0 BY WordModType DEF NegOne
  <1>1. CASE f3 = 0
    <2>1. MulDivTable(f3, a, b) = Wrap(Signed(a) * Signed(b)) BY <1>1 DEF MulDivTable, Wrap
    <2>2. MulDiv(MulOpOf(f3), a, b) = Wrap(a * b) BY <1>1 DEF MulDiv, MulOpOf
    <2> QED BY <2>1, <2>2, WrapSignedProduct
  <1>2. CASE f3 \in {1, 2, 3} BY <1>2 DEF MulDivTable, MulDiv, MulOpOf, High, Wrap
  <1>3. CASE f3 \in {5, 7} BY <1>3 DEF MulDivTable, MulDiv, MulOpOf, NegOne
  <1>4. CASE f3 = 4
    <2>1. MulDiv(MulOpOf(f3), a, b) = SignedDiv(a, b) BY <1>4 DEF MulDiv, MulOpOf
    <2>2. CASE b = 0
      <3>1. MulDivTable(f3, a, b) = WordMod - 1
        BY <1>4, <2>2, 4 # 0, 4 # 1, 4 # 2, 4 # 3, 4 \in {4, 5}, 4 \notin {6, 7}, Zenon
        DEF MulDivTable
      <3>2. SignedDiv(a, b) = NegOne BY <1>0, <2>2, Zenon DEF SignedDiv
      <3> QED BY <2>1, <3>1, <3>2 DEF NegOne
    <2>3. CASE b # 0 /\ a = MIN /\ b = NegOne
      BY <1>4, <2>1, <2>3 DEF SignedDiv, MulDivTable, NegOne, MIN
    <2>4. CASE b # 0 /\ ~(a = MIN /\ b = NegOne)
      BY <1>4, <2>1, <2>4
      DEF SignedDiv, MulDivTable, NegOne, MIN, Quotient, Abs, Wrap
    <2> QED BY <2>2, <2>3, <2>4
  <1>5. CASE f3 = 6
    <2>1. MulDiv(MulOpOf(f3), a, b) = SignedRem(a, b) BY <1>5 DEF MulDiv, MulOpOf
    <2>2. CASE b = 0
      <3>1. MulDivTable(f3, a, b) = a
        BY <1>5, <2>2, 6 # 0, 6 # 1, 6 # 2, 6 # 3, 6 \in {6, 7}, 6 \notin {4, 5}, Zenon
        DEF MulDivTable
      <3>2. SignedRem(a, b) = a BY <1>0, <2>2, Zenon DEF SignedRem
      <3> QED BY <2>1, <3>1, <3>2
    <2>3. CASE b # 0 /\ a = MIN /\ b = NegOne
      BY <1>5, <2>1, <2>3 DEF SignedRem, MulDivTable, NegOne, MIN
    <2>4. CASE b # 0 /\ ~(a = MIN /\ b = NegOne)
      BY <1>5, <2>1, <2>4
      DEF SignedRem, MulDivTable, NegOne, MIN, Remainder, Abs, Wrap
    <2> QED BY <2>2, <2>3, <2>4
  <1> QED BY <1>1, <1>2, <1>3, <1>4, <1>5

(* The register table (exec.rs 14-30 and hartbeat-ref lib.rs 263-289).     *)
LEMMA SameReg ==
  ASSUME NEW a \in Word, NEW b \in Word, NEW f3 \in 0 .. 7, NEW f7 \in 0 .. 127,
         RegOpOf(f3, f7) # "None"
  PROVE  Alu(RegOpOf(f3, f7), a, b) = RegTable(f3, f7, a, b)
  <1>1. \/ f7 = 0 /\ f3 \in 0 .. 7
        \/ f7 = 32 /\ f3 \in {0, 5}
    BY DEF RegOpOf
  <1>2. CASE f7 = 32 /\ f3 = 0 BY <1>2 DEF RegOpOf, Alu, RegTable
  <1>3. CASE f7 = 32 /\ f3 = 5 BY <1>3 DEF RegOpOf, Alu, RegTable, Sar, ShiftAmount
  <1>4. CASE f7 = 0 /\ f3 \in {0, 2, 3, 4, 6, 7} BY <1>4 DEF RegOpOf, Alu, RegTable
  <1>5. CASE f7 = 0 /\ f3 \in {1, 5}
    BY <1>5 DEF RegOpOf, Alu, RegTable, Shl, Shr, ShiftAmount
  <1> QED BY <1>1, <1>2, <1>3, <1>4, <1>5

(* The immediate table: shifts by sh where the primary shifts by the low   *)
(* bits of its operand i (exec.rs 14-30, hartbeat-ref lib.rs 235-258).     *)
LEMMA SameImm ==
  ASSUME NEW a \in Word, NEW i \in Word, NEW f3 \in 0 .. 7, NEW f7 \in 0 .. 127,
         ImmOpOf(f3, f7) # "None", NEW sh,
         ImmOpOf(f3, f7) \in {"Sll", "Srl", "Sra"} => sh = ShiftAmount(i)
  PROVE  Alu(ImmOpOf(f3, f7), a, i) = ImmTable(f3, f7, a, i, sh)
  <1>1. \/ f3 \in {0, 2, 3, 4, 6, 7}
        \/ f3 \in {1, 5} /\ f7 = 0
        \/ f3 = 5 /\ f7 = 32
    BY DEF ImmOpOf
  <1>2. CASE f3 \in {0, 2, 3, 4, 6, 7} BY <1>2 DEF ImmOpOf, Alu, ImmTable
  <1>3. CASE f3 \in {1, 5} /\ f7 = 0 BY <1>3 DEF ImmOpOf, Alu, ImmTable, Shl, Shr
  <1>4. CASE f3 = 5 /\ f7 = 32 BY <1>4 DEF ImmOpOf, Alu, ImmTable, Sar
  <1> QED BY <1>1, <1>2, <1>3, <1>4

(* The branch table (exec.rs 84-93, hartbeat-ref lib.rs 183-191).          *)
LEMMA SameBranch ==
  ASSUME NEW a \in Word, NEW b \in Word, NEW f3 \in 0 .. 7, BranchOpOf(f3) # "None"
  PROVE  BranchTaken(BranchOpOf(f3), a, b) <=> Take(f3, a, b)
  <1>1. a \in Int /\ b \in Int /\ Signed(a) \in Int /\ Signed(b) \in Int BY WordInt
  <1>2. f3 \in {0, 1, 4, 5, 6, 7} BY DEF BranchOpOf
  <1>3. CASE f3 = 0 BY <1>3 DEF BranchOpOf, BranchTaken, Take
  <1>4. CASE f3 = 1 BY <1>4 DEF BranchOpOf, BranchTaken, Take
  <1>5. CASE f3 = 4 BY <1>5 DEF BranchOpOf, BranchTaken, Take
  <1>6. CASE f3 = 5 BY <1>1, <1>6 DEF BranchOpOf, BranchTaken, Take
  <1>7. CASE f3 = 6 BY <1>7 DEF BranchOpOf, BranchTaken, Take
  <1>8. CASE f3 = 7 BY <1>1, <1>8 DEF BranchOpOf, BranchTaken, Take
  <1> QED BY <1>2, <1>3, <1>4, <1>5, <1>6, <1>7, <1>8

(* The powers of two grow along the table. *)
LEMMA PowersGrow ==
  ASSUME NEW t \in 0 .. XLen - 1, NEW s \in 0 .. XLen - 1, t <= s PROVE Pow2[t] <= Pow2[s]
  <1> DEFINE Smaller == {n \in Nat : n \in t .. XLen - 1 /\ Pow2[n] < Pow2[t]}
  <1>1. Smaller = {}
    <2>1. SUFFICES ASSUME Smaller # {} PROVE FALSE OBVIOUS
    <2>2. PICK n \in Smaller : \A m \in Smaller : n <= m
      <3> HIDE DEF Smaller
      <3>1. Smaller \subseteq Nat BY DEF Smaller
      <3> QED BY <2>1, <3>1, LeastElement
    <2>3. n # t /\ n - 1 \in t .. XLen - 1 /\ n - 1 \in 0 .. XLen - 2 /\ n - 1 \in Nat
      BY <2>2, XLenAssumption
    <2>4. Pow2[(n - 1) + 1] = 2 * Pow2[n - 1] BY <2>3, XLenAssumption
    <2>5. Pow2[n - 1] < Pow2[t]
      BY <2>2, <2>3, <2>4, (n - 1) + 1 = n, XLenAssumption
    <2>6. n - 1 \in Smaller BY <2>3, <2>5
    <2> QED BY <2>2, <2>6
  <1>2. s \in Nat /\ s \in t .. XLen - 1 BY XLenAssumption
  <1>3. Pow2[s] \in Nat /\ Pow2[t] \in Nat BY XLenAssumption
  <1> QED BY <1>1, <1>2, <1>3

(* A shift amount carried as an immediate is not changed by wrapping, even *)
(* at the smallest byte base, where a word has fewer values than the       *)
(* five bits of the amount.                                                *)
LEMMA ShiftOfImmediate ==
  ASSUME NEW n \in Reg PROVE ShiftAmount(Wrap(n)) = n % XLen
  <1>1. CASE Base >= 4
    <2>1. HalfMod >= 16 /\ HalfMod \in Nat BY <1>1, BaseAssumption DEF HalfMod
    <2>2. HalfMod * HalfMod >= 256 BY <2>1
    <2>3. WordMod >= 256 /\ WordMod \in Nat BY <2>2, BaseAssumption DEF WordMod, HalfMod
    <2>4. n \in Word BY <2>3 DEF Reg, Word
    <2> QED BY <2>4, WrapWord DEF ShiftAmount
  <1>2. CASE Base = 2
    <2>1. WordMod = 16 /\ 16 = 2 * Pow2[XLen - 1] BY <1>2, XLenAssumption DEF WordMod
    <2>2. XLen - 1 \in 0 .. XLen - 1 /\ Pow2[XLen - 1] = 8 BY <2>1, XLenAssumption
    <2>3. XLen > 1 => Pow2[0 + 1] = 2 * Pow2[0] BY XLenAssumption
    <2>4. XLen > 2 => Pow2[1 + 1] = 2 * Pow2[1] BY XLenAssumption
    <2>5. XLen > 3 => Pow2[2 + 1] = 2 * Pow2[2] BY XLenAssumption
    <2>6. XLen > 4 => Pow2[3 + 1] = 2 * Pow2[3] BY XLenAssumption
    <2>7. XLen > 4 => Pow2[4] <= Pow2[XLen - 1]
      <3>1. XLen > 4 => 4 \in 0 .. XLen - 1 /\ 4 <= XLen - 1 BY XLenAssumption
      <3> QED BY <2>2, <3>1, PowersGrow
    <2>8. XLen = 4
      <3>1. XLen - 1 \in Nat BY XLenAssumption
      <3>2. CASE XLen - 1 = 0 BY <2>2, <3>2, XLenAssumption
      <3>3. CASE XLen - 1 = 1 BY <2>2, <2>3, <3>3, XLenAssumption
      <3>4. CASE XLen - 1 = 2 BY <2>2, <2>3, <2>4, <3>4, XLenAssumption
      <3>5. CASE XLen - 1 > 3
        <4>1. Pow2[4] = 16 BY <2>3, <2>4, <2>5, <2>6, <3>1, <3>5, XLenAssumption
        <4>2. XLen \in Nat /\ XLen > 4 BY <3>1, <3>5, XLenAssumption
        <4> QED BY <2>2, <2>7, <4>1, <4>2
      <3>6. XLen \in Nat BY XLenAssumption
      <3> QED BY <3>1, <3>2, <3>3, <3>4, <3>5, <3>6
    <2> QED BY <2>1, <2>8 DEF ShiftAmount, Wrap, Reg
  <1>3. Base # 3 /\ Base \in Nat /\ Base >= 2 BY BaseAssumption
  <1> QED BY <1>1, <1>2, <1>3
=============================================================================
