--------------------------- MODULE OperatorProofs ---------------------------
(***************************************************************************)
(* The results on Operators: the laws of the arithmetic and the decoders,  *)
(* for every pair of words and every word of code.                         *)
(***************************************************************************)
EXTENDS Operators, InstructionProofs

(* What the enumeration goes through. *)
Types == a \in Word /\ b \in Word /\ w \in Fields

(* The enumeration stays within the words and the fields.                 *)
LEMMA TypesHold == Spec => []Types
  <1>1. Init => Types
    <2>1. 0 \in Word BY WordModType DEF Word
    <2>2. RType(0, 0, 0, 0, 0, 0) \in Fields BY DEF RType, Fields, Reg
    <2> QED BY <2>1, <2>2, CodeWordsAssumption DEF Init, Types
  <1>2. Types /\ [Next]_vars => Types'
    <2>1. SUFFICES ASSUME Types, [Next]_vars PROVE Types' OBVIOUS
    <2>2. CASE NextOperand
      BY <2>1, <2>2, WordModType DEF NextOperand, Types, Word
    <2>3. CASE NextWord
      <3>1. w.f7 + 1 \in 0 .. 127 BY <2>1, <2>3 DEF NextWord, Types, Fields
      <3> QED BY <2>1, <2>3, <3>1 DEF NextWord, Types, Fields
    <2>4. CASE UNCHANGED vars BY <2>1, <2>4 DEF vars, Types
    <2> QED BY <2>1, <2>2, <2>3, <2>4 DEF Next
  <1> QED BY <1>1, <1>2, PTL DEF Spec

(***************************************************************************)
(* The decoders.                                                           *)
(***************************************************************************)
(* Every word that decodes is the encoding of what it decodes to           *)
(* (decode.rs 181-336).                                                    *)
THEOREM DecodingIsLossless == Spec => []Lossless
  <1>1. Types => Lossless BY DecodeLossless DEF Types, Lossless
  <1> QED BY <1>1, TypesHold, PTL

(* The two decoders agree on every word (decode.rs 151-336, hartbeat-ref   *)
(* lib.rs 130-148).                                                        *)
THEOREM DecodersNeverDisagree == Spec => []DecodersAgree
  <1>1. Types => DecodersAgree BY DecodersAlwaysAgree DEF Types, DecodersAgree
  <1> QED BY <1>1, TypesHold, PTL

(***************************************************************************)
(* The same arithmetic in both.                                            *)
(***************************************************************************)
(* Every operation of the two interpreters gives the same word (exec.rs    *)
(* 14-93, hartbeat-ref lib.rs 183-191, 235-258, 263-289, 309-353).         *)
THEOREM SameArithmetic == Spec => []ArithmeticAgrees
  <1>1. ASSUME Types PROVE ArithmeticAgrees
    <2>0. a \in Word /\ b \in Word BY <1>1 DEF Types
    <2>1. ASSUME NEW f3 \in 0 .. 7
          PROVE  Mdo(<<"Mul", "Mulh", "Mulhsu", "Mulhu", "Div", "Divu", "Rem", "Remu">>[f3 + 1])
                   = MulDivTable(f3, a, b)
      <3>1. <<"Mul", "Mulh", "Mulhsu", "Mulhu", "Div", "Divu", "Rem", "Remu">>[f3 + 1]
              = MulOpOf(f3)
        BY DEF MulOpOf
      <3> QED BY <2>0, <3>1, SameMulDiv DEF Mdo
    <2>2. ASSUME NEW f3 \in 0 .. 7
          PROVE  Do(<<"Add", "Sll", "Slt", "Sltu", "Xor", "Srl", "Or", "And">>[f3 + 1])
                   = RegTable(f3, 0, a, b)
      <3>1. /\ <<"Add", "Sll", "Slt", "Sltu", "Xor", "Srl", "Or", "And">>[f3 + 1]
                 = RegOpOf(f3, 0)
            /\ RegOpOf(f3, 0) # "None"
        BY DEF RegOpOf
      <3> QED BY <2>0, <3>1, SameReg DEF Do
    <2>3. Do("Sub") = RegTable(0, 32, a, b) /\ Do("Sra") = RegTable(5, 32, a, b)
      <3>1. RegOpOf(0, 32) = "Sub" /\ RegOpOf(5, 32) = "Sra" BY DEF RegOpOf
      <3> QED BY <2>0, <3>1, SameReg DEF Do
    <2>4. ASSUME NEW f3 \in {0, 2, 3, 4, 6, 7}
          PROVE  Do(<<"Add", "Add", "Slt", "Sltu", "Xor", "Xor", "Or", "And">>[f3 + 1])
                   = ImmTable(f3, 0, a, b, ShiftAmount(b))
      <3>1. /\ <<"Add", "Add", "Slt", "Sltu", "Xor", "Xor", "Or", "And">>[f3 + 1]
                 = ImmOpOf(f3, 0)
            /\ ImmOpOf(f3, 0) # "None" /\ f3 \in 0 .. 7
        BY DEF ImmOpOf
      <3> QED BY <2>0, <3>1, SameImm DEF Do
    <2>5. /\ Do("Sll") = ImmTable(1, 0, a, b, ShiftAmount(b))
          /\ Do("Srl") = ImmTable(5, 0, a, b, ShiftAmount(b))
          /\ Do("Sra") = ImmTable(5, 32, a, b, ShiftAmount(b))
      <3>1. ImmOpOf(1, 0) = "Sll" /\ ImmOpOf(5, 0) = "Srl" /\ ImmOpOf(5, 32) = "Sra"
        BY DEF ImmOpOf
      <3> QED BY <2>0, <3>1, SameImm DEF Do
    <2>6. ASSUME NEW f3 \in {0, 1, 4, 5, 6, 7}
          PROVE  BranchTaken(<<"Eq", "Ne", "", "", "Lt", "Ge", "Ltu", "Geu">>[f3 + 1], a, b)
                   = Take(f3, a, b)
      <3>1. a \in Int /\ b \in Int /\ Signed(a) \in Int /\ Signed(b) \in Int BY <2>0, WordInt
      <3>2. CASE f3 = 0 BY <3>2 DEF BranchTaken, Take
      <3>3. CASE f3 = 1 BY <3>3 DEF BranchTaken, Take
      <3>4. CASE f3 = 4 BY <3>4 DEF BranchTaken, Take
      <3>5. CASE f3 = 5 BY <3>1, <3>5 DEF BranchTaken, Take
      <3>6. CASE f3 = 6 BY <3>6 DEF BranchTaken, Take
      <3>7. CASE f3 = 7 BY <3>1, <3>7 DEF BranchTaken, Take
      <3> QED BY <2>6, <3>2, <3>3, <3>4, <3>5, <3>6, <3>7
    <2> QED BY <2>1, <2>2, <2>3, <2>4, <2>5, <2>6 DEF ArithmeticAgrees
  <1> QED BY <1>1, TypesHold, PTL

(***************************************************************************)
(* Congruence: numbers that wrap to the same word.                         *)
(***************************************************************************)
(* Equal words differ by a multiple of the modulus, and conversely.        *)
LEMMA Multiple ==
  ASSUME NEW x \in Int, NEW y \in Int
  PROVE  Wrap(x) = Wrap(y) <=> \E m \in Int : x = y + WordMod * m
  <1>1. ASSUME NEW m \in Int, x = y + WordMod * m PROVE Wrap(x) = Wrap(y)
    BY <1>1, WrapShift
  <1>2. ASSUME Wrap(x) = Wrap(y) PROVE \E m \in Int : x = y + WordMod * m
    <2>1. PICK p \in Int, q \in Int : p = x \div WordMod /\ q = y \div WordMod
      BY WordModType
    <2>2. PICK r \in Int : r = Wrap(x) BY WordModType DEF Wrap
    <2>3. x = WordMod * p + r /\ y = WordMod * q + r
      BY <1>2, <2>1, <2>2, WordModType, DivMod DEF Wrap
    <2>4. WordMod * (p - q) = WordMod * p - WordMod * q BY WordModType
    <2>5. PICK s \in Int, t \in Int : s = WordMod * p /\ t = WordMod * q BY WordModType
    <2>6. x = y + WordMod * (p - q)
      <3>1. x = s + r /\ y = t + r /\ WordMod * (p - q) = s - t BY <2>3, <2>4, <2>5
      <3>2. s + r = (t + r) + (s - t) OBVIOUS
      <3> QED BY <3>1, <3>2, Zenon
    <2>7. p - q \in Int OBVIOUS
    <2> QED BY <2>6, <2>7
  <1> QED BY <1>1, <1>2

(* Wrapping early or late makes no difference to sums and products.        *)
LEMMA WrapSum ==
  ASSUME NEW x \in Int, NEW y \in Int, NEW u \in Int, NEW v \in Int,
         Wrap(x) = Wrap(u), Wrap(y) = Wrap(v)
  PROVE  Wrap(x + y) = Wrap(u + v)
  <1>1. PICK m \in Int : x = u + WordMod * m BY Multiple
  <1>2. PICK l \in Int : y = v + WordMod * l BY Multiple
  <1>3. WordMod * (m + l) = WordMod * m + WordMod * l BY WordModType
  <1>4. PICK s \in Int, t \in Int : s = WordMod * m /\ t = WordMod * l BY WordModType
  <1>5. x + y = (u + v) + WordMod * (m + l) BY <1>1, <1>2, <1>3, <1>4
  <1>6. m + l \in Int /\ x + y \in Int /\ u + v \in Int OBVIOUS
  <1> QED BY <1>5, <1>6, Multiple

(* A wrapped product depends on the wrapped factors only.                  *)
LEMMA WrapProduct ==
  ASSUME NEW x \in Int, NEW y \in Int, NEW u \in Int, NEW v \in Int,
         Wrap(x) = Wrap(u), Wrap(y) = Wrap(v)
  PROVE  Wrap(x * y) = Wrap(u * v)
  <1>1. PICK m \in Int : x = u + WordMod * m BY Multiple
  <1>2. PICK l \in Int : y = v + WordMod * l BY Multiple
  <1>3. PICK s \in Int, t \in Int : s = WordMod * m /\ t = WordMod * l BY WordModType
  <1>4. x * y = u * v + u * t + s * v + s * t
    BY <1>1, <1>2, <1>3
  <1>5. PICK c \in Int : c = u * l + m * v + m * t BY <1>3
  <1>6. WordMod * c = u * t + s * v + s * t
    <2>1. WordMod * (u * l) = u * t BY <1>3, WordModType
    <2>2. WordMod * (m * v) = s * v BY <1>3, WordModType
    <2>3. WordMod * (m * t) = s * t BY <1>3, WordModType
    <2>4. PICK d \in Int : d = u * l OBVIOUS
    <2>5. PICK e \in Int : e = m * v OBVIOUS
    <2>6. PICK f \in Int : f = m * t BY <1>3
    <2>7. WordMod * (d + e + f) = WordMod * d + WordMod * e + WordMod * f BY WordModType
    <2> QED BY <1>5, <2>1, <2>2, <2>3, <2>4, <2>5, <2>6, <2>7
  <1>7. PICK p \in Int, q \in Int : p = x * y /\ q = u * v OBVIOUS
  <1>8. u * t \in Int /\ s * v \in Int /\ s * t \in Int BY <1>3
  <1>9. PICK f \in Int : f = u * t BY <1>8
  <1>10. PICK g \in Int : g = s * v BY <1>8
  <1>11. PICK h \in Int : h = s * t BY <1>8
  <1>12. p = q + WordMod * c BY <1>4, <1>6, <1>7, <1>9, <1>10, <1>11
  <1>13. Wrap(p) = Wrap(q) BY <1>12, Multiple
  <1> QED BY <1>7, <1>13

(* A word is its own wrapping, and wraps as its signed reading does.       *)
LEMMA WrapOfReadings ==
  ASSUME NEW x \in Int, NEW v \in Word
  PROVE  /\ Wrap(x) \in Word /\ Wrap(Wrap(x)) = Wrap(x)
         /\ Wrap(v) = v /\ Wrap(Signed(v)) = v /\ v \in Int /\ Signed(v) \in Int
  <1>1. Wrap(Signed(v) + 0) = Wrap(v + 0) BY WrapSignedSum
  <1>2. Signed(v) \in Int /\ v \in Int BY WordInt
  <1>3. Signed(v) + 0 = Signed(v) /\ v + 0 = v BY <1>2
  <1> QED BY <1>1, <1>2, <1>3, WrapType, WrapWord

(* The modulus is twice MIN. *)
LEMMA Halves == MIN \in Nat /\ WordMod = 2 * MIN /\ MIN >= 8
  <1>1. PICK m \in Nat : WordMod = 4 * m BY WordModMultiple
  <1>2. WordMod \div 2 = 2 * m BY <1>1
  <1> QED BY <1>1, <1>2, WordModType DEF MIN

(* A signed reading is less than MIN in size, or is the minimum itself.    *)
LEMMA SignedRange ==
  ASSUME NEW v \in Word
  PROVE  /\ Signed(v) \in Int /\ -MIN <= Signed(v) /\ Signed(v) < MIN
         /\ v < MIN => Signed(v) = v
         /\ v >= MIN => Signed(v) = v - WordMod
  BY Halves, WordInt DEF Signed, SignExtend, Word, MIN

(* What fits in a signed word comes back from it.                          *)
LEMMA SignedOfWrap ==
  ASSUME NEW x \in Int, -MIN <= x, x < MIN
  PROVE  Signed(Wrap(x)) = x
  <1>1. CASE x >= 0
    <2>1. x \in Word BY <1>1, Halves DEF Word
    <2>2. Wrap(x) = x BY <2>1, WrapWord
    <2> QED BY <2>1, <2>2, SignedRange
  <1>2. CASE x < 0
    <2>1. x + WordMod \in Word /\ x + WordMod >= MIN BY <1>2, Halves DEF Word
    <2>2. Wrap(x + WordMod) = x + WordMod BY <2>1, WrapWord
    <2>3. x + WordMod = x + WordMod * 1 BY WordModType
    <2>4. Wrap(x + WordMod) = Wrap(x) BY <2>3, WrapShift
    <2>5. Signed(x + WordMod) = (x + WordMod) - WordMod BY <2>1, SignedRange
    <2>6. (x + WordMod) - WordMod = x BY WordModType
    <2> QED BY <2>2, <2>4, <2>5, <2>6
  <1> QED BY <1>1, <1>2

(***************************************************************************)
(* Multiplication.                                                         *)
(***************************************************************************)
(* The high word of a product that fits in two words goes with the low     *)
(* word that mul computes.                                                 *)
LEMMA HighLow ==
  ASSUME NEW x \in Int, NEW p \in Int, -(MIN * WordMod) <= p, p < MIN * WordMod,
         Wrap(p) = Wrap(x)
  PROVE  Signed(High(p)) * WordMod + Wrap(x) = p
  <1>1. PICK q \in Int : q = p \div WordMod BY WordModType
  <1>2. PICK r \in Int : r = p % WordMod /\ 0 <= r /\ r < WordMod BY WordModType
  <1>3. p = WordMod * q + r BY <1>1, <1>2, WordModType, DivMod
  <1>4. MIN \in Nat /\ WordMod \in Nat /\ WordMod >= 16 BY Halves, WordModType
  <1>5. q < MIN
    <2>1. SUFFICES ASSUME q >= MIN PROVE FALSE BY <1>4
    <2>2. WordMod * q >= WordMod * MIN BY <1>4, <2>1
    <2>3. WordMod * MIN = MIN * WordMod BY <1>4
    <2> QED BY <1>2, <1>3, <1>4, <2>2, <2>3
  <1>6. -MIN <= q
    <2>1. SUFFICES ASSUME q <= -MIN - 1 PROVE FALSE BY <1>4
    <2>2. WordMod * q <= WordMod * (-MIN - 1) BY <1>4, <2>1
    <2>3. WordMod * (-MIN - 1) = -(MIN * WordMod) - WordMod BY <1>4
    <2>4. PICK m \in Int : m = MIN * WordMod BY <1>4
    <2>5. PICK l \in Int : l = WordMod * q BY <1>4
    <2> QED BY <1>2, <1>3, <1>4, <2>2, <2>3, <2>4, <2>5
  <1>7. Signed(High(p)) = q BY <1>1, <1>5, <1>6, SignedOfWrap DEF High
  <1>8. q * WordMod = WordMod * q BY <1>4
  <1> QED BY <1>2, <1>3, <1>7, <1>8 DEF Wrap

(* The products of two words, read signed or not, fit in two words.        *)
LEMMA ProductRange ==
  ASSUME NEW x \in Int, NEW y \in Int, -MIN <= x, x < MIN, -MIN <= y, y < WordMod
  PROVE  -(MIN * WordMod) <= x * y /\ (y >= 0 \/ y < MIN => x * y < MIN * WordMod)
  <1>1. MIN \in Nat /\ WordMod = 2 * MIN /\ MIN >= 8 BY Halves
  <1>2. PICK m \in Nat : m = MIN BY <1>1
  <1>3. MIN * WordMod = 2 * (m * m) BY <1>1, <1>2
  <1>4. -m <= x /\ x < m /\ -m <= y /\ y < 2 * m BY <1>1, <1>2
  <1>5. CASE x >= 0 /\ y >= 0
    <2>1. x * y >= 0 /\ x * y <= x * (2 * m) BY <1>4, <1>5
    <2>2. x * (2 * m) < m * (2 * m) BY <1>1, <1>2, <1>4
    <2>3. m * (2 * m) = 2 * (m * m) /\ m * m >= 0 BY <1>1, <1>2
    <2> QED BY <1>3, <2>1, <2>2, <2>3
  <1>6. CASE x >= 0 /\ y < 0
    <2>1. PICK z \in Nat : y = -z /\ z <= m BY <1>4, <1>6
    <2>2. x * z >= 0 /\ x * z <= m * m BY <1>4, <1>6, <2>1
    <2>3. x * y = -(x * z) BY <2>1
    <2>4. PICK p \in Nat, q \in Nat : p = x * z /\ q = m * m BY <1>6, <2>1
    <2>5. q > 0 BY <1>1, <1>2, <2>4
    <2> QED BY <1>3, <2>2, <2>3, <2>4, <2>5
  <1>7. CASE x < 0 /\ y >= 0
    <2>1. PICK z \in Nat : x = -z /\ z <= m BY <1>4, <1>7
    <2>2. z * y >= 0 /\ z * y <= m * (2 * m)
      <3>1. z * y <= m * y BY <1>7, <2>1
      <3>2. m * y <= m * (2 * m) BY <1>4, <1>7
      <3>3. z * y >= 0 BY <1>7, <2>1
      <3> QED BY <3>1, <3>2, <3>3
    <2>3. x * y = -(z * y) BY <2>1
    <2>4. m * (2 * m) = 2 * (m * m) OBVIOUS
    <2>5. PICK p \in Nat, q \in Nat : p = z * y /\ q = m * m BY <1>7, <2>1
    <2>6. q > 0 BY <1>1, <1>2, <2>5
    <2> QED BY <1>3, <2>2, <2>3, <2>4, <2>5, <2>6
  <1>8. CASE x < 0 /\ y < 0
    <2>1. PICK z \in Nat : x = -z /\ z <= m BY <1>4, <1>8
    <2>2. PICK u \in Nat : y = -u /\ u <= m BY <1>4, <1>8
    <2>3. x * y = z * u BY <2>1, <2>2
    <2>4. z * u <= m * m /\ z * u >= 0
      <3>1. z * u <= m * u /\ m * u <= m * m /\ z * u >= 0 BY <2>1, <2>2
      <3> QED BY <3>1
    <2>5. PICK p \in Nat, q \in Nat : p = z * u /\ q = m * m OBVIOUS
    <2>6. q > 0 BY <1>1, <1>2, <2>5
    <2> QED BY <1>3, <2>3, <2>4, <2>5, <2>6
  <1> QED BY <1>4, <1>5, <1>6, <1>7, <1>8

(* The high half of every product goes with the one low half, whatever the *)
(* signedness of the operands (exec.rs 45-48).                             *)
THEOREM HalvesFit == Spec => []ProductHalves
  <1>1. ASSUME Types PROVE ProductHalves
    <2>0. a \in Word /\ b \in Word BY <1>1 DEF Types
    <2>1. PICK x \in Int : x = Signed(a) /\ -MIN <= x /\ x < MIN /\ Wrap(x) = Wrap(a)
      BY <2>0, SignedRange, WrapOfReadings
    <2>2. PICK y \in Int : y = Signed(b) /\ -MIN <= y /\ y < MIN /\ Wrap(y) = Wrap(b)
      BY <2>0, SignedRange, WrapOfReadings
    <2>3. /\ a \in Int /\ b \in Int /\ 0 <= a /\ 0 <= b /\ a < WordMod /\ b < WordMod
          /\ MIN \in Nat /\ WordMod = 2 * MIN /\ MIN >= 8 /\ WordMod \in Nat
      BY <2>0, Halves, WordModType DEF Word
    <2>4. Mdo("Mul") = Wrap(a * b) BY DEF Mdo, MulDiv
    <2>5. Signed(Mdo("Mulh")) * WordMod + Mdo("Mul") = x * y
      <3>1. y < WordMod BY <2>2, <2>3
      <3>2. -(MIN * WordMod) <= x * y /\ x * y < MIN * WordMod
        BY <2>1, <2>2, <3>1, ProductRange
      <3>3. Wrap(x * y) = Wrap(a * b) BY <2>1, <2>2, <2>3, WrapProduct
      <3>4. x * y \in Int /\ a * b \in Int BY <2>3
      <3>5. Signed(High(x * y)) * WordMod + Wrap(a * b) = x * y
        BY <3>2, <3>3, <3>4, HighLow
      <3>6. Mdo("Mulh") = High(x * y) BY <2>1, <2>2 DEF Mdo, MulDiv
      <3> QED BY <2>4, <3>5, <3>6
    <2>6. Signed(Mdo("Mulhsu")) * WordMod + Mdo("Mul") = x * b
      <3>1. -MIN <= b BY <2>3
      <3>2. -(MIN * WordMod) <= x * b /\ x * b < MIN * WordMod
        BY <2>1, <2>3, <3>1, ProductRange
      <3>3. Wrap(x * b) = Wrap(a * b) BY <2>1, <2>3, WrapProduct
      <3>4. x * b \in Int /\ a * b \in Int BY <2>3
      <3>5. Signed(High(x * b)) * WordMod + Wrap(a * b) = x * b
        BY <3>2, <3>3, <3>4, HighLow
      <3>6. Mdo("Mulhsu") = High(x * b) BY <2>1 DEF Mdo, MulDiv
      <3> QED BY <2>4, <3>5, <3>6
    <2>7. Mdo("Mulhu") * WordMod + Mdo("Mul") = a * b
      <3>1. PICK p \in Nat : p = a * b BY <2>3
      <3>2. PICK q \in Int : q = p \div WordMod BY <2>3
      <3>3. PICK r \in Int : r = p % WordMod /\ 0 <= r /\ r < WordMod BY <2>3
      <3>4. p = WordMod * q + r
        <4>1. p \in Int OBVIOUS
        <4> QED BY <3>2, <3>3, <4>1, WordModType, DivMod
      <3>5. p < WordMod * WordMod
        <4>1. a * b <= a * WordMod /\ a * WordMod < WordMod * WordMod BY <2>3
        <4> QED BY <2>3, <3>1, <4>1
      <3>6. q >= 0 BY <2>3, <3>2
      <3>7. q < WordMod
        <4>1. SUFFICES ASSUME q >= WordMod PROVE FALSE BY <2>3
        <4>2. WordMod * q >= WordMod * WordMod BY <2>3, <4>1
        <4> QED BY <2>3, <3>3, <3>4, <3>5, <4>2
      <3>8. q \in Word BY <2>3, <3>6, <3>7 DEF Word
      <3>9. Mdo("Mulhu") = q BY <3>1, <3>2, <3>8, WrapWord DEF Mdo, MulDiv, High
      <3>10. Mdo("Mul") = r BY <2>4, <3>1, <3>3 DEF Wrap
      <3>11. q * WordMod = WordMod * q BY <2>3
      <3> QED BY <3>1, <3>4, <3>9, <3>10, <3>11
    <2> QED BY <2>1, <2>2, <2>5, <2>6, <2>7 DEF ProductHalves
  <1> QED BY <1>1, TypesHold, PTL

(***************************************************************************)
(* Division.                                                               *)
(***************************************************************************)
(* Quotient and remainder on the integers, rounded toward zero.            *)
LEMMA Truncated ==
  ASSUME NEW x \in Int, NEW y \in Int, y # 0
  PROVE  /\ Quotient(x, y) \in Int /\ Remainder(x, y) \in Int
         /\ Quotient(x, y) * y + Remainder(x, y) = x
         /\ Abs(Remainder(x, y)) < Abs(y)
         /\ x >= 0 => Remainder(x, y) >= 0
         /\ x < 0 => Remainder(x, y) <= 0
  <1>1. PICK u \in Nat : u = Abs(x) BY DEF Abs
  <1>2. PICK v \in Nat \ {0} : v = Abs(y) BY DEF Abs
  <1>3. PICK q \in Int : q = u \div v OBVIOUS
  <1>4. PICK r \in Int : r = u % v /\ 0 <= r /\ r < v OBVIOUS
  <1>5. u = v * q + r
    <2>1. u \in Int OBVIOUS
    <2> QED BY <1>3, <1>4, <2>1, DivMod
  <1>6. Remainder(x, y) = IF x < 0 THEN -r ELSE r BY <1>1, <1>2, <1>4 DEF Remainder
  <1>7. Quotient(x, y) = IF (x < 0) = (y < 0) THEN q ELSE -q BY <1>1, <1>2, <1>3 DEF Quotient
  <1>8. PICK p \in Int : p = v * q OBVIOUS
  <1>9. Quotient(x, y) * y = IF x < 0 THEN -p ELSE p
    <2>1. CASE x < 0 /\ y < 0
      <3>1. y = -v /\ Quotient(x, y) = q BY <1>2, <1>7, <2>1 DEF Abs
      <3> QED BY <1>8, <2>1, <3>1
    <2>2. CASE x < 0 /\ ~(y < 0)
      <3>1. y = v /\ Quotient(x, y) = -q BY <1>2, <1>7, <2>2 DEF Abs
      <3> QED BY <1>8, <2>2, <3>1
    <2>3. CASE ~(x < 0) /\ y < 0
      <3>1. y = -v /\ Quotient(x, y) = -q BY <1>2, <1>7, <2>3 DEF Abs
      <3> QED BY <1>8, <2>3, <3>1
    <2>4. CASE ~(x < 0) /\ ~(y < 0)
      <3>1. y = v /\ Quotient(x, y) = q BY <1>2, <1>7, <2>4 DEF Abs
      <3> QED BY <1>8, <2>4, <3>1
    <2> QED BY <2>1, <2>2, <2>3, <2>4
  <1>10. Quotient(x, y) \in Int BY <1>7
  <1>11. Quotient(x, y) * y + Remainder(x, y) = x
    <2>1. CASE x < 0
      <3>1. u = -x BY <1>1, <2>1 DEF Abs
      <3> QED BY <1>5, <1>6, <1>8, <1>9, <2>1, <3>1
    <2>2. CASE x >= 0
      <3>1. u = x BY <1>1, <2>2 DEF Abs
      <3>2. Remainder(x, y) = r BY <1>6, <2>2
      <3>3. Quotient(x, y) * y = p BY <1>9, <2>2
      <3>4. p + r = x BY <1>5, <1>8, <3>1
      <3> QED BY <3>2, <3>3, <3>4
    <2> QED BY <2>1, <2>2
  <1>12. Abs(Remainder(x, y)) = r BY <1>4, <1>6 DEF Abs
  <1> QED BY <1>2, <1>4, <1>6, <1>10, <1>11, <1>12

(* The remainder of signed division, as a number: nothing is lost when it  *)
(* is written into a register.                                             *)
LEMMA SignedRemValue ==
  ASSUME NEW x \in Word, NEW y \in Word, y # 0
  PROVE  /\ Signed(SignedRem(x, y)) \in Int
         /\ Abs(Signed(SignedRem(x, y))) < Abs(Signed(y))
         /\ Signed(x) >= 0 => Signed(SignedRem(x, y)) >= 0
         /\ Signed(x) < 0 => Signed(SignedRem(x, y)) <= 0
  <1>1. PICK s \in Int : s = Signed(x) BY WordInt
  <1>2. PICK t \in Int : t = Signed(y) /\ t # 0 BY WordInt, SignedNonZero
  <1>3. MIN \in Nat /\ MIN >= 8 /\ WordMod = 2 * MIN BY Halves
  <1>4. CASE x = MIN /\ y = NegOne
    <2>1. SignedRem(x, y) = 0 BY <1>4 DEF SignedRem
    <2>2. Signed(0) = 0 BY <1>3, WordModType DEF Signed, SignExtend, MIN
    <2> QED BY <1>2, <2>1, <2>2 DEF Abs
  <1>5. CASE ~(x = MIN /\ y = NegOne)
    <2>1. PICK r \in Int : /\ r = Remainder(s, t) /\ Abs(r) < Abs(t)
                           /\ s >= 0 => r >= 0
                           /\ s < 0 => r <= 0
      BY <1>2, Truncated
    <2>2. SignedRem(x, y) = Wrap(r) BY <1>1, <1>2, <1>5, <2>1 DEF SignedRem
    <2>3. -MIN <= t /\ t < MIN BY <1>2, SignedRange
    <2>4. -MIN <= r /\ r < MIN BY <1>3, <2>1, <2>3 DEF Abs
    <2>5. Signed(Wrap(r)) = r BY <2>4, SignedOfWrap
    <2> QED BY <1>1, <1>2, <2>1, <2>2, <2>5
  <1> QED BY <1>4, <1>5

(* Quotient and remainder recompose the dividend as words, the signed      *)
(* overflow and division by zero included.                                 *)
LEMMA SignedRecompose ==
  ASSUME NEW x \in Word, NEW y \in Word
  PROVE  Wrap(SignedDiv(x, y) * y + SignedRem(x, y)) = x
  <1>1. MIN \in Nat /\ MIN >= 8 /\ WordMod = 2 * MIN BY Halves
  <1>2. x \in Int /\ y \in Int /\ Wrap(x) = x BY WordInt, WrapWord
  <1>3. CASE y = 0
    <2>1. SignedDiv(x, y) = NegOne /\ SignedRem(x, y) = x
      <3>1. NegOne # 0 BY <1>1 DEF NegOne
      <3> QED BY <1>3, <3>1, Zenon DEF SignedDiv, SignedRem
    <2>2. NegOne * 0 + x = x BY <1>1, <1>2 DEF NegOne
    <2> QED BY <1>2, <1>3, <2>1, <2>2
  <1>4. CASE y # 0 /\ x = MIN /\ y = NegOne
    <2>1. SignedDiv(x, y) = MIN /\ SignedRem(x, y) = 0 BY <1>4 DEF SignedDiv, SignedRem
    <2>2. MIN * NegOne + 0 = MIN + WordMod * (MIN - 1)
      <3>1. MIN * (2 * MIN - 1) + 0 = MIN + (2 * MIN) * (MIN - 1) BY <1>1
      <3> QED BY <1>1, <3>1 DEF NegOne
    <2>3. MIN - 1 \in Int /\ MIN \in Int BY <1>1
    <2>4. Wrap(MIN + WordMod * (MIN - 1)) = Wrap(MIN) BY <2>3, WrapShift
    <2> QED BY <1>2, <1>4, <2>1, <2>2, <2>4
  <1>5. CASE y # 0 /\ ~(x = MIN /\ y = NegOne)
    <2>1. PICK s \in Int : s = Signed(x) /\ Wrap(s) = x BY WrapOfReadings
    <2>2. PICK t \in Int : t = Signed(y) /\ t # 0 /\ Wrap(t) = Wrap(y)
      BY <1>5, WrapOfReadings, SignedNonZero
    <2>3. PICK q \in Int : q = Quotient(s, t) BY <2>2, Truncated
    <2>4. PICK r \in Int : r = Remainder(s, t) BY <2>2, Truncated
    <2>5. q * t + r = s BY <2>2, <2>3, <2>4, Truncated
    <2>6. SignedDiv(x, y) = Wrap(q) /\ SignedRem(x, y) = Wrap(r)
      BY <1>5, <2>1, <2>2, <2>3, <2>4 DEF SignedDiv, SignedRem
    <2>7. PICK d \in Int : d = Wrap(q) /\ Wrap(d) = Wrap(q) BY WrapOfReadings, WordModType, WrapWord DEF Word
    <2>8. PICK e \in Int : e = Wrap(r) /\ Wrap(e) = Wrap(r) BY WrapOfReadings, WordModType, WrapWord DEF Word
    <2>9. Wrap(d * y) = Wrap(q * t) BY <1>2, <2>2, <2>7, WrapProduct
    <2>10. PICK f \in Int : f = d * y BY <1>2
    <2>11. PICK g \in Int : g = q * t OBVIOUS
    <2>12. Wrap(f + e) = Wrap(g + r) BY <2>8, <2>9, <2>10, <2>11, WrapSum
    <2> QED BY <2>1, <2>5, <2>6, <2>7, <2>8, <2>10, <2>11, <2>12
  <1> QED BY <1>3, <1>4, <1>5

(* Division and remainder recompose the dividend for every operand pair;   *)
(* away from zero the remainder is smaller than the divisor and has the    *)
(* dividend's sign (exec.rs 49-80).                                        *)
THEOREM DivisionRecomposes == Spec => []DivisionLaw
  <1>1. ASSUME Types PROVE DivisionLaw
    <2>0. a \in Word /\ b \in Word BY <1>1 DEF Types
    <2>1. /\ Mdo("Div") = SignedDiv(a, b) /\ Mdo("Rem") = SignedRem(a, b)
          /\ Mdo("Divu") = (IF b = 0 THEN NegOne ELSE a \div b)
          /\ Mdo("Remu") = (IF b = 0 THEN a ELSE a % b)
      BY DEF Mdo, MulDiv
    <2>2. a \in Int /\ b \in Int /\ b >= 0 /\ Wrap(a) = a /\ NegOne \in Int
      BY <2>0, WordModType, WrapWord DEF Word, NegOne
    <2>3. Wrap(Mdo("Div") * b + Mdo("Rem")) = a BY <2>0, <2>1, SignedRecompose
    <2>4. Wrap(Mdo("Divu") * b + Mdo("Remu")) = a
      <3>1. CASE b = 0 BY <2>1, <2>2, <3>1
      <3>2. CASE b # 0
        <4>1. b \in Nat \ {0} BY <2>2, <3>2
        <4>2. PICK q \in Int : q = a \div b BY <2>2, <4>1
        <4>3. PICK r \in Int : r = a % b BY <2>2, <4>1
        <4>4. a = b * q + r BY <2>2, <4>1, <4>2, <4>3, DivMod
        <4>5. b * q = q * b BY <2>2
        <4> QED BY <2>1, <2>2, <3>2, <4>2, <4>3, <4>4, <4>5
      <3> QED BY <3>1, <3>2
    <2>5. b # 0 => /\ Abs(Signed(Mdo("Rem"))) < Abs(Signed(b))
                   /\ Mdo("Remu") < b
      BY <2>0, <2>1, <2>2, SignedRemValue
    <2>6. Signed(Mdo("Rem")) * Signed(a) >= 0
      <3>1. PICK s \in Int : s = Signed(a) BY <2>0, WordInt
      <3>2. PICK r : r = Signed(Mdo("Rem")) OBVIOUS
      <3>3. CASE b = 0
        <4>1. SignedRem(a, b) = a
          <5>1. NegOne # 0 BY WordModType DEF NegOne
          <5> QED BY <3>3, <5>1, Zenon DEF SignedRem
        <4>2. r = s BY <2>1, <3>1, <3>2, <4>1
        <4>3. s * s >= 0 OBVIOUS
        <4> QED BY <3>1, <3>2, <4>2, <4>3
      <3>4. CASE b # 0
        <4>1. r \in Int /\ (s >= 0 => r >= 0) /\ (s < 0 => r <= 0)
          BY <2>0, <2>1, <3>1, <3>2, <3>4, SignedRemValue
        <4>2. r * s >= 0 BY <4>1
        <4> QED BY <3>1, <3>2, <4>2
      <3> QED BY <3>3, <3>4
    <2> QED BY <2>3, <2>4, <2>5, <2>6 DEF DivisionLaw
  <1> QED BY <1>1, TypesHold, PTL

(***************************************************************************)
(* Comparisons.                                                            *)
(***************************************************************************)
(* The set-less-than operations, the branches and their negations agree;   *)
(* the signed order is the unsigned order of the words with the top bit    *)
(* flipped (exec.rs 19-20, 84-93).                                         *)
THEOREM OrdersAgree == Spec => []OrderLaw
  <1>1. ASSUME Types PROVE OrderLaw
    <2>0. a \in Word /\ b \in Word BY <1>1 DEF Types
    <2>1. /\ a \in Int /\ b \in Int /\ Signed(a) \in Int /\ Signed(b) \in Int
          /\ a < WordMod /\ b < WordMod /\ a >= 0 /\ b >= 0
          /\ MIN \in Nat /\ WordMod = 2 * MIN
      BY <2>0, WordInt, Halves, WordModType DEF Word
    <2>2. /\ Do("Slt") = Truth(Signed(a) < Signed(b))
          /\ Do("Sltu") = Truth(a < b)
      BY DEF Do, Alu
    <2>3. (Do("Slt") = 1) = BranchTaken("Lt", a, b)
      <3>1. BranchTaken("Lt", a, b) = (Signed(a) < Signed(b)) BY DEF BranchTaken
      <3>2. CASE Signed(a) < Signed(b) BY <2>2, <3>1, <3>2 DEF Truth
      <3>3. CASE ~(Signed(a) < Signed(b)) BY <2>2, <3>1, <3>3 DEF Truth
      <3> QED BY <3>2, <3>3
    <2>4. (Do("Sltu") = 1) = BranchTaken("Ltu", a, b)
      <3>1. BranchTaken("Ltu", a, b) = (a < b) BY DEF BranchTaken
      <3>2. CASE a < b BY <2>2, <3>1, <3>2 DEF Truth
      <3>3. CASE ~(a < b) BY <2>2, <3>1, <3>3 DEF Truth
      <3> QED BY <3>2, <3>3
    <2>5. Do("Slt") = Alu("Sltu", BitXor(a, MIN), BitXor(b, MIN))
      <3>1. PICK u \in Int : /\ u = BitXor(a, MIN)
                             /\ u = IF a < MIN THEN a + MIN ELSE a - MIN
        BY <2>0, <2>1, TopBitAssumption DEF MIN
      <3>2. PICK v \in Int : /\ v = BitXor(b, MIN)
                             /\ v = IF b < MIN THEN b + MIN ELSE b - MIN
        BY <2>0, <2>1, TopBitAssumption DEF MIN
      <3>3. /\ a < MIN => Signed(a) = a
            /\ a >= MIN => Signed(a) = a - WordMod
            /\ b < MIN => Signed(b) = b
            /\ b >= MIN => Signed(b) = b - WordMod
        BY <2>0, SignedRange
      <3>4. Signed(a) < Signed(b) <=> u < v BY <2>1, <3>1, <3>2, <3>3
      <3>5. Do("Slt") = Truth(Signed(a) < Signed(b)) BY DEF Do, Alu
      <3>6. Alu("Sltu", BitXor(a, MIN), BitXor(b, MIN)) = Truth(u < v)
        BY <3>1, <3>2 DEF Alu
      <3> QED BY <3>4, <3>5, <3>6 DEF Truth
    <2>6. \A p \in {<<"Eq", "Ne">>, <<"Lt", "Ge">>, <<"Ltu", "Geu">>} :
            BranchTaken(p[1], a, b) # BranchTaken(p[2], a, b)
      <3>1. BranchTaken("Eq", a, b) # BranchTaken("Ne", a, b) BY DEF BranchTaken
      <3>2. BranchTaken("Lt", a, b) # BranchTaken("Ge", a, b)
        <4>1. BranchTaken("Lt", a, b) = (Signed(a) < Signed(b)) BY DEF BranchTaken
        <4>2. BranchTaken("Ge", a, b) = (Signed(a) >= Signed(b)) BY DEF BranchTaken
        <4>3. (Signed(a) < Signed(b)) <=> ~(Signed(a) >= Signed(b)) BY <2>1
        <4> QED BY <4>1, <4>2, <4>3
      <3>3. BranchTaken("Ltu", a, b) # BranchTaken("Geu", a, b)
        <4>1. BranchTaken("Ltu", a, b) = (a < b) BY DEF BranchTaken
        <4>2. BranchTaken("Geu", a, b) = (a >= b) BY DEF BranchTaken
        <4>3. (a < b) <=> ~(a >= b) BY <2>1
        <4> QED BY <4>1, <4>2, <4>3
      <3> QED BY <3>1, <3>2, <3>3
    <2> QED BY <2>3, <2>4, <2>5, <2>6 DEF OrderLaw
  <1> QED BY <1>1, TypesHold, PTL

(***************************************************************************)
(* Shifts.                                                                 *)
(***************************************************************************)
(* Every power in the table divides the modulus: from the last power,      *)
(* which is half of it, downwards.                                         *)
LEMMA PowersDivide ==
  ASSUME NEW s \in 0 .. XLen - 1
  PROVE  \E q \in Nat \ {0} : WordMod = Pow2[s] * q
  <1> DEFINE Divides(t) == \E q \in Nat \ {0} : WordMod = Pow2[t] * q
             Bad == {n \in Nat : n < XLen /\ ~Divides(XLen - 1 - n)}
  <1>1. Bad = {}
    <2>1. SUFFICES ASSUME Bad # {} PROVE FALSE OBVIOUS
    <2>2. PICK n \in Bad : \A m \in Bad : n <= m
      <3> HIDE DEF Bad
      <3>1. Bad \subseteq Nat BY DEF Bad
      <3> QED BY <2>1, <3>1, LeastElement
    <2>3. n \in Nat /\ n < XLen /\ ~Divides(XLen - 1 - n) BY <2>2
    <2>4. XLen \in Nat \ {0} BY XLenAssumption
    <2>5. n # 0
      <3>1. WordMod = 2 * Pow2[XLen - 1] BY XLenAssumption DEF WordMod
      <3>2. Pow2[XLen - 1] \in Nat BY <2>4, XLenAssumption
      <3>3. WordMod = Pow2[XLen - 1] * 2 BY <3>1, <3>2
      <3>4. Divides(XLen - 1) BY <3>3
      <3>5. n = 0 => XLen - 1 - n = XLen - 1 BY <2>4
      <3> HIDE DEF Divides
      <3> QED BY <2>3, <3>4, <3>5
    <2>6. n - 1 \in Nat /\ n - 1 < XLen /\ ~(n <= n - 1) BY <2>3, <2>4, <2>5
    <2>7. Divides(XLen - 1 - (n - 1))
      <3> HIDE DEF Divides
      <3> QED BY <2>2, <2>6
    <2>8. PICK q \in Nat \ {0} : WordMod = Pow2[XLen - 1 - (n - 1)] * q BY <2>7
    <2>9. PICK t \in 0 .. XLen - 2 : t = XLen - 1 - n BY <2>3, <2>4, <2>5
    <2>10. XLen - 1 - (n - 1) = t + 1 BY <2>3, <2>4, <2>9
    <2>11. Pow2[t + 1] = 2 * Pow2[t] /\ Pow2[t] \in Nat BY <2>4, <2>9, XLenAssumption
    <2>12. PICK p \in Nat : p = Pow2[t] BY <2>11
    <2>13. (2 * p) * q = p * (2 * q) OBVIOUS
    <2>14. WordMod = Pow2[t] * (2 * q) BY <2>8, <2>10, <2>11, <2>12, <2>13
    <2>15. 2 * q \in Nat \ {0} OBVIOUS
    <2>16. Divides(t) BY <2>14, <2>15
    <2> HIDE DEF Divides
    <2> QED BY <2>3, <2>9, <2>16
  <1>2. XLen \in Nat \ {0} /\ s \in Nat BY XLenAssumption
  <1>3. XLen - 1 - s \in Nat /\ XLen - 1 - s < XLen /\ XLen - 1 - (XLen - 1 - s) = s BY <1>2
  <1>4. Divides(XLen - 1 - (XLen - 1 - s))
    <2> HIDE DEF Divides
    <2> QED BY <1>1, <1>3
  <1> QED BY <1>3, <1>4

(* Halving after dividing is dividing by twice as much. *)
LEMMA HalfOfQuotient ==
  ASSUME NEW x \in Int, NEW p \in Nat \ {0}
  PROVE  x \div (2 * p) = (x \div p) \div 2
  <1>1. PICK q \in Int : q = x \div p OBVIOUS
  <1>2. PICK r \in Int : r = x % p /\ 0 <= r /\ r < p OBVIOUS
  <1>3. x = p * q + r BY <1>1, <1>2, DivMod
  <1>4. PICK h \in Int : h = q \div 2 OBVIOUS
  <1>5. PICK c \in {0, 1} : q = 2 * h + c BY <1>4
  <1>6. p * q = (2 * p) * h + p * c BY <1>5
  <1>7. PICK k \in Int : k = p * c /\ (k = 0 \/ k = p) OBVIOUS
  <1>8. x = (2 * p) * h + (k + r)
    <2>1. PICK m \in Int : m = (2 * p) * h OBVIOUS
    <2> QED BY <1>3, <1>6, <1>7, <2>1
  <1>9. 2 * p \in Nat \ {0} /\ k + r \in 0 .. (2 * p) - 1 BY <1>2, <1>7
  <1>10. x \div (2 * p) = h BY <1>8, <1>9, DivModUnique
  <1> QED BY <1>1, <1>4, <1>10

KeepsLowBits(x, p, q) == Wrap(x * p) \div p = x % q

(* Shifting left and back keeps the low bits. *)
LEMMA LeftAndBack ==
  ASSUME NEW x \in Nat, NEW p \in Nat \ {0}, NEW q \in Nat \ {0}, WordMod = p * q
  PROVE  KeepsLowBits(x, p, q)
  <1>1. PICK d \in Int : d = x \div q OBVIOUS
  <1>2. PICK r \in Int : r = x % q /\ 0 <= r /\ r < q OBVIOUS
  <1>3. x = q * d + r BY <1>1, <1>2, DivMod
  <1>4. x * p = (p * q) * d + r * p
    <2>1. (q * d + r) * p = (p * q) * d + r * p OBVIOUS
    <2> QED BY <1>3, <2>1
  <1>5. PICK n \in Int, k \in Int : n = x * p /\ k = r * p OBVIOUS
  <1>6. 0 <= k /\ k < WordMod
    <2>1. r * p < q * p /\ 0 <= r * p BY <1>2
    <2>2. q * p = p * q OBVIOUS
    <2> QED BY <1>5, <2>1, <2>2
  <1>7. n = WordMod * d + k BY <1>4, <1>5
  <1>8. k \in 0 .. WordMod - 1 BY <1>6, WordModType
  <1>9. n % WordMod = k BY <1>7, <1>8, WordModType, DivModUnique
  <1>10. k = p * r + 0 /\ 0 \in 0 .. p - 1 BY <1>5
  <1>11. k \div p = r BY <1>10, DivModUnique
  <1> QED BY <1>2, <1>5, <1>9, <1>11 DEF Wrap, KeepsLowBits

(* A negative number shifted arithmetically: the complement of the shifted *)
(* complement.                                                             *)
LEMMA ShiftOfNegative ==
  ASSUME NEW x \in Int, NEW c \in Nat, x = -c - 1, NEW p \in Nat \ {0}
  PROVE  x \div p = -(c \div p) - 1
  <1>1. PICK q \in Int : q = c \div p OBVIOUS
  <1>2. PICK r \in Int : r = c % p /\ 0 <= r /\ r < p OBVIOUS
  <1>3. c = p * q + r
    <2>1. c \in Int OBVIOUS
    <2> QED BY <1>1, <1>2, <2>1, DivMod
  <1>4. p * (-q - 1) = -(p * q) - p OBVIOUS
  <1>5. PICK m \in Int : m = p * q OBVIOUS
  <1>6. x = p * (-q - 1) + (p - 1 - r) BY <1>3, <1>4, <1>5
  <1>7. p - 1 - r \in 0 .. p - 1 /\ -q - 1 \in Int BY <1>2
  <1>8. x \div p = -q - 1 BY <1>6, <1>7, DivModUnique
  <1> QED BY <1>1, <1>8

(* The amount of a shift does not see a whole number of widths, where the  *)
(* width divides the modulus, as 32 divides 2^32.                          *)
LEMMA AmountPeriodic ==
  ASSUME WordMod % XLen = 0, NEW x \in Word
  PROVE  /\ ShiftAmount(Wrap(x + XLen)) = ShiftAmount(x)
         /\ ShiftAmount(x) \in 0 .. XLen - 1
         /\ ShiftAmount(x) < XLen - 1 => ShiftAmount(x + 1) = ShiftAmount(x) + 1
  <1>1. XLen \in Nat \ {0} /\ x \in Int BY XLenAssumption, WordInt
  <1>2. PICK d \in Int : d = x \div XLen BY <1>1
  <1>3. PICK s \in Int : s = x % XLen /\ s \in 0 .. XLen - 1 BY <1>1
  <1>4. x = XLen * d + s BY <1>1, <1>2, <1>3, DivMod
  <1>5. PICK m \in Int : m = WordMod \div XLen BY <1>1, WordModType
  <1>6. WordMod = XLen * m
    <2>1. WordMod \in Int BY WordModType
    <2>2. WordMod = XLen * (WordMod \div XLen) + (WordMod % XLen) BY <1>1, <2>1, DivMod
    <2>3. XLen * m \in Int BY <1>1
    <2> QED BY <1>5, <2>2, <2>3
  <1>7. PICK k \in Int : x + XLen = WordMod * k + Wrap(x + XLen)
    <2>1. x + XLen \in Int BY <1>1
    <2>2. (x + XLen) \div WordMod \in Int BY <2>1, WordModType
    <2> QED BY <2>1, <2>2, WordModType, DivMod DEF Wrap
  <1>8. PICK v \in Int : v = Wrap(x + XLen) BY <1>1, WordModType DEF Wrap
  <1>9. v = XLen * (d + 1 - m * k) + s
    <2>1. XLen * (d + 1 - m * k) = XLen * d + XLen - (XLen * m) * k BY <1>1
    <2>2. PICK e \in Int : e = XLen * d BY <1>1
    <2>3. PICK f \in Int : f = WordMod * k BY WordModType
    <2>4. e + s + XLen = f + v BY <1>1, <1>4, <1>7, <1>8, <2>2, <2>3
    <2>5. XLen * (d + 1 - m * k) = e + XLen - f BY <1>6, <2>1, <2>2, <2>3
    <2> QED BY <1>1, <2>4, <2>5
  <1>10. d + 1 - m * k \in Int OBVIOUS
  <1>11. v % XLen = s BY <1>1, <1>3, <1>9, <1>10, DivModUnique
  <1>12. s < XLen - 1 => (x + 1) % XLen = s + 1
    <2>1. SUFFICES ASSUME s < XLen - 1 PROVE (x + 1) % XLen = s + 1 OBVIOUS
    <2>2. x + 1 = XLen * d + (s + 1)
      <3>1. PICK e \in Int : e = XLen * d BY <1>1
      <3> QED BY <1>4, <3>1
    <2>3. PICK t \in 0 .. XLen - 1 : t = s + 1 BY <1>1, <1>3, <2>1
    <2>4. PICK n \in Int : n = x + 1 BY <1>1
    <2>5. n = XLen * d + t BY <2>2, <2>3, <2>4
    <2>6. n % XLen = t BY <1>1, <2>5, DivModUnique
    <2> QED BY <2>3, <2>4, <2>6
  <1> QED BY <1>3, <1>8, <1>11, <1>12 DEF ShiftAmount

(* A shift looks at the low bits of its amount only and by one more bit    *)
(* doubles or halves; left and back drops the high bits and nothing else;  *)
(* an arithmetic shift of a negative word is the complement of the logical *)
(* shift of the complement (exec.rs 18-23).                                *)
THEOREM ShiftsAgree ==
  ASSUME WordMod % XLen = 0 PROVE Spec => []ShiftLaw
  <1>1. ASSUME Types PROVE ShiftLaw
    <2>0. a \in Word /\ b \in Word BY <1>1 DEF Types
    <2>1. PICK s \in 0 .. XLen - 1 : s = ShiftAmount(b) BY <2>0, AmountPeriodic
    <2>2. PICK p \in Nat \ {0} : p = Pow2[s] BY <2>1, XLenAssumption
    <2>3. PICK q \in Nat \ {0} : WordMod = p * q BY <2>1, <2>2, PowersDivide
    <2>4. /\ Do("Sll") = Wrap(a * p) /\ Do("Srl") = a \div p
          /\ Do("Sra") = Wrap(Signed(a) \div p)
      BY <2>1, <2>2 DEF Do, Alu
    <2>5. /\ a \in Int /\ a \in Nat /\ 0 <= a /\ a < WordMod /\ b \in Int
          /\ WordMod \in Nat /\ WordMod >= 16
      BY <2>0, WordModType DEF Word
    <2>6. \A op \in {"Sll", "Srl", "Sra"} : Do(op) = Alu(op, a, Wrap(b + XLen))
      BY <2>0, AmountPeriodic DEF Do, Alu
    <2>7. ASSUME b % XLen < XLen - 1
          PROVE  /\ Alu("Sll", a, b + 1) = Wrap(2 * Do("Sll"))
                 /\ Alu("Srl", a, b + 1) = Do("Srl") \div 2
      <3>1. s < XLen - 1 BY <2>1, <2>7 DEF ShiftAmount
      <3>2. ShiftAmount(b + 1) = s + 1 BY <2>0, <2>1, <3>1, AmountPeriodic
      <3>3. s \in 0 .. XLen - 2 BY <2>1, <3>1, XLenAssumption
      <3>4. Pow2[s + 1] = 2 * p BY <2>2, <3>3, XLenAssumption
      <3>5. Alu("Sll", a, b + 1) = Wrap(a * (2 * p)) /\ Alu("Srl", a, b + 1) = a \div (2 * p)
        BY <3>2, <3>4 DEF Alu
      <3>6. Wrap(a * (2 * p)) = Wrap(2 * Do("Sll"))
        <4>1. PICK n \in Int : n = a * p BY <2>5
        <4>2. PICK v \in Int : v = Wrap(n) /\ Wrap(v) = Wrap(n)
          <5>1. Wrap(n) \in Word /\ Wrap(n) \in Int BY WrapType, WordModType DEF Word
          <5> QED BY <5>1, WrapWord
        <4>3. Wrap(2 * v) = Wrap(2 * n) BY <4>2, WrapProduct
        <4>4. a * (2 * p) = 2 * n BY <2>5, <4>1
        <4> QED BY <2>4, <4>1, <4>2, <4>3, <4>4
      <3>7. a \div (2 * p) = Do("Srl") \div 2 BY <2>4, <2>5, HalfOfQuotient
      <3> QED BY <3>5, <3>6, <3>7
    <2>8. Alu("Srl", Do("Sll"), b) = a % (WordMod \div p)
      <3>1. Alu("Srl", Do("Sll"), b) = Do("Sll") \div p BY <2>1, <2>2 DEF Alu
      <3>2. Do("Sll") \div p = a % q
        <4>1. PICK x \in Nat : x = a BY <2>5
        <4>2. KeepsLowBits(x, p, q) BY <2>3, LeftAndBack
        <4> QED BY <2>4, <4>1, <4>2 DEF KeepsLowBits
      <3>3. WordMod \div p = q
        <4>1. WordMod = p * q + 0 /\ 0 \in 0 .. p - 1 /\ WordMod \in Int BY <2>3, <2>5
        <4> QED BY <4>1, DivModUnique
      <3> QED BY <3>1, <3>2, <3>3
    <2>9. Do("Sra") = IF Signed(a) >= 0 THEN Do("Srl")
                      ELSE NegOne - Alu("Srl", NegOne - a, b)
      <3>1. MIN \in Nat /\ WordMod = 2 * MIN BY Halves
      <3>2. CASE Signed(a) >= 0
        <4>1. Signed(a) = a BY <2>0, <2>5, <3>1, <3>2, SignedRange
        <4>2. a \div p \in Word BY <2>0, DivWord
        <4> QED BY <2>4, <3>2, <4>1, <4>2, WrapWord
      <3>3. CASE ~(Signed(a) >= 0)
        <4>1. Signed(a) = a - WordMod BY <2>0, <2>5, <3>1, <3>3, SignedRange
        <4>2. PICK c \in Nat : c = NegOne - a /\ c < WordMod BY <2>5 DEF NegOne
        <4>3. Signed(a) = -c - 1 BY <2>5, <4>1, <4>2 DEF NegOne
        <4>4. PICK x \in Int : x = Signed(a) BY <2>0, WordInt
        <4>5. x \div p = -(c \div p) - 1 BY <4>3, <4>4, ShiftOfNegative
        <4>6. PICK d \in Word : d = c \div p
          <5>1. c \in Word BY <2>5, <4>2 DEF Word
          <5> QED BY <5>1, DivWord
        <4>7. d \in Int /\ NegOne - d \in Word BY <2>5 DEF Word, NegOne
        <4>8. (NegOne - d) + WordMod * (-1) = -d - 1 BY <2>5, <4>7 DEF NegOne
        <4>9. NegOne - d \in Int BY <2>5, <4>7 DEF NegOne
        <4>10. Wrap((NegOne - d) + WordMod * (-1)) = Wrap(NegOne - d) BY <4>9, WrapShift
        <4>11. Wrap(-d - 1) = NegOne - d BY <4>7, <4>8, <4>10, WrapWord
        <4>12. Alu("Srl", NegOne - a, b) = d BY <2>1, <2>2, <4>2, <4>6 DEF Alu
        <4> QED BY <2>4, <3>3, <4>4, <4>5, <4>6, <4>11, <4>12
      <3> QED BY <3>2, <3>3
    <2> QED BY <2>1, <2>2, <2>6, <2>7, <2>8, <2>9 DEF ShiftLaw
  <1> QED BY <1>1, TypesHold, PTL
=============================================================================
