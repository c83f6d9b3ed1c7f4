----------------------------- MODULE Operators -----------------------------
(***************************************************************************)
(* The pure functions of both interpreters, and the laws they obey.  There *)
(* is no state to keep: the behaviours here only run through the pairs of  *)
(* words, a chosen at the start, and through the code words that differ    *)
(* from a given one in funct7.                                             *)
(***************************************************************************)
EXTENDS Alu, DecodeProperties

CONSTANT CodeWords  \* the words of code to start from

ASSUME CodeWordsAssumption == CodeWords \subseteq Fields

VARIABLES
  looking,  \* at "Operands" or at a "Word" of code
  a, b, w

vars == <<looking, a, b, w>>

Init ==
  \/ /\ looking = "Operands"
     /\ a \in Word /\ b = 0 /\ w = RType(0, 0, 0, 0, 0, 0)
  \/ /\ looking = "Word"
     /\ a = 0 /\ b = 0 /\ w \in CodeWords

NextOperand ==
  /\ looking = "Operands" /\ b < WordMod - 1
  /\ b' = b + 1
  /\ UNCHANGED <<looking, a, w>>

NextWord ==
  /\ looking = "Word" /\ w.f7 < 127
  /\ w' = [w EXCEPT !.f7 = @ + 1]
  /\ UNCHANGED <<looking, a, b>>

Next == NextOperand \/ NextWord

Spec == Init /\ [][Next]_vars

(***************************************************************************)
(* Properties.                                                             *)
(***************************************************************************)
(* An operation on the current operands. *)
Do(op) == Alu(op, a, b)
Mdo(op) == MulDiv(op, a, b)

(* Quotient and remainder recompose the dividend for every operand pair,   *)
(* division by zero and the signed overflow included; away from those the  *)
(* remainder is smaller than the divisor and has the dividend's sign       *)
(* (exec.rs 49-80).                                                        *)
DivisionLaw ==
  /\ Wrap(Mdo("Div") * b + Mdo("Rem")) = a
  /\ Wrap(Mdo("Divu") * b + Mdo("Remu")) = a
  /\ b # 0 => /\ Abs(Signed(Mdo("Rem"))) < Abs(Signed(b))
              /\ Mdo("Remu") < b
  /\ Signed(Mdo("Rem")) * Signed(a) >= 0

(* The high half of every product goes with the one low half that mul      *)
(* computes, whatever the signedness of the operands (exec.rs 45-48).      *)
ProductHalves ==
  /\ Signed(Mdo("Mulh")) * WordMod + Mdo("Mul") = Signed(a) * Signed(b)
  /\ Signed(Mdo("Mulhsu")) * WordMod + Mdo("Mul") = Signed(a) * b
  /\ Mdo("Mulhu") * WordMod + Mdo("Mul") = a * b

(* A shift looks at the low bits of its amount only and by one more bit    *)
(* doubles or halves; shifting left and back drops the high bits and       *)
(* nothing else; an arithmetic shift of a negative word is the complement  *)
(* of the logical shift of the complement (exec.rs 18-23).                 *)
ShiftLaw ==
  LET s == ShiftAmount(b)
  IN /\ \A op \in {"Sll", "Srl", "Sra"} :
          Do(op) = Alu(op, a, Wrap(b + XLen))
     /\ b % XLen < XLen - 1 => /\ Alu("Sll", a, b + 1) = Wrap(2 * Do("Sll"))
                               /\ Alu("Srl", a, b + 1) = Do("Srl") \div 2
     /\ Alu("Srl", Do("Sll"), b) = a % (WordMod \div Pow2[s])
     /\ Do("Sra") = IF Signed(a) >= 0 THEN Do("Srl")
                    ELSE NegOne - Alu("Srl", NegOne - a, b)

(* The orders agree with each other: set-less-than with the branches and   *)
(* with the branches' negations, the signed order with the unsigned order  *)
(* of the words whose top bit is flipped (exec.rs 19-20, 84-93).           *)
OrderLaw ==
  /\ (Do("Slt") = 1) = BranchTaken("Lt", a, b)
  /\ (Do("Sltu") = 1) = BranchTaken("Ltu", a, b)
  /\ Do("Slt") = Alu("Sltu", BitXor(a, MIN), BitXor(b, MIN))
  /\ \A p \in {<<"Eq", "Ne">>, <<"Lt", "Ge">>, <<"Ltu", "Geu">>} :
       BranchTaken(p[1], a, b) # BranchTaken(p[2], a, b)

(* The two interpreters compute the same word for every operation on every *)
(* operand pair (exec.rs 14-93 and hartbeat-ref lib.rs 183-191, 235-258,   *)
(* 263-289, 309-353).                                                      *)
ArithmeticAgrees ==
  /\ \A f3 \in 0 .. 7 :
       Mdo(<<"Mul", "Mulh", "Mulhsu", "Mulhu", "Div", "Divu", "Rem", "Remu">>[f3 + 1])
         = MulDivTable(f3, a, b)
  /\ \A f3 \in 0 .. 7 :
       Do(<<"Add", "Sll", "Slt", "Sltu", "Xor", "Srl", "Or", "And">>[f3 + 1])
         = RegTable(f3, 0, a, b)
  /\ Do("Sub") = RegTable(0, 32, a, b) /\ Do("Sra") = RegTable(5, 32, a, b)
  /\ \A f3 \in {0, 2, 3, 4, 6, 7} :
       Do(<<"Add", "Add", "Slt", "Sltu", "Xor", "Xor", "Or", "And">>[f3 + 1])
         = ImmTable(f3, 0, a, b, ShiftAmount(b))
  /\ Do("Sll") = ImmTable(1, 0, a, b, ShiftAmount(b))
  /\ Do("Srl") = ImmTable(5, 0, a, b, ShiftAmount(b))
  /\ Do("Sra") = ImmTable(5, 32, a, b, ShiftAmount(b))
  /\ \A f3 \in {0, 1, 4, 5, 6, 7} :
       BranchTaken(<<"Eq", "Ne", "", "", "Lt", "Ge", "Ltu", "Geu">>[f3 + 1], a, b)
         = Take(f3, a, b)

(* decode.rs loses nothing: LosslessAt, of every enumerated word.          *)
Lossless == LosslessAt(w)

(* decode.rs and the reference decoder agree, on every enumerated word.    *)
DecodersAgree == DecodersAgreeAt(w)
=============================================================================
