------------------------------- MODULE Words -------------------------------
(***************************************************************************)
(* Machine words of the HartBeat interpreters.                             *)
(*                                                                         *)
(* A register holds a u32: four bytes of eight bits.  Nothing in the       *)
(* interpreters depends on the width of a byte, so it is a parameter:      *)
(* Base is 256 in the program and small when TLC enumerates words.  A word *)
(* is always four bytes, because the fetch width, the instruction length   *)
(* and the width of lw/sw are four.                                        *)
(***************************************************************************)
EXTENDS Integers

CONSTANTS
  Base,   \* how many values a byte has: 256 in the program
  XLen,   \* bits in a word: 32 in the program
  Pow2,   \* the table of 2^s for every shift amount s (TLAPS knows no ^)
  BitAnd(_, _), BitOr(_, _), BitXor(_, _)   \* `&`, `|` and `^` on u32

ASSUME BaseAssumption == Base \in Nat /\ Base >= 2 /\ Base % 2 = 0

ASSUME XLenAssumption ==
  /\ XLen \in Nat \ {0}
  /\ Pow2 \in [0 .. XLen - 1 -> Nat \ {0}]
  /\ Pow2[0] = 1
  /\ \A s \in 0 .. XLen - 2 : Pow2[s + 1] = 2 * Pow2[s]
  /\ Base * Base * Base * Base = 2 * Pow2[XLen - 1]

Byte == 0 .. Base - 1
HalfMod == Base * Base
WordMod == Base * Base * Base * Base
Word == 0 .. WordMod - 1

ASSUME BitAssumption ==
  \A a, b \in Word :
    BitAnd(a, b) \in Word /\ BitOr(a, b) \in Word /\ BitXor(a, b) \in Word

(* `a ^ 0x8000_0000` flips the top bit. *)
ASSUME TopBitAssumption ==
  \A a \in Word :
    BitXor(a, WordMod \div 2) = IF a < WordMod \div 2 THEN a + WordMod \div 2
                                                   ELSE a - WordMod \div 2

(* `as u32`, wrapping_add, wrapping_sub, wrapping_mul: reduction mod 2^32. *)
Wrap(n) == n % WordMod

(* The reading of an unsigned v in 0 .. m-1 as a two's complement number.  *)
SignExtend(v, m) == IF v < m \div 2 THEN v ELSE v - m

(* Mutant: a comparison that forgets the cast to i32. *)
SignedUncast(a) == a

(* `as i32`. *)
Signed(a) == SignExtend(a, WordMod)

(* Byte i of a word, least significant first: (v >> (8 * i)) as u8. *)
ByteAt(v, i) ==
  CASE i = 0 -> v % Base
    [] i = 1 -> (v \div Base) % Base
    [] i = 2 -> (v \div HalfMod) % Base
    [] OTHER -> (v \div (HalfMod * Base)) % Base

(* bool as u32. *)
Truth(p) == IF p THEN 1 ELSE 0
=============================================================================
