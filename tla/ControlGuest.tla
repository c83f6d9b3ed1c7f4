---------------------------- MODULE ControlGuest ----------------------------
(***************************************************************************)
(* control of guests/src/algorithms.rs: three loops whose trip counts      *)
(* depend on the seed - a Collatz walk with a cap, a nested loop, a walk   *)
(* over the bits.  One action for each iteration of an innermost loop.     *)
(***************************************************************************)
EXTENDS Words, FiniteSets

CONSTANTS
  Seeds,   \* the inputs
  Cap,     \* 5000 in the program
  Trips    \* 32 in the program: the values of `seed & 0x1f`

ASSUME ControlAssumption == Seeds \subseteq Word /\ Cap \in Nat /\ Trips \in Nat \ {0}

VARIABLES
  seed,
  stage,             \* "Collatz", "Nested", "Bits", "Done"
  n, steps,          \* the Collatz walk
  row, col, acc,     \* the nested loop: i, j, acc
  bit, ones, runs, previous

nestedVars == <<row, col, acc>>
bitVars == <<bit, ones, runs, previous>>
controlVars == <<seed, stage, n, steps, nestedVars, bitVars>>

CollatzStep(m) == IF m % 2 = 0 THEN m \div 2 ELSE 3 * m + 1

Walking == n # 1 /\ steps < Cap

Walk ==
  /\ stage = "Collatz" /\ Walking
  /\ n' = Wrap(CollatzStep(n))
  /\ steps' = steps + 1
  /\ UNCHANGED <<seed, stage, nestedVars, bitVars>>

Walked ==
  /\ stage = "Collatz" /\ ~Walking
  /\ stage' = "Nested"
  /\ UNCHANGED <<seed, n, steps, nestedVars, bitVars>>

Outer == (seed % Trips) + 1

(* Mutant: the inner index does not advance. *)
InnerStuck ==
  /\ stage = "Nested" /\ row < Outer /\ col < Outer
  /\ acc' = Wrap(acc + Wrap(Wrap(row * col) + 1))
  /\ UNCHANGED <<seed, stage, n, steps, row, col, bitVars>>

Inner ==
  /\ stage = "Nested" /\ row < Outer /\ col < Outer
  /\ acc' = Wrap(acc + Wrap(Wrap(row * col) + 1))
  /\ col' = col + 1
  /\ UNCHANGED <<seed, stage, n, steps, row, bitVars>>

(* Mutant: the inner index is not reset. *)
NextRowKeeping ==
  /\ stage = "Nested" /\ row < Outer /\ col >= Outer
  /\ row' = row + 1
  /\ UNCHANGED <<seed, stage, n, steps, col, acc, bitVars>>

NextRow ==
  /\ stage = "Nested" /\ row < Outer /\ col >= Outer
  /\ row' = row + 1 /\ col' = 0
  /\ UNCHANGED <<seed, stage, n, steps, acc, bitVars>>

Nested ==
  /\ stage = "Nested" /\ row >= Outer
  /\ stage' = "Bits"
  /\ UNCHANGED <<seed, n, steps, nestedVars, bitVars>>

IsSet(b) == (seed \div Pow2[b]) % 2 = 1

Look ==
  /\ stage = "Bits" /\ bit < XLen
  /\ ones' = ones + (IF IsSet(bit) THEN 1 ELSE 0)
  /\ runs' = runs + (IF IsSet(bit) /\ ~previous THEN 1 ELSE 0)
  /\ previous' = IsSet(bit)
  /\ bit' = bit + 1
  /\ UNCHANGED <<seed, stage, n, steps, nestedVars>>

Looked ==
  /\ stage = "Bits" /\ bit >= XLen
  /\ stage' = "Done"
  /\ UNCHANGED <<seed, n, steps, nestedVars, bitVars>>

ControlInit ==
  /\ seed \in Seeds
  /\ stage = "Collatz"
  /\ n = (IF seed = 0 THEN 1 ELSE seed) /\ steps = 0
  /\ row = 0 /\ col = 0 /\ acc = 0
  /\ bit = 0 /\ ones = 0 /\ runs = 0 /\ previous = FALSE

ControlNext == Walk \/ Walked \/ Inner \/ NextRow \/ Nested \/ Look \/ Looked

ControlSpec == ControlInit /\ [][ControlNext]_controlVars

(***************************************************************************)
(* Properties.                                                             *)
(***************************************************************************)

(* Closed forms of what the loops have added up, at every iteration: the   *)
(* accumulator of the nested loop, although it wraps, and for the walk     *)
(* over the bits the set bits below `bit` and, among them, those with no   *)
(* set bit just below (algorithms.rs 82-92, 96-112).                       *)
LoopsInClosedForm ==
  LET above == (row * (row - 1)) \div 2
      whole == (Outer * (Outer - 1)) \div 2
      part == (col * (col - 1)) \div 2
      set == {b \in 0 .. bit - 1 : IsSet(b)}
  IN /\ acc = Wrap(row * Outer + above * whole
                     + (IF row < Outer THEN col + row * part ELSE 0))
     /\ ones = Cardinality(set)
     /\ runs = Cardinality({b \in set : b - 1 \notin set})
=============================================================================
