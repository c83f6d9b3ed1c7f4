----------------------------- MODULE SortGuest -----------------------------
(***************************************************************************)
(* sort_and_checksum of guests/src/algorithms.rs: insertion sort in place, *)
(* ascending as i32, then a checksum over the result.  One action for each *)
(* iteration of a loop.                                                    *)
(***************************************************************************)
EXTENDS Words, FiniteSets

CONSTANTS
  Length,  \* 32 in the program
  Inputs   \* the arrays that may be sorted

Index == 0 .. Length - 1

ASSUME LengthAssumption == Length \in Nat \ {0}
ASSUME InputsAssumption == Inputs \subseteq [Index -> Word]

VARIABLES
  values,
  i,       \* the outer loop: values[0 .. i-1] are done
  j,       \* the inner loop: where the key would go
  key,
  phase,   \* "Outer", "Inner", "Sum", "Done"
  k,       \* the index of the checksum loop
  sum,
  input,   \* history: the array as it came
  moves    \* history: iterations of the inner loop

sortVars == <<values, i, j, key, phase, k, sum, input, moves>>

TakeKey ==
  /\ phase = "Outer" /\ i < Length
  /\ key' = values[i] /\ j' = i
  /\ phase' = "Inner"
  /\ UNCHANGED <<values, i, k, sum, input, moves>>

(* Mutant: compared as u32. *)
MustShiftUnsigned == j > 0 /\ values[j - 1] > key

(* Mutant: equal values are shifted past each other. *)
MustShiftEqual == j > 0 /\ Signed(values[j - 1]) >= Signed(key)

MustShift == j > 0 /\ Signed(values[j - 1]) > Signed(key)

Shift ==
  /\ phase = "Inner" /\ MustShift
  /\ values' = [values EXCEPT ![j] = values[j - 1]]
  /\ j' = j - 1
  /\ moves' = moves + 1
  /\ UNCHANGED <<i, key, phase, k, sum, input>>

(* Mutant: a key that goes to the front is not put back. *)
InsertUnlessFirst ==
  /\ phase = "Inner" /\ ~MustShift
  /\ values' = IF j > 0 THEN [values EXCEPT ![j] = key] ELSE values
  /\ i' = i + 1
  /\ phase' = "Outer"
  /\ UNCHANGED <<j, key, k, sum, input, moves>>

Insert ==
  /\ phase = "Inner" /\ ~MustShift
  /\ values' = [values EXCEPT ![j] = key]
  /\ i' = i + 1
  /\ phase' = "Outer"
  /\ UNCHANGED <<j, key, k, sum, input, moves>>

Sorted ==
  /\ phase = "Outer" /\ i >= Length
  /\ phase' = "Sum"
  /\ UNCHANGED <<values, i, j, key, k, sum, input, moves>>

Accumulate ==
  /\ phase = "Sum" /\ k < Length
  /\ sum' = Wrap(Wrap(sum * 31) + Wrap(values[k] * (k + 1)))
  /\ k' = k + 1
  /\ UNCHANGED <<values, i, j, key, phase, input, moves>>

Return ==
  /\ phase = "Sum" /\ k = Length
  /\ phase' = "Done"
  /\ UNCHANGED <<values, i, j, key, k, sum, input, moves>>

SortInit ==
  /\ input \in Inputs /\ values = input
  /\ i = 1 /\ j = 0 /\ key = 0 /\ moves = 0
  /\ phase = "Outer"
  /\ k = 0 /\ sum = 0

SortNext == TakeKey \/ Shift \/ Insert \/ Sorted \/ Accumulate \/ Return

SortSpec == SortInit /\ [][SortNext]_sortVars

(***************************************************************************)
(* Properties.                                                             *)
(***************************************************************************)

(* The array with the key back in the gap the inner loop has opened.       *)
Filled == IF phase = "Inner" THEN [values EXCEPT ![j] = key] ELSE values

(* At every step, also while the key is out of the array, the gap filled   *)
(* with the key is a permutation of the input: nothing is lost when an     *)
(* element is overwritten (algorithms.rs 45-53).                           *)
Permuted ==
  \A v \in {input[n] : n \in Index} :
    Cardinality({n \in Index : Filled[n] = v}) = Cardinality({n \in Index : input[n] = v})

(* The positions the outer loop is done with, except the gap.              *)
InDonePart(p) == IF phase = "Inner" THEN p <= i /\ p # j ELSE p < i

(* The done part is in order as i32, the gap notwithstanding, and what was *)
(* moved above the gap is greater than the key (algorithms.rs 45-53).      *)
InOrder ==
  /\ \A p, q \in Index :
       p < q /\ InDonePart(p) /\ InDonePart(q) => Signed(values[p]) <= Signed(values[q])
  /\ phase = "Inner" => \A p \in j + 1 .. i : Signed(values[p]) > Signed(key)

Inversions(a) ==
  {pair \in Index \X Index :
     pair[1] < pair[2] /\ Signed(a[pair[1]]) > Signed(a[pair[2]])}

(* Each move removes one inversion and none comes back, so the work is the *)
(* disorder of the input: what makes the step budget of the test enough    *)
(* (algorithms.rs 48-51, programs.rs 25).                                  *)
MovesAreInversions ==
  moves + Cardinality(Inversions(Filled)) = Cardinality(Inversions(input))

=============================================================================
