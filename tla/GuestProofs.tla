---------------------------- MODULE GuestProofs ----------------------------
(***************************************************************************)
(* The two guests of algorithms.rs: the results on SortGuest, for every    *)
(* array of every length, and on ControlGuest, for every seed.             *)
(***************************************************************************)
EXTENDS SortGuest, ControlGuest, InstructionProofs, FiniteSetTheorems

(***************************************************************************)
(* Exchanging two neighbours of an array.                                  *)
(***************************************************************************)
(* Where an element goes. *)
Across(p, x) == IF x = p THEN p + 1 ELSE IF x = p + 1 THEN p ELSE x

Swapped(a, p) == [x \in Index |-> a[Across(p, x)]]

Count(a, v) == Cardinality({x \in Index : a[x] = v})

(* Exchanging twice is nothing. *)
LEMMA AcrossTwice ==
  ASSUME NEW p \in Index, p + 1 \in Index, NEW x \in Index
  PROVE  /\ Across(p, x) \in Index /\ Across(p, Across(p, x)) = x
  BY LengthAssumption DEF Across, Index

(* The positions are finitely many, and so are pairs of them. *)
LEMMA FinitePositions ==
  /\ \A S : S \subseteq Index => IsFiniteSet(S)
  /\ \A S : S \subseteq Index \X Index => IsFiniteSet(S)
  <1>1. IsFiniteSet(Index)
    <2>1. 0 \in Int /\ Length - 1 \in Int BY LengthAssumption
    <2> QED BY <2>1, FS_Interval DEF Index
  <1>2. IsFiniteSet(Index \X Index) BY <1>1, FS_Product
  <1>3. ASSUME NEW S, S \subseteq Index PROVE IsFiniteSet(S) BY <1>1, <1>3, FS_Subset
  <1>4. ASSUME NEW S, S \subseteq Index \X Index PROVE IsFiniteSet(S) BY <1>2, <1>4, FS_Subset
  <1> QED BY <1>3, <1>4

(* Sets with a map there and a map back have as many elements.             *)
LEMMA SameSize ==
  ASSUME NEW S, NEW T, IsFiniteSet(S), NEW f \in [S -> T], NEW g \in [T -> S],
         \A x \in S : g[f[x]] = x, \A y \in T : f[g[y]] = y
  PROVE  Cardinality(T) = Cardinality(S)
  <1>1. f \in Injection(S, T) BY DEF Injection, IsInjective
  <1>2. f \in Surjection(S, T) BY DEF Surjection
  <1>3. ExistsBijection(S, T) BY <1>1, <1>2 DEF ExistsBijection, Bijection
  <1> QED BY <1>3, FS_Bijection

(* Exchanging neighbours keeps every value as often as it was.             *)
LEMMA SwapCount ==
  ASSUME NEW a, NEW p \in Index, p + 1 \in Index, NEW v
  PROVE  Count(Swapped(a, p), v) = Count(a, v)
  <1> DEFINE S == {x \in Index : a[x] = v}
             T == {x \in Index : Swapped(a, p)[x] = v}
             f == [x \in S |-> Across(p, x)]
             g == [x \in T |-> Across(p, x)]
  <1>1. \A x \in Index : Swapped(a, p)[x] = a[Across(p, x)] BY DEF Swapped
  <1>2. \A x \in S : Across(p, x) \in T BY <1>1, AcrossTwice
  <1>3. \A x \in T : Across(p, x) \in S BY <1>1, AcrossTwice
  <1>4. IsFiniteSet(S) BY FinitePositions
  <1>5. \A x \in S \cup T : Across(p, Across(p, x)) = x BY AcrossTwice
  <1> HIDE DEF S, T
  <1>6. f \in [S -> T] /\ g \in [T -> S] BY <1>2, <1>3
  <1>7. (\A x \in S : g[f[x]] = x) /\ (\A y \in T : f[g[y]] = y) BY <1>2, <1>3, <1>5
  <1>8. Cardinality(T) = Cardinality(S)
    <2> HIDE DEF f, g
    <2> QED BY <1>4, <1>6, <1>7, SameSize
  <1> QED BY <1>8 DEF Count, S, T

(* Neighbours exchanged keep the order of every other pair. *)
LEMMA AcrossOrder ==
  ASSUME NEW p \in Index, p + 1 \in Index, NEW x \in Index, NEW y \in Index, x < y,
         ~(x = p /\ y = p + 1)
  PROVE  Across(p, x) < Across(p, y)
  BY LengthAssumption DEF Across, Index

(* Exchanging neighbours that are in the wrong order removes exactly the   *)
(* inversion they are.                                                     *)
LEMMA SwapInversions ==
  ASSUME NEW a \in [Index -> Word], NEW p \in Index, p + 1 \in Index,
         Signed(a[p]) > Signed(a[p + 1])
  PROVE  Cardinality(Inversions(a)) = Cardinality(Inversions(Swapped(a, p))) + 1
  <1> DEFINE b == Swapped(a, p)
             S == Inversions(a) \ {<<p, p + 1>>}
             T == Inversions(b)
             f == [z \in S |-> <<Across(p, z[1]), Across(p, z[2])>>]
             g == [z \in T |-> <<Across(p, z[1]), Across(p, z[2])>>]
  <1>0. \A x \in Index : x \in Int BY LengthAssumption DEF Index
  <1>1. \A x \in Index : /\ b[x] = a[Across(p, x)] /\ Across(p, x) \in Index
                         /\ Across(p, Across(p, x)) = x
    BY AcrossTwice DEF Swapped
  <1>2. \A x \in Index : a[x] \in Word /\ Signed(a[x]) \in Int BY SignedType
  <1>3. Across(p, p) = p + 1 /\ Across(p, p + 1) = p BY <1>0 DEF Across
  <1>4. <<p, p + 1>> \notin T
    <2>1. b[p] = a[p + 1] /\ b[p + 1] = a[p] BY <1>1, <1>3
    <2>2. ~(Signed(b[p]) > Signed(b[p + 1])) BY <1>2, <2>1
    <2> QED BY <2>2 DEF Inversions
  <1>5. ASSUME NEW z \in S
        PROVE  <<Across(p, z[1]), Across(p, z[2])>> \in T
    <2>1. PICK x \in Index, y \in Index : z = <<x, y>> /\ x < y /\ Signed(a[x]) > Signed(a[y])
      BY DEF Inversions
    <2>2. ~(x = p /\ y = p + 1) BY <2>1
    <2>3. Across(p, x) < Across(p, y) BY <2>1, <2>2, AcrossOrder
    <2>4. b[Across(p, x)] = a[x] /\ b[Across(p, y)] = a[y] BY <1>1
    <2> HIDE DEF b
    <2> QED BY <1>1, <2>1, <2>3, <2>4 DEF Inversions
  <1>6. ASSUME NEW z \in T
        PROVE  <<Across(p, z[1]), Across(p, z[2])>> \in S
    <2>1. PICK x \in Index, y \in Index : z = <<x, y>> /\ x < y /\ Signed(b[x]) > Signed(b[y])
      BY DEF Inversions
    <2>2. ~(x = p /\ y = p + 1) BY <1>4, <2>1
    <2>3. Across(p, x) < Across(p, y) BY <2>1, <2>2, AcrossOrder
    <2>4. Signed(a[Across(p, x)]) > Signed(a[Across(p, y)]) BY <1>1, <2>1
    <2>5. <<Across(p, x), Across(p, y)>> \in Inversions(a) BY <1>1, <2>3, <2>4 DEF Inversions
    <2>6. <<Across(p, x), Across(p, y)>> # <<p, p + 1>>
      <3>1. SUFFICES ASSUME Across(p, x) = p, Across(p, y) = p + 1 PROVE FALSE OBVIOUS
      <3>2. x = p + 1 /\ y = p BY <1>1, <1>3, <3>1
      <3> QED BY <1>0, <2>1, <3>2
    <2> QED BY <2>1, <2>5, <2>6
  <1>7. /\ \A z \in S : /\ z = <<z[1], z[2]>>
                        /\ Across(p, Across(p, z[1])) = z[1] /\ Across(p, Across(p, z[2])) = z[2]
        /\ \A z \in T : /\ z = <<z[1], z[2]>>
                        /\ Across(p, Across(p, z[1])) = z[1] /\ Across(p, Across(p, z[2])) = z[2]
    BY AcrossTwice DEF Inversions
  <1>8. /\ IsFiniteSet(S) /\ IsFiniteSet(Inversions(a)) /\ <<p, p + 1>> \in Inversions(a)
    BY <1>0, FinitePositions DEF Inversions
  <1>9. Cardinality(S) = Cardinality(Inversions(a)) - 1 BY <1>8, FS_RemoveElement
  <1>10. Cardinality(T) = Cardinality(S)
    <2> HIDE DEF S, T
    <2>1. f \in [S -> T] /\ g \in [T -> S] BY <1>5, <1>6
    <2>2. (\A z \in S : g[f[z]] = z) /\ (\A z \in T : f[g[z]] = z)
      BY <1>5, <1>6, <1>7
    <2> HIDE DEF f, g
    <2> QED BY <1>8, <2>1, <2>2, SameSize
  <1>11. Cardinality(Inversions(a)) \in Nat BY <1>8, FS_CardinalityType
  <1> QED BY <1>9, <1>10, <1>11

(***************************************************************************)
(* The sort.                                                               *)
(***************************************************************************)
SortTypes ==
  /\ values \in [Index -> Word] /\ input \in [Index -> Word]
  /\ key \in Word /\ sum \in Word
  /\ i \in Nat /\ j \in Nat /\ k \in Nat /\ moves \in Nat
  /\ i >= 1
  /\ phase \in {"Outer", "Inner", "Sum", "Done"}
  /\ phase = "Inner" => i < Length /\ j <= i

(* Permuted, said of every value rather than of the input's.               *)
SameValues == \A v : Count(Filled, v) = Count(input, v)

SortInv == SortTypes /\ InOrder /\ SameValues /\ MovesAreInversions

(* The array with the key in the gap is an array of words.                 *)
LEMMA FilledFacts ==
  ASSUME SortTypes
  PROVE  /\ Filled \in [Index -> Word]
         /\ phase # "Inner" => Filled = values
         /\ phase = "Inner" =>
              /\ j \in Index
              /\ \A x \in Index : Filled[x] = IF x = j THEN key ELSE values[x]
  <1>1. phase = "Inner" => j \in Index BY LengthAssumption DEF SortTypes, Index
  <1> QED BY <1>1 DEF SortTypes, Filled

(* The outer loop takes the key out: the gap is where the key was.         *)
LEMMA TakeKeyStep ==
  ASSUME SortInv, TakeKey
  PROVE  SortInv'
  <1> USE DEF SortInv, TakeKey
  <1>1. i \in Index BY LengthAssumption DEF SortTypes, Index
  <1>2. SortTypes' BY <1>1 DEF SortTypes
  <1>3. Filled' = Filled
    <2>1. Filled = values BY FilledFacts
    <2>2. Filled' = [values EXCEPT ![i] = values[i]] BY DEF Filled
    <2> QED BY <1>1, <2>1, <2>2 DEF SortTypes
  <1>4. InOrder'
    <2>1. ASSUME NEW p \in Index, NEW q \in Index, p < q, InDonePart(p)', InDonePart(q)'
          PROVE  (Signed(values[p]) <= Signed(values[q]))'
      <3>1. p \in Int /\ q \in Int /\ i \in Int BY LengthAssumption DEF Index, SortTypes
      <3>2. InDonePart(p) /\ InDonePart(q) BY <2>1, <3>1 DEF InDonePart
      <3> QED BY <2>1, <3>2 DEF InOrder
    <2>2. \A p \in j' + 1 .. i' : FALSE BY DEF SortTypes
    <2> QED BY <2>1, <2>2 DEF InOrder
  <1>5. SameValues' /\ MovesAreInversions' BY <1>3 DEF SameValues, MovesAreInversions
  <1> QED BY <1>2, <1>4, <1>5

(* The inner loop moves the gap down past a greater value: with the key in *)
(* the gap, two neighbours in the wrong order have changed places.         *)
LEMMA ShiftStep ==
  ASSUME SortInv, Shift
  PROVE  SortInv'
  <1> USE DEF SortInv, Shift
  <1>1. /\ j \in Index /\ j - 1 \in Index /\ j - 1 + 1 = j /\ j \in Int /\ i \in Int
        /\ Signed(values[j - 1]) > Signed(key)
    BY LengthAssumption DEF SortTypes, Index, MustShift
  <1>2. \A x \in Index : values'[x] = IF x = j THEN values[j - 1] ELSE values[x]
    BY DEF SortTypes
  <1>3. SortTypes'
    <2>1. values[j - 1] \in Word BY <1>1 DEF SortTypes
    <2>2. values' \in [Index -> Word] BY <1>1, <2>1 DEF SortTypes
    <2>3. j' \in Nat /\ moves' \in Nat /\ j' <= i BY <1>1 DEF SortTypes, Index
    <2> QED BY <2>2, <2>3 DEF SortTypes
  <1>4. Filled' = Swapped(Filled, j - 1)
    <2>1. Filled' = [x \in Index |-> Filled'[x]] BY <1>3 DEF Filled, SortTypes
    <2>2. \A x \in Index : Filled'[x] = IF x = j - 1 THEN key ELSE values'[x]
      BY <1>1 DEF Filled, SortTypes
    <2>3. ASSUME NEW x \in Index
          PROVE  Filled'[x] = Filled[Across(j - 1, x)]
      <3>1. x \in Int BY LengthAssumption DEF Index
      <3>2. \A y \in Index : Filled[y] = IF y = j THEN key ELSE values[y] BY FilledFacts
      <3> QED BY <1>1, <1>2, <2>2, <3>1, <3>2 DEF Across
    <2> QED BY <2>1, <2>3 DEF Swapped
  <1>5. InOrder'
    <2>1. ASSUME NEW p \in Index, NEW q \in Index, p < q, InDonePart(p)', InDonePart(q)'
          PROVE  (Signed(values[p]) <= Signed(values[q]))'
      <3>1. p \in Int /\ q \in Int BY LengthAssumption DEF Index
      <3>2. p <= i /\ q <= i /\ p # j - 1 /\ q # j - 1 BY <2>1 DEF InDonePart
      <3>3. \A x \in Index, y \in Index :
               x < y /\ x <= i /\ x # j /\ y <= i /\ y # j
                 => Signed(values[x]) <= Signed(values[y])
        BY DEF InOrder, InDonePart
      <3>4. CASE p = j BY <1>1, <1>2, <2>1, <3>1, <3>2, <3>3, <3>4
      <3>5. CASE q = j BY <1>1, <1>2, <2>1, <3>1, <3>2, <3>3, <3>5
      <3>6. CASE p # j /\ q # j BY <1>1, <1>2, <2>1, <3>1, <3>2, <3>3, <3>6
      <3> QED BY <3>4, <3>5, <3>6
    <2>2. ASSUME NEW p \in j' + 1 .. i'
          PROVE  (Signed(values[p]) > Signed(key))'
      <3>1. p \in Int /\ p >= j /\ p <= i BY <1>1
      <3>2. p \in Index BY <1>1, <3>1, LengthAssumption DEF Index, SortTypes
      <3>3. CASE p = j BY <1>1, <1>2, <3>3
      <3>4. CASE p # j
        <4>1. p \in j + 1 .. i BY <1>1, <3>1, <3>4
        <4> QED BY <1>2, <3>2, <3>4, <4>1 DEF InOrder
      <3> QED BY <3>3, <3>4
    <2> QED BY <2>1, <2>2 DEF InOrder
  <1>6. \A v : Count(Swapped(Filled, j - 1), v) = Count(Filled, v) BY <1>1, SwapCount
  <1>7. SameValues' BY <1>4, <1>6 DEF SameValues
  <1>8. MovesAreInversions'
    <2>1. Filled \in [Index -> Word] BY FilledFacts
    <2>2. Filled[j - 1] = values[j - 1] /\ Filled[j] = key BY <1>1, FilledFacts
    <2>3. Cardinality(Inversions(Filled)) = Cardinality(Inversions(Swapped(Filled, j - 1))) + 1
      BY <1>1, <2>1, <2>2, SwapInversions
    <2>4. PICK was : was = Cardinality(Inversions(Filled)) OBVIOUS
    <2>5. PICK is : is = Cardinality(Inversions(Filled')) OBVIOUS
    <2>6. was \in Nat /\ is \in Nat
      BY <2>4, <2>5, FinitePositions, FS_CardinalityType DEF Inversions
    <2>7. was = is + 1 BY <1>4, <2>3, <2>4, <2>5
    <2>8. moves + was = Cardinality(Inversions(input)) BY <2>4 DEF MovesAreInversions
    <2>9. moves \in Nat /\ moves' = moves + 1 /\ input' = input BY DEF SortTypes
    <2>10. moves' + is = Cardinality(Inversions(input)) BY <2>6, <2>7, <2>8, <2>9
    <2>11. Inversions(input)' = Inversions(input') /\ Inversions(Filled)' = Inversions(Filled')
      BY DEF Inversions
    <2> QED BY <2>5, <2>9, <2>10, <2>11 DEF MovesAreInversions
  <1> QED BY <1>3, <1>5, <1>7, <1>8

(* The key goes into the gap, and the done part has one element more.      *)
LEMMA InsertStep ==
  ASSUME SortInv, Insert
  PROVE  SortInv'
  <1> USE DEF SortInv, Insert
  <1>1. /\ j \in Index /\ j \in Int /\ i \in Int /\ j <= i
        /\ j > 0 => j - 1 \in Index
    BY LengthAssumption DEF SortTypes, Index
  <1>2. \A x \in Index : values'[x] = IF x = j THEN key ELSE values[x]
    BY DEF SortTypes
  <1>3. SortTypes' BY <1>1 DEF SortTypes
  <1>4. Filled' = Filled BY DEF Filled
  <1>5. InOrder'
    <2>1. ASSUME NEW p \in Index, NEW q \in Index, p < q, InDonePart(p)', InDonePart(q)'
          PROVE  (Signed(values[p]) <= Signed(values[q]))'
      <3>1. p \in Int /\ q \in Int BY LengthAssumption DEF Index
      <3>2. p <= i /\ q <= i BY <1>1, <2>1, <3>1 DEF InDonePart
      <3>3. \A x \in Index, y \in Index :
               x < y /\ x <= i /\ x # j /\ y <= i /\ y # j
                 => Signed(values[x]) <= Signed(values[y])
        BY DEF InOrder, InDonePart
      <3>4. \A x \in Index : values[x] \in Word /\ Signed(values[x]) \in Int
        BY SignedType DEF SortTypes
      <3>5. Signed(key) \in Int BY SignedType DEF SortTypes
      <3>6. CASE p = j
        <4>1. q \in j + 1 .. i BY <1>1, <2>1, <3>1, <3>2, <3>6
        <4>2. Signed(values[q]) > Signed(key) BY <4>1 DEF InOrder
        <4> QED BY <1>2, <2>1, <3>1, <3>4, <3>5, <3>6, <4>2
      <3>7. CASE q = j
        <4>1. j > 0 /\ j - 1 \in Index
          BY <1>1, <2>1, <3>1, <3>7, LengthAssumption DEF Index
        <4>2. Signed(values[j - 1]) <= Signed(key)
          BY <3>4, <3>5, <4>1 DEF MustShift
        <4>3. Signed(values[p]) <= Signed(values[j - 1])
          <5>1. CASE p = j - 1 BY <3>4, <4>1, <5>1
          <5>2. CASE p # j - 1 BY <1>1, <2>1, <3>1, <3>2, <3>3, <3>7, <4>1, <5>2
          <5> QED BY <5>1, <5>2
        <4> QED BY <1>2, <2>1, <3>1, <3>4, <3>5, <3>7, <4>1, <4>2, <4>3
      <3>8. CASE p # j /\ q # j BY <1>2, <2>1, <3>2, <3>3, <3>8
      <3> QED BY <3>6, <3>7, <3>8
    <2> QED BY <2>1 DEF InOrder
  <1>6. SameValues' /\ MovesAreInversions' BY <1>4 DEF SameValues, MovesAreInversions
  <1> QED BY <1>3, <1>5, <1>6

(* What the loops leave alone keeps the invariant. *)
LEMMA SortUnchanged ==
  ASSUME SortInv, SortTypes', UNCHANGED <<values, i, input, moves>>,
         phase # "Inner", phase' # "Inner"
  PROVE  SortInv'
  BY DEF SortInv, InOrder, InDonePart, SameValues, MovesAreInversions, Filled, Count, Inversions

(* The checksum loop and the ends of the loops touch nothing of that.      *)
LEMMA ChecksumSteps ==
  ASSUME SortInv, Sorted \/ Accumulate \/ Return
  PROVE  SortInv'
  <1>1. CASE Sorted
    <2>1. SortTypes' BY <1>1 DEF SortInv, SortTypes, Sorted
    <2> QED BY <1>1, <2>1, SortUnchanged DEF Sorted
  <1>2. CASE Accumulate
    <2>1. k \in Index BY <1>2, LengthAssumption DEF SortInv, SortTypes, Accumulate, Index
    <2>2. sum' \in Word
      <3>1. sum * 31 \in Int /\ values[k] * (k + 1) \in Int
        BY <2>1, WordModType DEF SortInv, SortTypes, Index, Word
      <3>2. Wrap(sum * 31) \in Word /\ Wrap(values[k] * (k + 1)) \in Word BY <3>1, WrapType
      <3>3. Wrap(sum * 31) + Wrap(values[k] * (k + 1)) \in Int BY <3>2, WordModType DEF Word
      <3> QED BY <1>2, <3>3, WrapType DEF Accumulate
    <2>3. SortTypes' BY <1>2, <2>2 DEF SortInv, SortTypes, Accumulate
    <2> QED BY <1>2, <2>3, SortUnchanged DEF Accumulate
  <1>3. CASE Return
    <2>1. SortTypes' BY <1>3 DEF SortInv, SortTypes, Return
    <2> QED BY <1>3, <2>1, SortUnchanged DEF Return
  <1> QED BY <1>1, <1>2, <1>3

(* Every step of the sort keeps the invariant. *)
THEOREM SortSafety == SortSpec => []SortInv
  <1>1. SortInit => SortInv
    <2>1. SUFFICES ASSUME SortInit PROVE SortInv OBVIOUS
    <2>2. SortTypes
      <3>1. 0 \in Word BY WordModType DEF Word
      <3> QED BY <2>1, <3>1, InputsAssumption DEF SortInit, SortTypes
    <2>3. Filled = input BY <2>1 DEF SortInit, Filled
    <2>4. InOrder BY <2>1, LengthAssumption DEF SortInit, InOrder, InDonePart, Index
    <2>5. MovesAreInversions
      <3>1. Cardinality(Inversions(input)) \in Nat
        BY FinitePositions, FS_CardinalityType DEF Inversions
      <3> QED BY <2>1, <2>3, <3>1 DEF SortInit, MovesAreInversions
    <2> QED BY <2>2, <2>3, <2>4, <2>5 DEF SortInv, SameValues
  <1>2. SortInv /\ [SortNext]_sortVars => SortInv'
    <2>1. SUFFICES ASSUME SortInv, [SortNext]_sortVars PROVE SortInv' OBVIOUS
    <2>2. CASE TakeKey BY <2>1, <2>2, TakeKeyStep
    <2>3. CASE Shift BY <2>1, <2>3, ShiftStep
    <2>4. CASE Insert BY <2>1, <2>4, InsertStep
    <2>5. CASE Sorted \/ Accumulate \/ Return BY <2>1, <2>5, ChecksumSteps
    <2>6. CASE UNCHANGED sortVars
      <3> USE <2>6 DEF sortVars
      <3>1. SortTypes' BY <2>1 DEF SortInv, SortTypes
      <3>2. InOrder' BY <2>1 DEF SortInv, InOrder, InDonePart
      <3>3. Filled' = Filled BY DEF Filled
      <3>4. SameValues' BY <2>1, <3>3 DEF SortInv, SameValues
      <3>5. MovesAreInversions' BY <2>1, <3>3 DEF SortInv, MovesAreInversions
      <3> QED BY <3>1, <3>2, <3>4, <3>5 DEF SortInv
    <2> QED BY <2>1, <2>2, <2>3, <2>4, <2>5, <2>6 DEF SortNext
  <1> QED BY <1>1, <1>2, PTL DEF SortSpec

(* The done part is in order as i32 at every step, for arrays of every     *)
(* length (algorithms.rs 45-53).                                           *)
THEOREM SortIsInOrder == SortSpec => []InOrder
  <1>1. SortInv => InOrder BY DEF SortInv
  <1> QED BY <1>1, SortSafety, PTL

(* Nothing is lost or doubled at any step (algorithms.rs 45-53).           *)
THEOREM SortPermutes == SortSpec => []Permuted
  <1>1. SortInv => Permuted BY DEF SortInv, SameValues, Permuted, Count
  <1> QED BY <1>1, SortSafety, PTL

(* The moves made and the inversions left add up to the disorder of the    *)
(* input (algorithms.rs 48-51, programs.rs 25).                            *)
THEOREM SortWork == SortSpec => []MovesAreInversions
  <1>1. SortInv => MovesAreInversions BY DEF SortInv
  <1> QED BY <1>1, SortSafety, PTL

(* What is left of the sort: the phase, the elements to take, and the way  *)
(* the key may still go down.                                              *)
SortLeft ==
  CASE phase = "Outer" -> <<2, <<ToGo(i, Length), i + 1>>>>
    [] phase = "Inner" -> <<2, <<ToGo(i, Length), j>>>>
    [] phase = "Sum" -> <<1, <<ToGo(k, Length), 0>>>>
    [] phase = "Done" -> <<0, <<0, 0>>>>

(* Each step of the sort leaves less to do, whatever the values compare    *)
(* like, so it returns (algorithms.rs 44-64).                              *)
THEOREM SortDescends == SortSpec => [][TripleDescends(SortLeft', SortLeft)]_sortVars
  <1>1. SortInv /\ [SortNext]_sortVars => [TripleDescends(SortLeft', SortLeft)]_sortVars
    <2> SUFFICES ASSUME SortInv, SortNext PROVE TripleDescends(SortLeft', SortLeft)
      OBVIOUS
    <2>1. /\ i \in Nat /\ j \in Nat /\ k \in Nat /\ Length \in Nat /\ i + 1 \in Nat
          /\ phase = "Inner" => i < Length /\ j <= i
      BY LengthAssumption DEF SortInv, SortTypes
    <2>2. /\ ToGo(i, Length) \in Nat /\ ToGo(k, Length) \in Nat
          /\ i < Length => ToGo(i + 1, Length) < ToGo(i, Length)
          /\ k < Length => ToGo(k + 1, Length) < ToGo(k, Length)
          /\ ToGo(i + 1, Length) \in Nat /\ ToGo(k + 1, Length) \in Nat
      <3>1. i + 1 \in Nat /\ k + 1 \in Nat BY <2>1
      <3> QED BY <2>1, <3>1, ToGoFacts
    <2>3. CASE TakeKey
      <3>1. SortLeft = <<2, <<ToGo(i, Length), i + 1>>>>
            /\ SortLeft' = <<2, <<ToGo(i, Length), i>>>>
        BY <2>3 DEF TakeKey, SortLeft, ToGo
      <3>2. i < i + 1 /\ 2 \in Nat BY <2>1
      <3> QED BY <2>1, <2>2, <3>1, <3>2, TripleLower
    <2>4. CASE Shift
      <3>1. j > 0 /\ SortLeft = <<2, <<ToGo(i, Length), j>>>>
            /\ SortLeft' = <<2, <<ToGo(i, Length), j - 1>>>>
        BY <2>4 DEF Shift, MustShift, SortLeft, ToGo
      <3>2. j - 1 \in Nat /\ j - 1 < j BY <2>1, <3>1
      <3> QED BY <2>1, <2>2, <3>1, <3>2, TripleLower
    <2>5. CASE Insert
      <3>1. i < Length /\ SortLeft = <<2, <<ToGo(i, Length), j>>>>
            /\ SortLeft' = <<2, <<ToGo(i + 1, Length), (i + 1) + 1>>>>
        BY <2>1, <2>5 DEF Insert, SortLeft, ToGo
      <3>2. (i + 1) + 1 \in Nat BY <2>1
      <3> QED BY <2>1, <2>2, <3>1, <3>2, TripleLower
    <2>6. CASE Sorted
      <3>1. SortLeft = <<2, <<ToGo(i, Length), i + 1>>>>
            /\ SortLeft' = <<1, <<ToGo(k, Length), 0>>>>
        BY <2>6 DEF Sorted, SortLeft, ToGo
      <3>2. {0, 1, 2} \subseteq Nat /\ 0 < 1 /\ 1 < 2 OBVIOUS
      <3> QED BY <2>1, <2>2, <3>1, <3>2, TripleLower
    <2>7. CASE Accumulate
      <3>1. k < Length /\ SortLeft = <<1, <<ToGo(k, Length), 0>>>>
            /\ SortLeft' = <<1, <<ToGo(k + 1, Length), 0>>>>
        BY <2>7 DEF Accumulate, SortLeft, ToGo
      <3> QED BY <2>1, <2>2, <3>1, TripleLower
    <2>8. CASE Return
      <3>1. SortLeft = <<1, <<ToGo(k, Length), 0>>>> /\ SortLeft' = <<0, <<0, 0>>>>
        BY <2>8 DEF Return, SortLeft
      <3>2. {0, 1, 2} \subseteq Nat /\ 0 < 1 /\ 1 < 2 OBVIOUS
      <3> QED BY <2>1, <2>2, <3>1, <3>2, TripleLower
    <2> QED BY <2>3, <2>4, <2>5, <2>6, <2>7, <2>8 DEF SortNext
  <1> QED BY <1>1, SortSafety, PTL DEF SortSpec

(***************************************************************************)
(* The three loops.                                                        *)
(***************************************************************************)
Triangle(m) == (m * (m - 1)) \div 2

Accumulated ==
  row * Outer + Triangle(row) * Triangle(Outer)
    + (IF row < Outer THEN col + row * Triangle(col) ELSE 0)

SetBelow(b) == {x \in 0 .. b - 1 : IsSet(x)}
RunsBelow(b) == {x \in SetBelow(b) : x - 1 \notin SetBelow(b)}

ControlTypes ==
  /\ seed \in Word /\ n \in Word
  /\ stage \in {"Collatz", "Nested", "Bits", "Done"}
  /\ steps \in Nat /\ row \in Nat /\ col \in Nat /\ ones \in Nat /\ runs \in Nat
  /\ acc \in Word
  /\ bit \in Nat
  /\ previous \in BOOLEAN

(* What the loops rely on: the inner index stays within the inner loop,    *)
(* and `previous` is the bit just below.                                   *)
ControlInv ==
  /\ ControlTypes
  /\ row < Outer => col <= Outer
  /\ previous <=> bit > 0 /\ IsSet(bit - 1)
  /\ acc = Wrap(Accumulated)
  /\ ones = Cardinality(SetBelow(bit)) /\ runs = Cardinality(RunsBelow(bit))

(* A triangle number is an integer, and the next one adds its row.         *)
LEMMA NextTriangle ==
  ASSUME NEW m \in Nat
  PROVE  /\ Triangle(m) \in Int /\ Triangle(m + 1) = Triangle(m) + m
         /\ Triangle(0) = 0
  <1>1. PICK p \in Int : p = m * (m - 1) OBVIOUS
  <1>2. (m + 1) * ((m + 1) - 1) = p + 2 * m
    <2>1. (m + 1) - 1 = m OBVIOUS
    <2>2. (m + 1) * m = m * (m - 1) + 2 * m OBVIOUS
    <2> QED BY <1>1, <2>1, <2>2
  <1>3. (p + 2 * m) \div 2 = p \div 2 + m /\ p \div 2 \in Int BY <1>1
  <1>4. (0 * (0 - 1)) \div 2 = 0 OBVIOUS
  <1> QED BY <1>1, <1>2, <1>3, <1>4 DEF Triangle

(* A sum may be wrapped term by term. *)
LEMMA WrapTerm ==
  ASSUME NEW a \in Int, NEW b \in Int
  PROVE  Wrap(Wrap(a) + b) = Wrap(a + b) /\ Wrap(a + Wrap(b)) = Wrap(a + b)
  <1>1. PICK w \in Nat \ {0} : w = WordMod BY WordModType
  <1>2. PICK q \in Int : q = a \div WordMod BY <1>1
  <1>3. PICK r \in Int : r = b \div WordMod BY <1>1
  <1>4. PICK s \in Int : s = Wrap(a) BY <1>1 DEF Wrap
  <1>5. PICK t \in Int : t = Wrap(b) BY <1>1 DEF Wrap
  <1>6. a = WordMod * q + s BY <1>1, <1>2, <1>4, DivMod DEF Wrap
  <1>7. b = WordMod * r + t BY <1>1, <1>3, <1>5, DivMod DEF Wrap
  <1>8. Wrap((s + b) + WordMod * q) = Wrap(s + b) BY WrapShift
  <1>9. Wrap((a + t) + WordMod * r) = Wrap(a + t) BY WrapShift
  <1>10. WordMod * q \in Int /\ WordMod * r \in Int BY <1>1
  <1>11. (s + b) + WordMod * q = a + b BY <1>6, <1>10
  <1>12. (a + t) + WordMod * r = a + b BY <1>7, <1>10
  <1> QED BY <1>4, <1>5, <1>8, <1>9, <1>11, <1>12

(* The trip count of the nested loop. *)
LEMMA OuterType == ASSUME seed \in Word PROVE Outer \in Nat \ {0}
  <1>1. seed \in Int /\ Trips \in Nat \ {0} BY WordInt, ControlAssumption
  <1>2. seed % Trips \in 0 .. Trips - 1 BY <1>1, DivMod
  <1> QED BY <1>1, <1>2 DEF Outer

(* One iteration of the nested loop adds row * col + 1 to the closed form. *)
LEMMA InnerStep ==
  ASSUME ControlInv, Inner
  PROVE  ControlInv'
  <1> USE DEF ControlInv, Inner
  <1>1. /\ row \in Nat /\ col \in Nat /\ Outer \in Nat \ {0} /\ Outer' = Outer
        /\ row < Outer /\ col < Outer /\ row' = row /\ col' = col + 1
    BY OuterType DEF ControlTypes, Outer
  <1>2. PICK x \in Int : x = row * Outer BY <1>1
  <1>3. PICK y \in Int : y = Triangle(row) * Triangle(Outer)
    <2>1. Triangle(row) \in Int /\ Triangle(Outer) \in Int BY <1>1, NextTriangle
    <2> QED BY <2>1
  <1>4. PICK t \in Int : t = Triangle(col) BY <1>1, NextTriangle
  <1>5. PICK z \in Int : z = row * t BY <1>1
  <1>6. PICK p \in Int : p = row * col BY <1>1
  <1>7. Triangle(col') = t + col BY <1>1, <1>4, NextTriangle
  <1>8. row * (t + col) = z + p BY <1>1, <1>5, <1>6
  <1>9. Accumulated = x + y + (col + z)
    BY <1>1, <1>2, <1>3, <1>4, <1>5 DEF Accumulated
  <1>10. Accumulated' = x + y + ((col + 1) + (z + p))
    BY <1>1, <1>2, <1>3, <1>7, <1>8 DEF Accumulated, Triangle
  <1>11. Accumulated \in Int /\ Accumulated' = Accumulated + (p + 1)
    BY <1>1, <1>9, <1>10
  <1>12. Wrap(Wrap(p) + 1) = Wrap(p + 1) BY WrapTerm
  <1>13. acc' = Wrap(Wrap(Accumulated) + Wrap(p + 1)) BY <1>6, <1>12
  <1>14. Wrap(Wrap(Accumulated) + Wrap(p + 1)) = Wrap(Accumulated')
    <2>1. Wrap(p + 1) \in Int BY WrapType, WordModType DEF Word
    <2> QED BY <1>11, <2>1, WrapTerm
  <1>15. acc' = Wrap(Accumulated)'
    BY <1>13, <1>14 DEF Wrap
  <1>16. acc' \in Word BY <1>11, <1>13, <1>14, WrapType
  <1>17. ControlTypes' BY <1>1, <1>16 DEF ControlTypes, bitVars
  <1>18. col' <= Outer' BY <1>1
  <1>19. UNCHANGED <<seed, bit, ones, runs, previous>> BY DEF bitVars
  <1> QED BY <1>15, <1>17, <1>18, <1>19 DEF SetBelow, RunsBelow, IsSet

(* A row is over when the inner index has reached the end: what the row    *)
(* has added is what the closed form counts for it.                        *)
LEMMA NextRowStep ==
  ASSUME ControlInv, NextRow
  PROVE  ControlInv'
  <1> USE DEF ControlInv, NextRow
  <1>1. /\ row \in Nat /\ col = Outer /\ Outer \in Nat \ {0} /\ Outer' = Outer
        /\ row < Outer /\ row' = row + 1 /\ col' = 0
    BY OuterType DEF ControlTypes, Outer
  <1>2. PICK x \in Int : x = row * Outer BY <1>1
  <1>3. PICK s \in Int : s = Triangle(row) BY <1>1, NextTriangle
  <1>4. PICK t \in Int : t = Triangle(Outer) BY <1>1, NextTriangle
  <1>5. PICK y \in Int : y = s * t OBVIOUS
  <1>6. PICK z \in Int : z = row * t BY <1>1
  <1>7. Triangle(row') = s + row BY <1>1, <1>3, NextTriangle
  <1>8. row' * Outer = x + Outer BY <1>1, <1>2
  <1>9. (s + row) * t = y + z BY <1>1, <1>5, <1>6
  <1>10. Accumulated = x + y + (Outer + z)
    BY <1>1, <1>2, <1>3, <1>4, <1>5, <1>6 DEF Accumulated
  <1>11. (IF row' < Outer THEN col' + row' * Triangle(col') ELSE 0) = 0
    BY <1>1, NextTriangle
  <1>12. Accumulated' = row' * Outer + Triangle(row') * t
                         + (IF row' < Outer THEN col' + row' * Triangle(col') ELSE 0)
    BY <1>1, <1>4 DEF Accumulated, Triangle
  <1>13. Accumulated' = (x + Outer) + (y + z) + 0
    BY <1>7, <1>8, <1>9, <1>11, <1>12
  <1>14. Accumulated' = Accumulated BY <1>1, <1>10, <1>13
  <1>15. ControlTypes' BY <1>1 DEF ControlTypes, bitVars
  <1>16. acc' = Wrap(Accumulated)' BY <1>14 DEF Wrap
  <1>17. UNCHANGED <<seed, bit, ones, runs, previous>> BY DEF bitVars
  <1> QED BY <1>1, <1>15, <1>16, <1>17 DEF SetBelow, RunsBelow, IsSet

(* A look at a bit counts it, and counts a run where one begins.           *)
LEMMA LookStep ==
  ASSUME ControlInv, Look
  PROVE  ControlInv'
  <1> USE DEF ControlInv, Look
  <1>1. bit \in Nat /\ bit' = bit + 1 /\ ones \in Nat /\ runs \in Nat BY DEF ControlTypes
  <1> DEFINE S == SetBelow(bit)
             R == RunsBelow(bit)
  <1>2. SetBelow(bit + 1) = IF IsSet(bit) THEN S \cup {bit} ELSE S
    BY <1>1 DEF SetBelow
  <1>3. bit \notin S /\ S \subseteq 0 .. bit BY <1>1 DEF SetBelow
  <1>4. RunsBelow(bit + 1) = IF IsSet(bit) /\ ~previous THEN R \cup {bit} ELSE R
    BY <1>1 DEF RunsBelow, SetBelow
  <1>5. bit \notin R /\ R \subseteq S BY <1>3 DEF RunsBelow
  <1>6. IsFiniteSet(S) /\ IsFiniteSet(R)
    <2>1. IsFiniteSet(0 .. bit) BY <1>1, FS_Interval
    <2> QED BY <1>3, <1>5, <2>1, FS_Subset
  <1>7. Cardinality(S \cup {bit}) = Cardinality(S) + 1 BY <1>3, <1>6, FS_AddElement
  <1>8. Cardinality(R \cup {bit}) = Cardinality(R) + 1 BY <1>5, <1>6, FS_AddElement
  <1>9. ones' = Cardinality(SetBelow(bit + 1)) BY <1>1, <1>2, <1>7
  <1>10. runs' = Cardinality(RunsBelow(bit + 1)) BY <1>1, <1>4, <1>8
  <1>11. ControlTypes' BY <1>1 DEF ControlTypes, nestedVars, IsSet
  <1>12. previous' <=> bit' > 0 /\ IsSet(bit' - 1) BY <1>1
  <1>13. UNCHANGED <<seed, row, col, acc>> BY DEF nestedVars
  <1>14. (ones = Cardinality(SetBelow(bit)) /\ runs = Cardinality(RunsBelow(bit)))'
    BY <1>1, <1>9, <1>10, <1>13 DEF SetBelow, RunsBelow, IsSet
  <1>15. (previous <=> bit > 0 /\ IsSet(bit - 1))' BY <1>12, <1>13 DEF IsSet
  <1>16. (acc = Wrap(Accumulated))' /\ (row < Outer => col <= Outer)'
    BY <1>13 DEF Wrap, Accumulated, Triangle, Outer
  <1> QED BY <1>11, <1>14, <1>15, <1>16

(* The Collatz walk and the ends of the loops touch nothing of that.       *)
LEMMA OtherSteps ==
  ASSUME ControlInv, ControlTypes', UNCHANGED <<seed, nestedVars, bitVars>>
  PROVE  ControlInv'
  <1> USE DEF nestedVars, bitVars
  <1>1. (acc = Wrap(Accumulated))' /\ (row < Outer => col <= Outer)'
    BY DEF ControlInv, Wrap, Accumulated, Triangle, Outer
  <1>2. (previous <=> bit > 0 /\ IsSet(bit - 1))' BY DEF ControlInv, IsSet
  <1>3. (ones = Cardinality(SetBelow(bit)) /\ runs = Cardinality(RunsBelow(bit)))'
    BY DEF ControlInv, SetBelow, RunsBelow, IsSet
  <1> QED BY <1>1, <1>2, <1>3 DEF ControlInv

(* Every step of the three loops keeps the invariant.                      *)
THEOREM ControlSafety == ControlSpec => []ControlInv
  <1>1. ControlInit => ControlInv
    <2>1. SUFFICES ASSUME ControlInit PROVE ControlInv OBVIOUS
    <2>2. 0 \in Word /\ 1 \in Word BY WordModType DEF Word
    <2>3. ControlTypes BY <2>1, <2>2, ControlAssumption DEF ControlInit, ControlTypes
    <2>4. Outer \in Nat \ {0} BY <2>3, OuterType DEF ControlTypes
    <2>5. Accumulated = 0
      <3>1. Triangle(0) = 0 /\ Triangle(Outer) \in Int BY <2>4, NextTriangle
      <3> QED BY <2>1, <2>4, <3>1 DEF ControlInit, Accumulated
    <2>6. acc = Wrap(Accumulated) BY <2>1, <2>2, <2>5, WrapWord DEF ControlInit
    <2>7. SetBelow(bit) = {} /\ RunsBelow(bit) = {}
      BY <2>1 DEF ControlInit, SetBelow, RunsBelow
    <2>8. Cardinality({}) = 0 BY FS_EmptySet
    <2> QED BY <2>1, <2>3, <2>4, <2>6, <2>7, <2>8 DEF ControlInit, ControlInv
  <1>2. ControlInv /\ [ControlNext]_controlVars => ControlInv'
    <2>1. SUFFICES ASSUME ControlInv, [ControlNext]_controlVars PROVE ControlInv' OBVIOUS
    <2>2. CASE Walk
      <3>1. n \in Int /\ n \div 2 \in Int BY <2>1, WordInt DEF ControlInv, ControlTypes
      <3>2. CollatzStep(n) \in Int BY <3>1 DEF CollatzStep
      <3>3. ControlTypes'
        BY <2>1, <2>2, <3>2, WrapType DEF Walk, ControlInv, ControlTypes, nestedVars, bitVars
      <3> QED BY <2>1, <2>2, <3>3, OtherSteps DEF Walk
    <2>3. CASE Walked \/ Nested \/ Looked
      <3>1. UNCHANGED <<seed, n, steps, nestedVars, bitVars>>
        BY <2>3 DEF Walked, Nested, Looked
      <3>2. stage' \in {"Nested", "Bits", "Done"} BY <2>3 DEF Walked, Nested, Looked
      <3>3. ControlTypes'
        BY <2>1, <3>1, <3>2 DEF ControlInv, ControlTypes, nestedVars, bitVars
      <3> QED BY <2>1, <3>1, <3>3, OtherSteps
    <2>4. CASE Inner BY <2>1, <2>4, InnerStep
    <2>5. CASE NextRow BY <2>1, <2>5, NextRowStep
    <2>6. CASE Look BY <2>1, <2>6, LookStep
    <2>7. CASE UNCHANGED controlVars
      <3>1. UNCHANGED <<seed, n, stage, steps, nestedVars, bitVars>>
        BY <2>7 DEF controlVars
      <3>2. ControlTypes' BY <2>1, <3>1 DEF ControlInv, ControlTypes, nestedVars, bitVars
      <3> QED BY <2>1, <3>1, <3>2, OtherSteps
    <2> QED BY <2>1, <2>2, <2>3, <2>4, <2>5, <2>6, <2>7 DEF ControlNext
  <1> QED BY <1>1, <1>2, PTL DEF ControlSpec

(* At every iteration the accumulator, although it wraps, and the two bit  *)
(* counts are the closed forms (algorithms.rs 82-92, 96-112).              *)
THEOREM LoopsCountRight == ControlSpec => []LoopsInClosedForm
  <1>1. ControlInv => LoopsInClosedForm
    BY DEF ControlInv, LoopsInClosedForm, Accumulated, Triangle, SetBelow, RunsBelow
  <1> QED BY <1>1, ControlSafety, PTL
(* What is left of the three loops.                                        *)
ControlLeft ==
  CASE stage = "Collatz" -> <<3, <<ToGo(steps, Cap), 0>>>>
    [] stage = "Nested" -> <<2, <<ToGo(row, Outer), ToGo(col, Outer)>>>>
    [] stage = "Bits" -> <<1, <<ToGo(bit, XLen), 0>>>>
    [] stage = "Done" -> <<0, <<0, 0>>>>

(* Each iteration leaves less to do, whatever the seed: the cap bounds a   *)
(* walk that never comes to one, such as one that has wrapped to zero      *)
(* (algorithms.rs 68-113).                                                 *)
THEOREM ControlDescends ==
  ControlSpec => [][TripleDescends(ControlLeft', ControlLeft)]_controlVars
  <1>1. ControlInv /\ [ControlNext]_controlVars
          => [TripleDescends(ControlLeft', ControlLeft)]_controlVars
    <2> SUFFICES ASSUME ControlInv, ControlNext
                 PROVE  TripleDescends(ControlLeft', ControlLeft)
      OBVIOUS
    <2>1. /\ steps \in Nat /\ row \in Nat /\ col \in Nat /\ bit \in Nat /\ seed \in Word
          /\ Cap \in Nat /\ XLen \in Nat /\ Outer \in Nat /\ 0 \in Nat
          /\ steps + 1 \in Nat /\ row + 1 \in Nat /\ col + 1 \in Nat /\ bit + 1 \in Nat
      BY OuterType, ControlAssumption, XLenAssumption DEF ControlInv, ControlTypes
    <2>2. \A a \in {steps, steps + 1} : ToGo(a, Cap) \in Nat BY <2>1, ToGoFacts
    <2>3. \A a \in {row, row + 1, col, col + 1, 0} : ToGo(a, Outer) \in Nat
      BY <2>1, ToGoFacts
    <2>4. \A a \in {bit, bit + 1} : ToGo(a, XLen) \in Nat BY <2>1, ToGoFacts
    <2>5. CASE Walk
      <3>1. steps < Cap /\ ControlLeft = <<3, <<ToGo(steps, Cap), 0>>>>
            /\ ControlLeft' = <<3, <<ToGo(steps + 1, Cap), 0>>>>
        BY <2>5 DEF Walk, Walking, ControlLeft, ToGo
      <3>2. ToGo(steps + 1, Cap) < ToGo(steps, Cap) BY <2>1, <3>1, ToGoFacts
      <3> QED BY <2>2, <3>1, <3>2, TripleLower
    <2>6. CASE Walked
      <3>1. Outer' = Outer BY <2>6 DEF Walked, Outer
      <3>2. ControlLeft = <<3, <<ToGo(steps, Cap), 0>>>>
            /\ ControlLeft' = <<2, <<ToGo(row, Outer), ToGo(col, Outer)>>>>
        BY <2>6, <3>1 DEF Walked, ControlLeft, ToGo, nestedVars
      <3>3. {0, 2, 3} \subseteq Nat /\ 2 < 3 OBVIOUS
      <3> QED BY <2>2, <2>3, <3>2, <3>3, TripleLower
    <2>7. CASE Inner
      <3>1. Outer' = Outer BY <2>7 DEF Inner, Outer
      <3>2. col < Outer /\ ControlLeft = <<2, <<ToGo(row, Outer), ToGo(col, Outer)>>>>
            /\ ControlLeft' = <<2, <<ToGo(row, Outer), ToGo(col + 1, Outer)>>>>
        BY <2>7, <3>1 DEF Inner, ControlLeft, ToGo
      <3>3. ToGo(col + 1, Outer) < ToGo(col, Outer) BY <2>1, <3>2, ToGoFacts
      <3> QED BY <2>3, <3>2, <3>3, TripleLower
    <2>8. CASE NextRow
      <3>1. Outer' = Outer BY <2>8 DEF NextRow, Outer
      <3>2. row < Outer /\ ControlLeft = <<2, <<ToGo(row, Outer), ToGo(col, Outer)>>>>
            /\ ControlLeft' = <<2, <<ToGo(row + 1, Outer), ToGo(0, Outer)>>>>
        BY <2>8, <3>1 DEF NextRow, ControlLeft, ToGo
      <3>3. ToGo(row + 1, Outer) < ToGo(row, Outer) BY <2>1, <3>2, ToGoFacts
      <3> QED BY <2>3, <3>2, <3>3, TripleLower
    <2>9. CASE Nested
      <3>1. ControlLeft = <<2, <<ToGo(row, Outer), ToGo(col, Outer)>>>>
            /\ ControlLeft' = <<1, <<ToGo(bit, XLen), 0>>>>
        BY <2>9 DEF Nested, ControlLeft, ToGo, bitVars
      <3>2. {0, 1, 2} \subseteq Nat /\ 1 < 2 OBVIOUS
      <3> QED BY <2>3, <2>4, <3>1, <3>2, TripleLower
    <2>10. CASE Look
      <3>1. bit < XLen /\ ControlLeft = <<1, <<ToGo(bit, XLen), 0>>>>
            /\ ControlLeft' = <<1, <<ToGo(bit + 1, XLen), 0>>>>
        BY <2>10 DEF Look, ControlLeft, ToGo
      <3>2. ToGo(bit + 1, XLen) < ToGo(bit, XLen) BY <2>1, <3>1, ToGoFacts
      <3> QED BY <2>4, <3>1, <3>2, TripleLower
    <2>11. CASE Looked
      <3>1. ControlLeft = <<1, <<ToGo(bit, XLen), 0>>>> /\ ControlLeft' = <<0, <<0, 0>>>>
        BY <2>11 DEF Looked, ControlLeft
      <3>2. {0, 1} \subseteq Nat /\ 0 < 1 OBVIOUS
      <3> QED BY <2>4, <3>1, <3>2, TripleLower
    <2> QED BY <2>5, <2>6, <2>7, <2>8, <2>9, <2>10, <2>11 DEF ControlNext
  <1> QED BY <1>1, ControlSafety, PTL DEF ControlSpec

=============================================================================
