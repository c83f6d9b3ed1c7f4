------------------------- MODULE PagedMemoryProofs -------------------------
(***************************************************************************)
(* The two memories are byte maps, and agree: the results on PagedMemory   *)
(* and MemoryPair, for every byte base, page size and set of requests.     *)
(***************************************************************************)
EXTENDS MemoryPair, MemoryProofs

(***************************************************************************)
(* The little-endian digits of ByteMap and the bytes of the code.          *)
(***************************************************************************)
(* The digits of a word are its bytes.                                     *)
LEMMA DigitIsByte ==
  ASSUME NEW v \in Word, NEW i \in 0 .. 3
  PROVE  Abstract!Digit(v, i) = ByteAt(v, i) /\ RefAbstract!Digit(v, i) = ByteAt(v, i)
  <1>1. v \div (HalfMod * Base) = (v \div (HalfMod * Base)) % Base
    <2>0. PICK m \in Nat \ {0} : m = HalfMod * Base
      BY HalfModType, BaseAssumption
    <2>1. PICK q \in Int, r \in 0 .. m - 1 :
            m = HalfMod * Base /\ v = m * q + r /\ q = v \div m
      <3>1. v \in Int BY WordInt
      <3> QED BY <2>0, <3>1, DivMod
    <2>2. WordMod = m * Base BY <2>1, BaseAssumption DEF WordMod, HalfMod
    <2>3. q \in Nat /\ v < m * Base BY <2>1, <2>2, WordInt, DivNat DEF Word
    <2>4. q < Base
      <3>1. SUFFICES ASSUME q >= Base PROVE FALSE BY <2>3, BaseAssumption
      <3>2. m * (q - Base) >= 0 BY <2>3, <3>1, BaseAssumption
      <3>3. m * (q - Base) = m * q - m * Base BY BaseAssumption
      <3>4. m * q \in Int /\ m * Base \in Int BY BaseAssumption
      <3> QED BY <2>1, <2>3, <3>2, <3>3, <3>4
    <2>5. q \in 0 .. Base - 1 /\ q = Base * 0 + q /\ q \in Int /\ Base \in Nat \ {0}
      BY <2>3, <2>4, BaseAssumption
    <2>6. q % Base = q BY <2>5, DivModUnique
    <2> QED BY <2>1, <2>6
  <1>2. Abstract!Digit(v, i) = ByteAt(v, i)
    BY <1>1 DEF Abstract!Digit, Abstract!HalfMod, HalfMod, ByteAt
  <1>3. RefAbstract!Digit(v, i) = ByteAt(v, i)
    BY <1>1 DEF RefAbstract!Digit, RefAbstract!HalfMod, HalfMod, ByteAt
  <1> QED BY <1>2, <1>3

(* The bytes of a sum of bytes at their places are those bytes.            *)
LEMMA BytesOfSum ==
  ASSUME NEW b0 \in Byte, NEW b1 \in Byte, NEW b2 \in Byte, NEW b3 \in Byte,
         NEW v, v = b0 + b1 * Base + b2 * HalfMod + b3 * (HalfMod * Base)
  PROVE  /\ v \in Word
         /\ ByteAt(v, 0) = b0 /\ ByteAt(v, 1) = b1 /\ ByteAt(v, 2) = b2 /\ ByteAt(v, 3) = b3
  <1>1. /\ Base \in Nat \ {0} /\ HalfMod \in Nat \ {0} /\ HalfMod = Base * Base
        /\ b0 \in 0 .. Base - 1 /\ b1 \in 0 .. Base - 1 /\ b2 \in 0 .. Base - 1
        /\ b3 \in 0 .. Base - 1
    BY BaseAssumption, HalfModType DEF HalfMod, Byte
  <1>2. PICK q1 \in Nat, q2 \in Nat : q2 = b2 + Base * b3 /\ q1 = b1 + Base * q2
    BY <1>1
  <1>3. v = Base * q1 + b0
    <2>1. Base * q1 = Base * b1 + Base * (Base * q2) BY <1>1, <1>2
    <2>2. Base * (Base * q2) = Base * (Base * b2) + Base * (Base * (Base * b3))
      BY <1>1, <1>2
    <2>3. Base * (Base * b2) = b2 * HalfMod /\ Base * (Base * (Base * b3)) = b3 * (HalfMod * Base)
      BY <1>1
    <2>4. Base * b1 = b1 * Base BY <1>1
    <2> QED BY <1>1, <2>1, <2>2, <2>3, <2>4
  <1>4. v \in Int BY <1>1, <1>2, <1>3
  <1>5. v \div Base = q1 /\ v % Base = b0
    <2>1. Base \in Nat \ {0} /\ b0 \in 0 .. Base - 1 /\ q1 \in Int BY <1>1
    <2> QED BY <2>1, <1>3, <1>4, DivModUnique
  <1>6. q1 \div Base = q2 /\ q1 % Base = b1
    <2>1. Base \in Nat \ {0} /\ b1 \in 0 .. Base - 1 /\ q1 \in Int /\ q2 \in Int BY <1>1
    <2>2. q1 = Base * q2 + b1 BY <1>1, <1>2
    <2> QED BY <2>1, <2>2, DivModUnique
  <1>7. q2 \div Base = b3 /\ q2 % Base = b2
    <2>1. q2 = Base * b3 + b2 BY <1>2, <1>1
    <2> QED BY <1>1, <1>2, <2>1, DivModUnique
  <1>8. v \div HalfMod = q2
    <2>1. PICK r \in Int : r = Base * b1 + b0 BY <1>1
    <2>2. v = HalfMod * q2 + r BY <1>1, <1>2, <1>3, <2>1
    <2>3. r \in 0 .. HalfMod - 1
      <3>1. Base * (Base - 1 - b1) >= 0 BY <1>1
      <3>2. Base * (Base - 1 - b1) = HalfMod - Base - Base * b1 BY <1>1
      <3>3. Base * b1 >= 0 /\ Base * b1 \in Int BY <1>1
      <3> QED BY <1>1, <2>1, <3>1, <3>2, <3>3
    <2>4. HalfMod \in Nat \ {0} /\ q2 \in Int BY <1>1
    <2> QED BY <1>4, <2>2, <2>3, <2>4, DivModUnique
  <1>9. v \div (HalfMod * Base) = b3 /\ v \in Word
    <2>1. PICK m \in Nat \ {0} : m = HalfMod * Base BY <1>1
    <2>2. PICK s \in Int : s = HalfMod * b2 + Base * b1 + b0 BY <1>1
    <2>3. v = m * b3 + s BY <1>1, <2>1, <2>2
    <2>4. s \in 0 .. m - 1
      <3>1. Base * (Base - 1 - b1) >= 0 /\ HalfMod * (Base - 1 - b2) >= 0 BY <1>1
      <3>2. /\ Base * (Base - 1 - b1) = HalfMod - Base - Base * b1
            /\ HalfMod * (Base - 1 - b2) = m - HalfMod - HalfMod * b2
        BY <1>1, <2>1
      <3>3. Base * b1 >= 0 /\ Base * b1 \in Int /\ HalfMod * b2 >= 0 /\ HalfMod * b2 \in Int
        BY <1>1
      <3> QED BY <1>1, <2>1, <2>2, <3>1, <3>2, <3>3
    <2>5. v \div m = b3 BY <1>1, <1>4, <2>1, <2>3, <2>4, DivModUnique
    <2>6. v \in 0 .. WordMod - 1
      <3>1. WordMod = m * Base BY <1>1, <2>1 DEF WordMod
      <3>2. m * (Base - 1 - b3) >= 0 /\ m * b3 >= 0 /\ m * b3 \in Int BY <1>1
      <3>3. m * (Base - 1 - b3) = m * Base - m - m * b3 BY <1>1
      <3>4. m * Base \in Int BY <1>1
      <3> QED BY <1>4, <2>3, <2>4, <3>1, <3>2, <3>3, <3>4
    <2> QED BY <2>1, <2>5, <2>6 DEF Word
  <1>10. b3 % Base = b3
    <2>1. b3 = Base * 0 + b3 BY <1>1
    <2> QED BY <1>1, <2>1, DivModUnique
  <1> QED BY <1>5, <1>6, <1>7, <1>8, <1>9, <1>10 DEF ByteAt

(***************************************************************************)
(* The paged memory implements the byte map with the grain of a page.      *)
(***************************************************************************)
(* Memory::new() has no page, and so no byte. *)
LEMMA EmptyMemory == IsMemory(<< >>) /\ Flat(<< >>) = [a \in Word |-> -1]
  <1>1. DOMAIN << >> = {} OBVIOUS
  <1>2. << >> \in [{} -> [Offset -> Byte]] OBVIOUS
  <1>3. IsMemory(<< >>) BY <1>1, <1>2 DEF IsMemory
  <1>4. \A a \in Word : ~Mapped(<< >>, a) BY <1>1 DEF Mapped
  <1> QED BY <1>3, <1>4 DEF Flat

(* A byte map seen through Flat is decided byte by byte.                   *)
LEMMA FlatIs ==
  ASSUME NEW mem1, NEW f, f = [a \in Word |-> f[a]], \A a \in Word : Flat(mem1)[a] = f[a]
  PROVE  Flat(mem1) = f
  BY DEF Flat

(* The span of a slice, in both instances of the byte map.                 *)
LEMMA SpanFacts ==
  ASSUME NEW addr \in Word, NEW size \in Nat, size <= WordMod
  PROVE  /\ Abstract!Span(addr, size) = {a \in Word : Wrap(a - addr) < size}
         /\ RefAbstract!Span(addr, size) = {a \in Word : Wrap(a - addr) < size}
  <1>1. {Cell(addr, i) : i \in 0 .. size - 1} = {a \in Word : Wrap(a - addr) < size}
    <2>1. \A i \in 0 .. size - 1 : Cell(addr, i) \in Word BY CellType
    <2> QED BY <2>1, SliceByDistance
  <1>2. Abstract!Span(addr, size) = {Cell(addr, i) : i \in 0 .. size - 1}
    BY DEF Abstract!Span, Abstract!Wrap, Abstract!WordMod, Cell, Wrap, WordMod
  <1>3. RefAbstract!Span(addr, size) = {Cell(addr, i) : i \in 0 .. size - 1}
    BY DEF RefAbstract!Span, RefAbstract!Wrap, RefAbstract!WordMod, Cell, Wrap, WordMod
  <1> QED BY <1>1, <1>2, <1>3

(* The words of the byte map are those of the code. *)
LEMMA AbstractWords ==
  /\ Abstract!Word = Word /\ \A n : Abstract!Wrap(n) = Wrap(n)
  /\ RefAbstract!Word = Word /\ \A n : RefAbstract!Wrap(n) = Wrap(n)
  BY DEF Abstract!Word, Abstract!WordMod, Abstract!Wrap, RefAbstract!Word,
         RefAbstract!WordMod, RefAbstract!Wrap, Word, WordMod, Wrap

(* The pages of the table are a memory. *)
Table == IsMemory(pages)

(* What a request may be, named so that the provers use it as a whole.     *)
LEMMA RequestFacts ==
  ASSUME NEW r \in Requests
  PROVE  /\ r.addr \in Word
         /\ r.op = "place" => r.data \in Seq(Byte) /\ Len(r.data) \in Nat /\ Len(r.data) <= WordMod
         /\ r.op \in {"read", "write"} => r.width \in {1, 2, 4}
         /\ r.op = "write" => r.value \in Word
  BY RequestsAssumption

(* touch: a page of zeros, unless it is there. *)
LEMMA TouchRefines ==
  ASSUME Table, NEW r \in Requests, Touch(r) PROVE Table' /\ Abstract!Touch(r)
  <1>1. r.addr \in Word /\ r.op = "touch" /\ pages' = Touched(pages, r.addr)
    BY RequestFacts DEF Touch
  <1> DEFINE numbers == {PageOf(r.addr)}
             f == [a \in Word |->
                     IF a \in {r.addr} THEN IF Flat(pages)[a] = -1 THEN 0 ELSE Flat(pages)[a]
                     ELSE IF Flat(pages)[a] = -1 /\ \E s \in {r.addr} : a \in SamePage(s) THEN 0
                     ELSE Flat(pages)[a]]
  <1>2. numbers \subseteq PageNo BY <1>1, PageFacts
  <1>3. pages' = Allocated(pages, numbers) BY <1>1 DEF Touched
  <1>4. /\ IsMemory(pages') /\ DOMAIN pages' = DOMAIN pages \cup numbers
        /\ \A a \in Word : Mapped(pages', a) =>
             ByteIn(pages', a) = IF Mapped(pages, a) THEN ByteIn(pages, a) ELSE 0
    BY <1>2, <1>3, AllocatedFacts DEF Table
  <1>5. ASSUME NEW a \in Word PROVE Flat(pages')[a] = f[a]
    <2>1. Mapped(pages', a) <=> Mapped(pages, a) \/ a \in SamePage(r.addr)
      BY <1>4 DEF Mapped, SamePage
    <2>2. r.addr \in SamePage(r.addr) BY <1>1 DEF SamePage
    <2>3. /\ Mapped(pages', a) => Flat(pages')[a] = ByteIn(pages', a)
          /\ ~Mapped(pages', a) => Flat(pages')[a] = -1
          /\ Mapped(pages, a) => Flat(pages)[a] = ByteIn(pages, a) /\ Flat(pages)[a] # -1
          /\ ~Mapped(pages, a) => Flat(pages)[a] = -1
      BY <1>4, FlatAt DEF Table, Flat
    <2> QED BY <1>4, <2>1, <2>2, <2>3
  <1>6. f = [a \in Word |-> f[a]] OBVIOUS
  <1> HIDE DEF f
  <1>7. Flat(pages') = f BY <1>5, <1>6, FlatIs
  <1>8. Abstract!Exist({r.addr}, LAMBDA a : IF Flat(pages)[a] = -1 THEN 0 ELSE Flat(pages)[a])
    BY <1>7, AbstractWords DEF f, Abstract!Exist, Abstract!Hole
  <1>9. [kind |-> Kind(answer.trap), value |-> answer.value]' = Abstract!Nothing
    BY DEF Touch, Reply, Kind, Ok, Abstract!Nothing
  <1> QED BY <1>1, <1>4, <1>8, <1>9 DEF Table, Abstract!Touch, Abstract!Hole

(* write_slice: the slice lands at its wrapped place in whole pages.       *)
LEMMA PlaceRefines ==
  ASSUME Table, NEW r \in Requests, WriteSlice(r) PROVE Table' /\ Abstract!Place(r)
  <1> DEFINE size == Len(r.data)
             span == {a \in Word : Wrap(a - r.addr) < size}
             f == [a \in Word |->
                     IF a \in span THEN r.data[Wrap(a - r.addr) + 1]
                     ELSE IF Flat(pages)[a] = -1 /\ \E s \in span : a \in SamePage(s) THEN 0
                     ELSE Flat(pages)[a]]
  <1>1. /\ r.addr \in Word /\ r.op = "place" /\ pages' = Placed(pages, r.addr, r.data)
        /\ r.data \in Seq(Byte) /\ size \in Nat /\ size <= WordMod
    BY RequestFacts DEF WriteSlice
  <1>2. /\ IsMemory(pages') /\ DOMAIN pages' = DOMAIN pages \cup PagesUnder(r.addr, size)
        /\ \A a \in Word : Mapped(pages', a) =>
             ByteIn(pages', a) = IF Wrap(a - r.addr) < size THEN r.data[Wrap(a - r.addr) + 1]
                                 ELSE IF Mapped(pages, a) THEN ByteIn(pages, a) ELSE 0
    BY <1>1, PlacedFacts DEF Table
  <1>3. PagesUnder(r.addr, size) = {PageOf(a) : a \in span} BY <1>1, PagesUnderBy
  <1>4. ASSUME NEW a \in Word PROVE Flat(pages')[a] = f[a]
    <2>1. Mapped(pages', a) <=> Mapped(pages, a) \/ \E s \in span : a \in SamePage(s)
      BY <1>2, <1>3 DEF Mapped, SamePage
    <2>2. a \in span => a \in SamePage(a) BY DEF SamePage
    <2>3. /\ Mapped(pages', a) => Flat(pages')[a] = ByteIn(pages', a)
          /\ ~Mapped(pages', a) => Flat(pages')[a] = -1
          /\ Mapped(pages, a) => Flat(pages)[a] = ByteIn(pages, a) /\ Flat(pages)[a] # -1
          /\ ~Mapped(pages, a) => Flat(pages)[a] = -1
      BY <1>2, FlatAt DEF Table, Flat
    <2>4. a \in span <=> Wrap(a - r.addr) < size OBVIOUS
    <2> HIDE DEF span, size
    <2> QED BY <1>2, <2>1, <2>2, <2>3, <2>4
  <1>5. f = [a \in Word |-> f[a]] OBVIOUS
  <1> HIDE DEF f
  <1>6. Flat(pages') = f BY <1>4, <1>5, FlatIs
  <1>7. Abstract!Span(r.addr, Len(r.data)) = span BY <1>1, SpanFacts
  <1>8. Abstract!Exist(Abstract!Span(r.addr, Len(r.data)), LAMBDA a : r.data[Wrap(a - r.addr) + 1])
    BY <1>6, <1>7, AbstractWords DEF f, Abstract!Exist, Abstract!Hole
  <1>9. [kind |-> Kind(answer.trap), value |-> answer.value]' = Abstract!Nothing
    BY DEF WriteSlice, Reply, Kind, Ok, Abstract!Nothing
  <1>10. \A n : Abstract!Wrap(n) = Wrap(n) BY AbstractWords
  <1> QED BY <1>1, <1>2, <1>8, <1>9, <1>10
      DEF Table, Abstract!Place, Abstract!Wrap, Abstract!WordMod, Wrap, WordMod

(* The verdict of the byte map on an access is the trap of the code.       *)
LEMMA VerdictIsTrap ==
  ASSUME Table, NEW r \in Requests, r.op \in {"read", "write"}
  PROVE  /\ Abstract!Verdict(r) = Kind(Checked(r))
         /\ Kind(Checked(r)) = "Ok" <=> Checked(r) = Ok
         /\ Abstract!Span(r.addr, r.width) = {a \in Word : Wrap(a - r.addr) < r.width}
  <1>1. r.addr \in Word /\ r.width \in {1, 2, 4} /\ IsMemory(pages)
    BY RequestFacts DEF Table
  <1>2. r.width \in Nat /\ r.width <= WordMod BY <1>1, WordModType
  <1>3. /\ Abstract!Span(r.addr, r.width) = {Cell(r.addr, i) : i \in 0 .. r.width - 1}
        /\ \A i \in 0 .. r.width - 1 : Cell(r.addr, i) \in Word
    BY <1>1, CellType
    DEF Abstract!Span, Abstract!Wrap, Abstract!WordMod, Cell, Wrap, WordMod
  <1>4. (\E a \in Abstract!Span(r.addr, r.width) : Flat(pages)[a] = -1)
          <=> ~AllMapped(pages, r.addr, r.width)
    BY <1>1, <1>3, FlatAt DEF AllMapped
  <1>5. Checked(r).kind
          = IF r.addr % r.width # 0 THEN "MisalignedAccess"
            ELSE IF AllMapped(pages, r.addr, r.width) THEN "Ok" ELSE "AccessFault"
    <2>1. 0 \in Int OBVIOUS
    <2> QED BY <1>1, AccessKind DEF Checked
  <1>6. Abstract!Verdict(r) = IF r.addr % r.width # 0 THEN "Misaligned"
                              ELSE IF AllMapped(pages, r.addr, r.width) THEN "Ok" ELSE "Fault"
    BY <1>4 DEF Abstract!Verdict, Abstract!Hole
  <1>7. Kind(Checked(r)) = Abstract!Verdict(r) BY <1>5, <1>6 DEF Kind
  <1>8. Kind(Checked(r)) = "Ok" <=> Checked(r) = Ok
    <2>1. Checked(r) = Ok <=> Checked(r).kind = "Ok" BY <1>1, AccessOkKind DEF Checked
    <2> QED BY <2>1, <1>5 DEF Kind
  <1> QED BY <1>1, <1>2, <1>7, <1>8, SpanFacts

(* A request that is refused changes no byte. *)
LEMMA RefusalRefines ==
  ASSUME Table, NEW r \in Requests, r.op \in {"read", "write"}, Checked(r) # Ok,
         pages' = pages, Reply(Checked(r), 0)
  PROVE  Table' /\ Abstract!Refuse(r)
  <1>1. Abstract!Verdict(r) # "Ok" /\ Abstract!Verdict(r) = Kind(Checked(r)) BY VerdictIsTrap
  <1>2. answer'.trap = Checked(r) /\ answer'.value = 0 BY DEF Reply
  <1> QED BY <1>1, <1>2 DEF Table, Abstract!Refuse

(* The bytes of the value read are those of memory, zero above the width.  *)
LEMMA ReadBytes ==
  ASSUME NEW mem1, IsMemory(mem1), NEW addr \in Word, NEW width \in {1, 2, 4},
         Reached(mem1, addr, width) = 0 .. width - 1, addr % width = 0, NEW i \in 0 .. 3
  PROVE  /\ Loaded(mem1, addr, width) \in Word
         /\ ByteAt(Loaded(mem1, addr, width), i)
              = IF i < width THEN Flat(mem1)[Cell(addr, i)] ELSE 0
  <1> DEFINE b(n) == IF n < width THEN ByteIn(mem1, Cell(addr, n)) ELSE 0
  <1>1. AllMapped(mem1, addr, width) BY ReachedAll
  <1>2. ASSUME NEW n \in 0 .. 3
        PROVE  /\ b(n) \in Byte
               /\ b(n) = IF n < width THEN Flat(mem1)[Cell(addr, n)] ELSE 0
    <2>1. CASE n < width
      <3>1. n \in 0 .. width - 1 /\ Cell(addr, n) \in Word BY <2>1, CellType
      <3>2. Mapped(mem1, Cell(addr, n)) BY <1>1, <3>1 DEF AllMapped
      <3> QED BY <2>1, <3>1, <3>2, FlatAt, ByteInType
    <2>2. CASE ~(n < width) BY <2>2, BaseAssumption DEF Byte
    <2> QED BY <2>1, <2>2
  <1>3. Loaded(mem1, addr, width) = b(0) + b(1) * Base + b(2) * HalfMod + b(3) * (HalfMod * Base)
    BY DEF Loaded
  <1> HIDE DEF b
  <1>4. 0 \in 0 .. 3 /\ 1 \in 0 .. 3 /\ 2 \in 0 .. 3 /\ 3 \in 0 .. 3 OBVIOUS
  <1>5. b(0) \in Byte /\ b(1) \in Byte /\ b(2) \in Byte /\ b(3) \in Byte BY <1>2, <1>4
  <1>6. /\ Loaded(mem1, addr, width) \in Word
        /\ ByteAt(Loaded(mem1, addr, width), 0) = b(0)
        /\ ByteAt(Loaded(mem1, addr, width), 1) = b(1)
        /\ ByteAt(Loaded(mem1, addr, width), 2) = b(2)
        /\ ByteAt(Loaded(mem1, addr, width), 3) = b(3)
    BY <1>3, <1>5, BytesOfSum
  <1>7. i = 0 \/ i = 1 \/ i = 2 \/ i = 3 OBVIOUS
  <1>8. ByteAt(Loaded(mem1, addr, width), i) = b(i) BY <1>6, <1>7
  <1> QED BY <1>2, <1>6, <1>8

(* read: refused, or the value whose bytes are those of memory.            *)
LEMMA ReadRefines ==
  ASSUME Table, NEW r \in Requests, Read(r)
  PROVE  Table' /\ (Abstract!Refuse(r) \/ Abstract!Read(r))
  <1>1. r.op = "read" /\ r.addr \in Word /\ r.width \in {1, 2, 4} /\ pages' = pages
    BY RequestFacts DEF Read
  <1>2. CASE Checked(r) # Ok
    <2>1. Reply(Checked(r), 0) BY <1>2 DEF Read
    <2> QED BY <1>1, <1>2, <2>1, RefusalRefines
  <1>3. CASE Checked(r) = Ok
    <2> DEFINE v == Loaded(pages, r.addr, r.width)
    <2>1. answer' = [trap |-> Ok, value |-> v] BY <1>3 DEF Read, Reply
    <2>2. Reached(pages, r.addr, r.width) = 0 .. r.width - 1 /\ r.addr % r.width = 0
      BY <1>1, <1>3, AccessOk DEF Checked
    <2>3. /\ v \in Word
          /\ \A i \in 0 .. 3 :
               ByteAt(v, i) = IF i < r.width THEN Flat(pages)[Cell(r.addr, i)] ELSE 0
      <3>1. IsMemory(pages) /\ 0 \in 0 .. 3 BY DEF Table
      <3> QED BY <1>1, <2>2, <3>1, ReadBytes
    <2> HIDE DEF v
    <2>4. \A i \in 0 .. 3 :
            Abstract!Digit(v, i)
              = IF i < r.width THEN Flat(pages)[Abstract!Wrap(r.addr + i)] ELSE 0
      BY <2>3, DigitIsByte, AbstractWords DEF Cell
    <2>5. Abstract!Verdict(r) = "Ok" BY <1>1, <1>3, VerdictIsTrap
    <2>6. Kind(Ok) = "Ok" BY DEF Kind, Ok
    <2>7. Abstract!Read(r)
      BY <1>1, <2>1, <2>3, <2>4, <2>5, <2>6, AbstractWords DEF Abstract!Read
    <2> QED BY <1>1, <2>7 DEF Table
  <1> QED BY <1>2, <1>3

(* write: all of its bytes, or none. *)
LEMMA WriteRefines ==
  ASSUME PageSize % 4 = 0, Table, NEW r \in Requests, Write(r)
  PROVE  Table' /\ (Abstract!Refuse(r) \/ Abstract!Write(r))
  <1>1. /\ r.op = "write" /\ r.addr \in Word /\ r.width \in {1, 2, 4} /\ r.value \in Word
        /\ pages' = Written(pages, r.addr, r.value, r.width) /\ Reply(Checked(r), 0)
    BY RequestFacts DEF Write
  <1>2. IsMemory(pages) BY DEF Table
  <1>3. CASE Checked(r) # Ok
    <2>1. pages' = pages BY <1>1, <1>2, <1>3, FaultingWrite DEF Checked
    <2> QED BY <1>1, <1>3, <2>1, RefusalRefines
  <1>4. CASE Checked(r) = Ok
    <2>1. Flat(pages')
            = [a \in Word |-> IF Wrap(a - r.addr) < r.width THEN ByteAt(r.value, Wrap(a - r.addr))
                              ELSE Flat(pages)[a]]
      BY <1>1, <1>2, <1>4, FlatWritten DEF Checked
    <2>2. ASSUME NEW a \in Word, Wrap(a - r.addr) < r.width
          PROVE  Abstract!Digit(r.value, Wrap(a - r.addr)) = ByteAt(r.value, Wrap(a - r.addr))
      <3>1. Wrap(a - r.addr) \in Nat BY <1>1, Distance
      <3>2. Wrap(a - r.addr) \in 0 .. 3 BY <1>1, <2>2, <3>1
      <3> QED BY <1>1, <3>2, DigitIsByte
    <2>3. Abstract!Span(r.addr, r.width) = {a \in Word : Wrap(a - r.addr) < r.width}
          /\ Abstract!Verdict(r) = "Ok"
      BY <1>1, <1>4, VerdictIsTrap
    <2>4. Flat(pages')
            = [a \in Word |-> IF a \in Abstract!Span(r.addr, r.width)
                              THEN Abstract!Digit(r.value, Wrap(a - r.addr)) ELSE Flat(pages)[a]]
      BY <2>1, <2>2, <2>3
    <2>5. [kind |-> Kind(answer.trap), value |-> answer.value]' = Abstract!Nothing
      BY <1>1, <1>4 DEF Reply, Kind, Ok, Abstract!Nothing
    <2>6. IsMemory(pages') BY <1>1, <1>2, WrittenType
    <2> QED BY <1>1, <2>3, <2>4, <2>5, <2>6, AbstractWords DEF Table, Abstract!Write
  <1> QED BY <1>3, <1>4

(* Every call of the interface is a step of the byte map. *)
LEMMA ServeRefines ==
  ASSUME PageSize % 4 = 0, Table, NEW r \in Requests, Serve(r)
  PROVE  Table' /\ Abstract!Serve(r)
  BY TouchRefines, PlaceRefines, ReadRefines, WriteRefines DEF Serve, Abstract!Serve

(* Memory::new() is the empty byte map. *)
LEMMA InitRefines == Init => Table /\ Abstract!Init
  <1>1. Kind(Ok) = "Ok" BY DEF Kind, Ok
  <1> QED BY <1>1, EmptyMemory, AbstractWords
      DEF Init, Table, Abstract!Init, Abstract!Hole, Abstract!Nothing

(* The sparse pages of mem.rs are a byte map that grows by whole pages,    *)
(* whatever is asked of them and in whatever order, for every page size    *)
(* that holds whole words: a slice lands at its wrapped place, a fresh     *)
(* page is zero, a read of a hole faults, a write is all or nothing.       *)
THEOREM PagesAreByteMap == ASSUME PageSize % 4 = 0 PROVE Spec => ImplementsByteMap
  <1>1. Init => Table /\ Abstract!Init BY InitRefines
  <1>2. Table /\ [Next]_memoryVars
          => Table' /\ [Abstract!Next]_<<Flat(pages), request,
                                         [kind |-> Kind(answer.trap), value |-> answer.value]>>
    <2> SUFFICES ASSUME Table, [Next]_memoryVars
                 PROVE  Table' /\ [Abstract!Next]_<<Flat(pages), request,
                                     [kind |-> Kind(answer.trap), value |-> answer.value]>>
      OBVIOUS
    <2>1. CASE Next BY <2>1, ServeRefines DEF Next, Abstract!Next
    <2>2. CASE UNCHANGED memoryVars BY <2>2 DEF memoryVars, Table
    <2> QED BY <2>1, <2>2
  <1> QED BY <1>1, <1>2, PTL DEF Spec, ImplementsByteMap, Abstract!Spec

(***************************************************************************)
(* The reference's map implements the byte map with the grain of a byte.   *)
(***************************************************************************)
(* Every address has a byte or none. *)
ByteMapped == mem \in [Word -> Byte \cup {NoByte}]

(* None is not a byte. *)
LEMMA NoByteIsNone == NoByte \notin Byte
  BY BaseAssumption DEF NoByte, Byte

(* The check the reference's load and store share is the verdict.          *)
LEMMA RefVerdict ==
  ASSUME ByteMapped, NEW r \in Requests, r.op \in {"read", "write"}
  PROVE  /\ RefAbstract!Verdict(r) = Check(r.addr, r.width)
         /\ Check(r.addr, r.width) \in {"Misaligned", "Ok", "Fault"}
         /\ RefAbstract!Span(r.addr, r.width) = {a \in Word : Wrap(a - r.addr) < r.width}
  <1>1. r.addr \in Word /\ r.width \in {1, 2, 4} BY RequestFacts
  <1>2. r.width \in Nat /\ r.width <= WordMod BY <1>1, WordModType
  <1>3. RefAbstract!Span(r.addr, r.width) = {At(r.addr, i) : i \in 0 .. r.width - 1}
    BY DEF RefAbstract!Span, RefAbstract!Wrap, RefAbstract!WordMod, At, Wrap, WordMod
  <1>4. (\E a \in RefAbstract!Span(r.addr, r.width) : mem[a] = -1)
          <=> ~(\A i \in 0 .. r.width - 1 : mem[At(r.addr, i)] # NoByte)
    BY <1>3 DEF NoByte
  <1>5. /\ RefAbstract!Verdict(r) = Check(r.addr, r.width)
        /\ Check(r.addr, r.width) \in {"Misaligned", "Ok", "Fault"}
    BY <1>4 DEF RefAbstract!Verdict, RefAbstract!Hole, Check
  <1> QED BY <1>1, <1>2, <1>5, SpanFacts

(* write_bytes: the bytes of the slice and no other.                       *)
LEMMA RefPlaceRefines ==
  ASSUME ByteMapped, NEW r \in Requests, WriteBytes(r)
  PROVE  ByteMapped' /\ RefAbstract!Place(r)
  <1>1. /\ r.addr \in Word /\ r.op = "place" /\ mem' = Inserted(r.addr, r.data)
        /\ r.data \in Seq(Byte) /\ Len(r.data) \in Nat /\ Len(r.data) <= WordMod
        /\ refAnswer' = [kind |-> "Ok", value |-> 0]
    BY RequestFacts DEF WriteBytes, RefReply
  <1> DEFINE span == {a \in Word : Wrap(a - r.addr) < Len(r.data)}
  <1>2. RefAbstract!Span(r.addr, Len(r.data)) = span BY <1>1, SpanFacts
  <1>3. ASSUME NEW a \in span PROVE r.data[Wrap(a - r.addr) + 1] \in Byte
    <2>1. PICK d \in Nat : d = Wrap(a - r.addr) BY <1>1, Distance
    <2>2. d + 1 \in 1 .. Len(r.data) BY <1>1, <2>1
    <2> QED BY <1>1, <2>1, <2>2
  <1>4. mem' = [a \in Word |-> IF a \in span THEN r.data[Wrap(a - r.addr) + 1] ELSE mem[a]]
    BY <1>1 DEF Inserted
  <1>5. ByteMapped' BY <1>3, <1>4 DEF ByteMapped
  <1>6. \A a \in Word : (\E s \in span : a \in One(s)) <=> a \in span BY DEF One
  <1> HIDE DEF span
  <1>7. mem' = [a \in Word |->
                  IF a \in span THEN r.data[Wrap(a - r.addr) + 1]
                  ELSE IF mem[a] = -1 /\ \E s \in span : a \in One(s) THEN 0
                  ELSE mem[a]]
    BY <1>4, <1>6
  <1>8. RefAbstract!Exist(RefAbstract!Span(r.addr, Len(r.data)),
                          LAMBDA a : r.data[Wrap(a - r.addr) + 1])
    BY <1>2, <1>7, AbstractWords DEF RefAbstract!Exist, RefAbstract!Hole
  <1> QED BY <1>1, <1>5, <1>8
      DEF RefAbstract!Place, RefAbstract!Nothing, RefAbstract!Wrap, RefAbstract!WordMod,
          Wrap, WordMod

(* The value the reference reads, and its bytes. *)
LEMMA RefReadBytes ==
  ASSUME ByteMapped, NEW addr \in Word, NEW width \in {1, 2, 4},
         Check(addr, width) = "Ok", NEW i \in 0 .. 3
  PROVE  /\ LoadedWord(addr, width) \in Word
         /\ ByteAt(LoadedWord(addr, width), i) = IF i < width THEN mem[At(addr, i)] ELSE 0
  <1> DEFINE b(n) == IF n < width THEN mem[At(addr, n)] ELSE 0
  <1>1. \A n \in 0 .. width - 1 : mem[At(addr, n)] # NoByte BY DEF Check
  <1>2. ASSUME NEW n \in 0 .. 3 PROVE b(n) \in Byte
    <2>1. CASE n < width
      <3>1. n \in 0 .. width - 1 /\ At(addr, n) \in Word BY <2>1, CellType DEF At, Cell
      <3> QED BY <2>1, <3>1, <1>1 DEF ByteMapped
    <2>2. CASE ~(n < width) BY <2>2, BaseAssumption DEF Byte
    <2> QED BY <2>1, <2>2
  <1>3. LoadedWord(addr, width) = b(0) + Base * (b(1) + Base * (b(2) + Base * b(3)))
    BY DEF LoadedWord
  <1>4. \A n : b(n) = IF n < width THEN mem[At(addr, n)] ELSE 0 OBVIOUS
  <1> HIDE DEF b
  <1>5. 0 \in 0 .. 3 /\ 1 \in 0 .. 3 /\ 2 \in 0 .. 3 /\ 3 \in 0 .. 3 OBVIOUS
  <1>6. PICK b0 \in Byte, b1 \in Byte, b2 \in Byte, b3 \in Byte :
          b0 = b(0) /\ b1 = b(1) /\ b2 = b(2) /\ b3 = b(3)
    BY <1>2, <1>5
  <1>7. b0 + Base * (b1 + Base * (b2 + Base * b3))
          = b0 + b1 * Base + b2 * HalfMod + b3 * (HalfMod * Base)
    BY BaseAssumption DEF HalfMod, Byte
  <1>8. PICK v : v = LoadedWord(addr, width) OBVIOUS
  <1>9. v = b0 + b1 * Base + b2 * HalfMod + b3 * (HalfMod * Base) BY <1>3, <1>6, <1>7, <1>8
  <1>10. /\ v \in Word
         /\ ByteAt(v, 0) = b0 /\ ByteAt(v, 1) = b1 /\ ByteAt(v, 2) = b2 /\ ByteAt(v, 3) = b3
    BY <1>9, BytesOfSum
  <1>11. i = 0 \/ i = 1 \/ i = 2 \/ i = 3 OBVIOUS
  <1>12. ByteAt(v, i) = b(i) BY <1>6, <1>10, <1>11
  <1> QED BY <1>4, <1>8, <1>10, <1>12

(* load: refused, or the value whose bytes are those of the map.           *)
LEMMA RefLoadRefines ==
  ASSUME ByteMapped, NEW r \in Requests, RefLoad(r)
  PROVE  ByteMapped' /\ (RefAbstract!Refuse(r) \/ RefAbstract!Read(r))
  <1>1. r.op = "read" /\ r.addr \in Word /\ r.width \in {1, 2, 4} /\ mem' = mem
    BY RequestFacts DEF RefLoad
  <1>2. RefAbstract!Verdict(r) = Check(r.addr, r.width) BY <1>1, RefVerdict
  <1>3. CASE Check(r.addr, r.width) # "Ok"
    BY <1>1, <1>2, <1>3 DEF RefLoad, RefReply, RefAbstract!Refuse, ByteMapped
  <1>4. CASE Check(r.addr, r.width) = "Ok"
    <2>1. PICK v : v = LoadedWord(r.addr, r.width) OBVIOUS
    <2>2. /\ v \in Word
          /\ \A i \in 0 .. 3 : ByteAt(v, i) = IF i < r.width THEN mem[At(r.addr, i)] ELSE 0
      <3>1. 0 \in 0 .. 3 OBVIOUS
      <3> QED BY <1>1, <1>4, <2>1, <3>1, RefReadBytes
    <2>3. \A i \in 0 .. 3 :
            RefAbstract!Digit(v, i)
              = IF i < r.width THEN mem[RefAbstract!Wrap(r.addr + i)] ELSE 0
      BY <2>2, DigitIsByte, AbstractWords DEF At
    <2>4. refAnswer' = [kind |-> "Ok", value |-> v] BY <1>4, <2>1 DEF RefLoad, RefReply
    <2>5. RefAbstract!Read(r)
      BY <1>1, <1>2, <1>4, <2>2, <2>3, <2>4, AbstractWords DEF RefAbstract!Read
    <2> QED BY <1>1, <2>5 DEF ByteMapped
  <1> QED BY <1>3, <1>4

(* store: every byte is checked before any is written. *)
LEMMA RefStoreRefines ==
  ASSUME ByteMapped, NEW r \in Requests, RefStore(r)
  PROVE  ByteMapped' /\ (RefAbstract!Refuse(r) \/ RefAbstract!Write(r))
  <1>1. /\ r.op = "write" /\ r.addr \in Word /\ r.width \in {1, 2, 4} /\ r.value \in Word
        /\ refAnswer' = [kind |-> Check(r.addr, r.width), value |-> 0]
    BY RequestFacts DEF RefStore, RefReply
  <1>2. RefAbstract!Verdict(r) = Check(r.addr, r.width) BY <1>1, RefVerdict
  <1>3. CASE Check(r.addr, r.width) # "Ok"
    BY <1>1, <1>2, <1>3 DEF RefStore, RefAbstract!Refuse, ByteMapped
  <1>4. CASE Check(r.addr, r.width) = "Ok"
    <2>1. mem' = [a \in Word |-> IF Wrap(a - r.addr) < r.width
                                 THEN ByteAt(r.value, Wrap(a - r.addr)) ELSE mem[a]]
      BY <1>4 DEF RefStore, Stored
    <2>2. ASSUME NEW a \in Word, Wrap(a - r.addr) < r.width
          PROVE  /\ RefAbstract!Digit(r.value, Wrap(a - r.addr)) = ByteAt(r.value, Wrap(a - r.addr))
                 /\ ByteAt(r.value, Wrap(a - r.addr)) \in Byte
      <3>1. Wrap(a - r.addr) \in Nat BY <1>1, Distance
      <3>2. Wrap(a - r.addr) \in 0 .. 3 BY <1>1, <2>2, <3>1
      <3> QED BY <1>1, <3>1, <3>2, DigitIsByte, ByteAtType
    <2>3. RefAbstract!Span(r.addr, r.width) = {a \in Word : Wrap(a - r.addr) < r.width}
      BY <1>1, RefVerdict
    <2>4. mem' = [a \in Word |-> IF a \in RefAbstract!Span(r.addr, r.width)
                                 THEN RefAbstract!Digit(r.value, Wrap(a - r.addr)) ELSE mem[a]]
      BY <2>1, <2>2, <2>3
    <2>5. ByteMapped' BY <2>1, <2>2 DEF ByteMapped
    <2> QED BY <1>1, <1>2, <1>4, <2>4, <2>5, AbstractWords
        DEF RefAbstract!Write, RefAbstract!Nothing
  <1> QED BY <1>3, <1>4

(* What the reference is asked is a step of its byte map; a touch is none. *)
LEMMA RefServeRefines ==
  ASSUME ByteMapped, NEW r \in Requests, RefServe(r)
  PROVE  /\ ByteMapped'
         /\ r.op = "touch" => UNCHANGED <<mem, refRequest, refAnswer>>
         /\ r.op # "touch" => RefAbstract!Serve(r)
  <1>1. CASE r.op = "touch"
    <2>1. UNCHANGED <<mem, refRequest, refAnswer>>
      BY <1>1 DEF RefServe, WriteBytes, RefLoad, RefStore
    <2> QED BY <1>1, <2>1 DEF ByteMapped
  <1>2. CASE r.op # "touch"
    BY <1>2, RefPlaceRefines, RefLoadRefines, RefStoreRefines DEF RefServe, RefAbstract!Serve
  <1> QED BY <1>1, <1>2

(* The reference's hash map promises the same, with no more than the bytes *)
(* it was given: a store that faults has left no byte behind, for every    *)
(* sequence of requests.                                                   *)
THEOREM ReferenceIsByteMap == PairSpec => RefImplementsByteMap
  <1>1. PairInit => ByteMapped /\ RefAbstract!Init
    BY AbstractWords
    DEF PairInit, ByteMapped, NoByte, RefAbstract!Init, RefAbstract!Hole, RefAbstract!Nothing
  <1>2. ByteMapped /\ [PairNext]_pairVars
          => ByteMapped' /\ [RefAbstract!Next]_<<mem, refRequest, refAnswer>>
    <2> SUFFICES ASSUME ByteMapped, [PairNext]_pairVars
                 PROVE  ByteMapped' /\ [RefAbstract!Next]_<<mem, refRequest, refAnswer>>
      OBVIOUS
    <2>1. CASE PairNext
      <3>1. PICK r \in Requests : RefServe(r) BY <2>1 DEF PairNext, Both
      <3> QED BY <3>1, RefServeRefines DEF RefAbstract!Next
    <2>2. CASE UNCHANGED pairVars BY <2>2 DEF pairVars, ByteMapped
    <2> QED BY <2>1, <2>2
  <1> QED BY <1>1, <1>2, PTL DEF PairSpec, RefImplementsByteMap, RefAbstract!Spec

(***************************************************************************)
(* The two memories side by side.                                          *)
(***************************************************************************)
(* The primary holds what the reference holds, and zeros besides.          *)
Granular ==
  \A a \in Word : IF mem[a] # NoByte THEN Flat(pages)[a] = mem[a] ELSE Flat(pages)[a] \in {NoByte, 0}

(* What holds at every step of the pair; OnlyGranularity is part of it.    *)
PairInv ==
  /\ Table /\ ByteMapped
  /\ agreed \in BOOLEAN /\ whole \in BOOLEAN
  /\ agreed => Granular
  /\ whole => agreed /\ Flat(pages) = mem

(* Held is mapped and equal, as OnlyGranularity says it. *)
LEMMA PairInvEnough == PairInv => OnlyGranularity
  <1> SUFFICES ASSUME PairInv PROVE OnlyGranularity OBVIOUS
  <1>1. ASSUME agreed, NEW a \in Word
        PROVE  IF mem[a] # NoByte THEN Mapped(pages, a) /\ ByteIn(pages, a) = mem[a]
               ELSE Flat(pages)[a] \in {NoByte, 0}
    <2>1. CASE mem[a] # NoByte
      <3>1. Flat(pages)[a] = mem[a] BY <1>1, <2>1 DEF PairInv, Granular
      <3> QED BY <2>1, <3>1, FlatAt DEF PairInv, Table, NoByte
    <2>2. CASE mem[a] = NoByte BY <1>1, <2>2 DEF PairInv, Granular
    <2> QED BY <2>1, <2>2
  <1> QED BY <1>1 DEF PairInv, OnlyGranularity

(* A number with no remainder is a multiple. *)
LEMMA MultipleOf ==
  ASSUME NEW n \in Int, NEW d \in Nat \ {0}, n % d = 0 PROVE \E k \in Int : n = d * k
  <1>1. n \div d \in Int /\ n = d * (n \div d) + (n % d) BY DivMod
  <1>2. PICK k \in Int : k = n \div d BY <1>1
  <1>3. d * k \in Int OBVIOUS
  <1> QED BY <1>1, <1>2, <1>3

(* A slice of whole pages, in an address space of whole pages, fills the   *)
(* pages it touches.                                                       *)
LEMMA WholePagesFill ==
  ASSUME WordMod % PageSize = 0, NEW addr \in Word, addr % PageSize = 0,
         NEW size \in Nat, size <= WordMod, size % PageSize = 0,
         NEW s \in Word, Wrap(s - addr) < size, NEW a \in SamePage(s)
  PROVE  Wrap(a - addr) < size
  <1>0. PICK P \in Nat \ {0} : P = PageSize BY PageSizeAssumption
  <1>1. a \in Word /\ PageOf(a) = PageOf(s) BY DEF SamePage
  <1>2. PICK k \in Int : addr = P * k
    <2>1. addr \in Int BY WordInt
    <2> QED BY <1>0, <2>1, MultipleOf
  <1>3. PICK w \in Int : WordMod = P * w
    <2>1. WordMod \in Int BY WordModType
    <2> QED BY <1>0, <2>1, MultipleOf
  <1>4. PICK z \in Int : size = P * z
    <2>1. size \in Int OBVIOUS
    <2> QED BY <1>0, <2>1, MultipleOf
  <1>5. PICK p \in Int : p = PageOf(s)
    <2>1. s \in Int BY WordInt
    <2> QED BY <1>0, <2>1, DivMod DEF PageOf
  <1>6. PICK os \in 0 .. P - 1, oa \in 0 .. P - 1 : s = P * p + os /\ a = P * p + oa
    <2>1. s \in Int /\ a \in Int BY <1>1, WordInt
    <2>2. s = P * (s \div P) + (s % P) /\ s % P \in 0 .. P - 1
          /\ a = P * (a \div P) + (a % P) /\ a % P \in 0 .. P - 1
      BY <2>1, DivMod
    <2> QED BY <1>0, <1>1, <1>5, <2>2 DEF PageOf
  <1>7. PICK d \in Nat, q \in Int : d = Wrap(s - addr) /\ s - addr = WordMod * q + d
    <2>1. s - addr \in Int BY WordInt
    <2>2. (s - addr) \div WordMod \in Int
          /\ s - addr = WordMod * ((s - addr) \div WordMod) + ((s - addr) % WordMod)
      BY <2>1, WordModType, DivMod
    <2>3. Wrap(s - addr) \in Nat BY Distance
    <2> QED BY <2>2, <2>3 DEF Wrap
  <1>7a. PICK t \in Int, m \in Int, u \in Int :
          /\ t = WordMod * q /\ m = s /\ u = addr /\ m - u = t + d
    BY <1>7, WordModType, WordInt
  <1>8. PICK e \in Int, x \in Int : x = w * q /\ e = p - k - x OBVIOUS
  <1>9. d = P * e + os
    <2>1. WordMod * q = P * x BY <1>3, <1>8
    <2>2. P * e = P * p - P * k - P * x BY <1>8
    <2>3. P * p \in Int /\ P * k \in Int /\ P * x \in Int /\ P * e \in Int OBVIOUS
    <2>4. m = P * p + os /\ u = P * k /\ t = P * x BY <1>2, <1>6, <1>7a, <2>1
    <2> QED BY <1>7a, <2>2, <2>3, <2>4
  <1>10. 0 <= e
    <2>1. SUFFICES ASSUME e <= -1 PROVE FALSE OBVIOUS
    <2>2. P * (-1 - e) >= 0 /\ P * (-1 - e) = -P - P * e BY <2>1
    <2>3. P * e \in Int OBVIOUS
    <2> QED BY <1>9, <2>2, <2>3
  <1>11. e + 1 <= z
    <2>1. SUFFICES ASSUME e >= z PROVE FALSE OBVIOUS
    <2>2. P * (e - z) >= 0 /\ P * (e - z) = P * e - P * z BY <2>1
    <2>3. P * e \in Int /\ P * z \in Int OBVIOUS
    <2> QED BY <1>4, <1>7, <1>9, <2>2, <2>3
  <1>12. PICK n \in Int : n = P * e + oa OBVIOUS
  <1>13. n >= 0 /\ n < size
    <2>1. P * e >= 0 /\ P * e \in Int BY <1>10
    <2>2. P * (z - e - 1) >= 0 /\ P * (z - e - 1) = P * z - P * e - P BY <1>11
    <2>3. P * z \in Int OBVIOUS
    <2> QED BY <1>4, <1>12, <2>1, <2>2, <2>3
  <1>14. a - addr = WordMod * q + n
    <2>1. s - a = os - oa /\ d - n = os - oa
      <3>1. P * p \in Int /\ P * e \in Int OBVIOUS
      <3> QED BY <1>6, <1>9, <1>12, <3>1
    <2>2. PICK b \in Int : b = a BY <1>1, WordInt
    <2>3. m - b = d - n BY <1>7a, <2>1, <2>2
    <2>4. b - u = t + n BY <1>7a, <2>3
    <2> QED BY <1>7a, <2>2, <2>4
  <1>15. n \in 0 .. WordMod - 1 BY <1>13, WordModType
  <1>16. a - addr \in Int BY <1>1, WordInt
  <1>17. Wrap(a - addr) = n BY <1>14, <1>15, <1>16, WordModType, DivModUnique DEF Wrap
  <1> QED BY <1>13, <1>17

(* Where the memories are equal, so are the answers. *)
LEMMA EqualAnswers ==
  ASSUME Table, ByteMapped, Flat(pages) = mem, NEW r \in Requests,
         r.op \in {"read", "write"}
  PROVE  /\ Kind(Checked(r)) = Check(r.addr, r.width)
         /\ Checked(r) = Ok <=> Check(r.addr, r.width) = "Ok"
         /\ Checked(r) = Ok => Loaded(pages, r.addr, r.width) = LoadedWord(r.addr, r.width)
  <1>1. r.addr \in Word /\ r.width \in {1, 2, 4} BY RequestFacts
  <1>2. Abstract!Verdict(r) = RefAbstract!Verdict(r)
    BY DEF Abstract!Verdict, RefAbstract!Verdict, Abstract!Span, RefAbstract!Span,
           Abstract!Wrap, RefAbstract!Wrap, Abstract!WordMod, RefAbstract!WordMod,
           Abstract!Hole, RefAbstract!Hole
  <1>3. /\ Kind(Checked(r)) = Check(r.addr, r.width)
        /\ Checked(r) = Ok <=> Check(r.addr, r.width) = "Ok"
    BY <1>2, VerdictIsTrap, RefVerdict
  <1>4. ASSUME Checked(r) = Ok
        PROVE  Loaded(pages, r.addr, r.width) = LoadedWord(r.addr, r.width)
    <2>1. Reached(pages, r.addr, r.width) = 0 .. r.width - 1 /\ r.addr % r.width = 0
      BY <1>1, <1>4, AccessOk DEF Checked
    <2>2. PICK v, u : v = Loaded(pages, r.addr, r.width) /\ u = LoadedWord(r.addr, r.width)
      OBVIOUS
    <2>3. Check(r.addr, r.width) = "Ok" BY <1>3, <1>4
    <2>4. ASSUME NEW i \in 0 .. 3
          PROVE  v \in Word /\ u \in Word /\ ByteAt(v, i) = ByteAt(u, i)
      <3>1. IsMemory(pages) BY DEF Table
      <3>2. v \in Word /\ ByteAt(v, i) = IF i < r.width THEN mem[Cell(r.addr, i)] ELSE 0
        BY <1>1, <2>1, <2>2, <3>1, ReadBytes
      <3>3. u \in Word /\ ByteAt(u, i) = IF i < r.width THEN mem[At(r.addr, i)] ELSE 0
        BY <1>1, <2>2, <2>3, RefReadBytes
      <3> QED BY <3>2, <3>3 DEF Cell, At
    <2>5. 0 \in 0 .. 3 /\ 1 \in 0 .. 3 /\ 2 \in 0 .. 3 /\ 3 \in 0 .. 3 OBVIOUS
    <2>6. v \in Word /\ u \in Word /\ v % WordMod = u % WordMod BY <2>4, <2>5, Recomposed
    <2>7. v = u BY <2>6, WrapWord DEF Wrap
    <2> QED BY <2>2, <2>7
  <1> QED BY <1>3, <1>4

(* What a slice does to both memories, the same except for granularity.    *)
LEMMA PlacePair ==
  ASSUME PairInv, NEW r \in Requests, WriteSlice(r), WriteBytes(r)
  PROVE  /\ Granular => Granular'
         /\ WordMod % PageSize = 0 /\ WholePages(r) /\ Flat(pages) = mem => Flat(pages') = mem'
  <1>1. r.addr \in Word /\ r.data \in Seq(Byte) /\ Len(r.data) \in Nat
        /\ Len(r.data) <= WordMod /\ r.op = "place"
    BY RequestFacts DEF WriteSlice
  <1> DEFINE span == {a \in Word : Wrap(a - r.addr) < Len(r.data)}
  <1>2. Abstract!Place(r) /\ RefAbstract!Place(r)
    BY PlaceRefines, RefPlaceRefines DEF PairInv
  <1>3. /\ Abstract!Span(r.addr, Len(r.data)) = span
        /\ RefAbstract!Span(r.addr, Len(r.data)) = span
    BY <1>1, SpanFacts
  <1> HIDE DEF span
  <1>4. Flat(pages') = [a \in Word |->
                          IF a \in span THEN r.data[Wrap(a - r.addr) + 1]
                          ELSE IF Flat(pages)[a] = -1 /\ \E s \in span : a \in SamePage(s) THEN 0
                          ELSE Flat(pages)[a]]
    BY <1>2, <1>3, AbstractWords DEF Abstract!Place, Abstract!Exist, Abstract!Hole
  <1>5. mem' = [a \in Word |-> IF a \in span THEN r.data[Wrap(a - r.addr) + 1] ELSE mem[a]]
    <2>1. mem' = [a \in Word |->
                    IF a \in span THEN r.data[Wrap(a - r.addr) + 1]
                    ELSE IF mem[a] = -1 /\ \E s \in span : a \in One(s) THEN 0
                    ELSE mem[a]]
      BY <1>2, <1>3, AbstractWords DEF RefAbstract!Place, RefAbstract!Exist, RefAbstract!Hole
    <2>2. \A a \in Word : (\E s \in span : a \in One(s)) <=> a \in span BY DEF One
    <2> QED BY <2>1, <2>2
  <1>6. ASSUME Granular, NEW a \in Word
        PROVE  IF mem'[a] # NoByte THEN Flat(pages')[a] = mem'[a]
               ELSE Flat(pages')[a] \in {NoByte, 0}
    <2>1. CASE a \in span BY <1>4, <1>5, <2>1
    <2>2. CASE a \notin span
      <3>1. mem'[a] = mem[a] /\ Flat(pages')[a] \in {Flat(pages)[a], 0} BY <1>4, <1>5, <2>2
      <3>2. Flat(pages)[a] # -1 => Flat(pages')[a] = Flat(pages)[a] BY <1>4, <2>2
      <3>3. IF mem[a] # NoByte THEN Flat(pages)[a] = mem[a] ELSE Flat(pages)[a] \in {NoByte, 0}
        BY <1>6 DEF Granular
      <3> QED BY <3>1, <3>2, <3>3 DEF NoByte
    <2> QED BY <2>1, <2>2
  <1>7. ASSUME WordMod % PageSize = 0, WholePages(r), Flat(pages) = mem
        PROVE  Flat(pages') = mem'
    <2>1. r.addr % PageSize = 0 /\ Len(r.data) % PageSize = 0 BY <1>1, <1>7 DEF WholePages
    <2>2. ASSUME NEW a \in Word, NEW s \in span, a \in SamePage(s) PROVE a \in span
      <3>1. s \in Word /\ Wrap(s - r.addr) < Len(r.data) BY DEF span
      <3>2. Wrap(a - r.addr) < Len(r.data) BY <1>1, <1>7, <2>1, <2>2, <3>1, WholePagesFill
      <3> QED BY <3>2 DEF span
    <2>3. \A a \in Word : (\E s \in span : a \in SamePage(s)) => a \in span BY <2>2
    <2> QED BY <1>4, <1>5, <1>7, <2>3
  <1>8. Granular => Granular' BY <1>6 DEF Granular
  <1> QED BY <1>7, <1>8

(* Allocation adds zeros. *)
LEMMA TouchPair ==
  ASSUME PairInv, NEW r \in Requests, Touch(r), mem' = mem, Granular PROVE Granular'
  <1>1. Abstract!Touch(r) /\ r.addr \in Word BY TouchRefines, RequestFacts DEF PairInv
  <1>2. Flat(pages') = [a \in Word |->
                          IF a \in {r.addr} THEN IF Flat(pages)[a] = -1 THEN 0 ELSE Flat(pages)[a]
                          ELSE IF Flat(pages)[a] = -1 /\ \E s \in {r.addr} : a \in SamePage(s)
                               THEN 0
                          ELSE Flat(pages)[a]]
    BY <1>1, AbstractWords DEF Abstract!Touch, Abstract!Exist, Abstract!Hole
  <1>3. ASSUME NEW a \in Word
        PROVE  IF mem[a] # NoByte THEN Flat(pages')[a] = mem[a]
               ELSE Flat(pages')[a] \in {NoByte, 0}
    <2>1. IF mem[a] # NoByte THEN Flat(pages)[a] = mem[a] ELSE Flat(pages)[a] \in {NoByte, 0}
      BY DEF Granular
    <2>2. IF Flat(pages)[a] = -1 THEN Flat(pages')[a] \in {0, -1}
          ELSE Flat(pages')[a] = Flat(pages)[a]
      BY <1>2
    <2> QED BY <2>1, <2>2 DEF NoByte
  <1> QED BY <1>3 DEF Granular

(* A store that both refuse or both perform keeps them together.           *)
LEMMA WritePair ==
  ASSUME PageSize % 4 = 0, PairInv, NEW r \in Requests, Write(r), RefStore(r),
         Kind(Checked(r)) = Check(r.addr, r.width)
  PROVE  /\ Granular => Granular'
         /\ Flat(pages) = mem => Flat(pages') = mem'
  <1>1. /\ r.op = "write" /\ r.addr \in Word /\ r.width \in {1, 2, 4} /\ IsMemory(pages)
        /\ pages' = Written(pages, r.addr, r.value, r.width)
        /\ r.op \in {"read", "write"}
    BY RequestFacts DEF Write, PairInv, Table
  <1>2. CASE Checked(r) # Ok
    <2>1. Check(r.addr, r.width) # "Ok" BY <1>1, <1>2, VerdictIsTrap DEF PairInv
    <2>2. pages' = pages BY <1>1, <1>2, FaultingWrite DEF Checked
    <2>3. mem' = mem BY <2>1 DEF RefStore
    <2> QED BY <2>2, <2>3 DEF Granular
  <1>3. CASE Checked(r) = Ok
    <2>1. Check(r.addr, r.width) = "Ok" BY <1>1, <1>3, VerdictIsTrap DEF PairInv
    <2>2. Flat(pages')
            = [a \in Word |-> IF Wrap(a - r.addr) < r.width THEN ByteAt(r.value, Wrap(a - r.addr))
                              ELSE Flat(pages)[a]]
      BY <1>1, <1>3, FlatWritten DEF Checked
    <2>3. mem' = [a \in Word |-> IF Wrap(a - r.addr) < r.width
                                 THEN ByteAt(r.value, Wrap(a - r.addr)) ELSE mem[a]]
      BY <2>1 DEF RefStore, Stored
    <2>4. ASSUME Granular, NEW a \in Word
          PROVE  IF mem'[a] # NoByte THEN Flat(pages')[a] = mem'[a]
                 ELSE Flat(pages')[a] \in {NoByte, 0}
      <3>1. CASE Wrap(a - r.addr) < r.width BY <2>2, <2>3, <3>1
      <3>2. CASE ~(Wrap(a - r.addr) < r.width)
        <4>1. mem'[a] = mem[a] /\ Flat(pages')[a] = Flat(pages)[a] BY <2>2, <2>3, <3>2
        <4> QED BY <4>1, <2>4 DEF Granular
      <3> QED BY <3>1, <3>2
    <2>5. Granular => Granular' BY <2>4 DEF Granular
    <2> QED BY <2>2, <2>3, <2>5
  <1> QED BY <1>2, <1>3

(* One request to both. *)
LEMMA PairStep ==
  ASSUME PageSize % 4 = 0, WordMod % PageSize = 0, PairInv, NEW r \in Requests, Both(r)
  PROVE  PairInv'
  <1>1. Serve(r) /\ RefServe(r) /\ request' = r BY DEF Both, Serve
  <1>2. Table' /\ ByteMapped' BY <1>1, ServeRefines, RefServeRefines DEF PairInv
  <1>3. agreed' = (agreed /\ Same') /\ whole' = (whole /\ r.op # "touch" /\ WholePages(r))
    BY DEF Both
  <1>4. agreed' \in BOOLEAN /\ whole' \in BOOLEAN BY <1>3
  <1>5. Same' <=> (r.op # "touch" =>
                     refAnswer' = [kind |-> Kind(answer'.trap), value |-> answer'.value])
    BY <1>1 DEF Same
  <1>6. CASE r.op = "touch"
    <2>1. Touch(r) /\ mem' = mem
      BY <1>1, <1>6, RefServeRefines DEF Serve, WriteSlice, Read, Write, PairInv
    <2>2. agreed' => Granular' BY <1>3, <2>1, TouchPair DEF PairInv
    <2>3. ~whole' BY <1>3, <1>6
    <2> QED BY <1>2, <1>4, <2>2, <2>3 DEF PairInv
  <1>7. CASE r.op = "place"
    <2>1. WriteSlice(r) /\ WriteBytes(r)
      BY <1>1, <1>7 DEF Serve, Touch, Read, Write, RefServe, RefLoad, RefStore
    <2>2. Same'
      BY <2>1, <1>5 DEF WriteSlice, WriteBytes, Reply, RefReply, Kind, Ok
    <2>3. agreed' => Granular' BY <1>3, <2>1, PlacePair DEF PairInv
    <2>4. whole' => agreed' /\ Flat(pages') = mem'
      BY <1>3, <2>1, <2>2, PlacePair DEF PairInv
    <2> QED BY <1>2, <1>4, <2>3, <2>4 DEF PairInv
  <1>8. CASE r.op = "read"
    <2>1. Read(r) /\ RefLoad(r)
      BY <1>1, <1>8 DEF Serve, Touch, WriteSlice, Write, RefServe, WriteBytes, RefStore
    <2>2. pages' = pages /\ mem' = mem BY <2>1 DEF Read, RefLoad
    <2>3. Flat(pages) = mem => Same'
      <3>1. SUFFICES ASSUME Flat(pages) = mem PROVE Same' OBVIOUS
      <3>2. /\ Kind(Checked(r)) = Check(r.addr, r.width)
            /\ Checked(r) = Ok <=> Check(r.addr, r.width) = "Ok"
            /\ Checked(r) = Ok => Loaded(pages, r.addr, r.width) = LoadedWord(r.addr, r.width)
        BY <1>8, <3>1, EqualAnswers DEF PairInv
      <3> QED BY <1>5, <2>1, <3>2 DEF Read, RefLoad, Reply, RefReply
    <2>4. agreed' => Granular' BY <1>3, <2>2 DEF PairInv, Granular
    <2>5. whole' => agreed' /\ Flat(pages') = mem' BY <1>3, <2>2, <2>3 DEF PairInv
    <2> QED BY <1>2, <1>4, <2>4, <2>5 DEF PairInv
  <1>9. CASE r.op = "write"
    <2>1. Write(r) /\ RefStore(r)
      BY <1>1, <1>9 DEF Serve, Touch, WriteSlice, Read, RefServe, WriteBytes, RefLoad
    <2>2. Same' <=> Kind(Checked(r)) = Check(r.addr, r.width)
      BY <1>5, <1>9, <2>1 DEF Write, RefStore, Reply, RefReply
    <2>3. Flat(pages) = mem => Same' BY <1>9, <2>2, EqualAnswers DEF PairInv
    <2>4. Same' => (Granular => Granular') /\ (Flat(pages) = mem => Flat(pages') = mem')
      BY <2>1, <2>2, WritePair
    <2>5. agreed' => Granular' BY <1>3, <2>4 DEF PairInv
    <2>6. whole' => agreed' /\ Flat(pages') = mem' BY <1>3, <2>3, <2>4 DEF PairInv
    <2> QED BY <1>2, <1>4, <2>5, <2>6 DEF PairInv
  <1>10. r.op \in {"touch", "place", "read", "write"} BY RequestsAssumption
  <1> QED BY <1>6, <1>7, <1>8, <1>9, <1>10

(* Both memories start empty. *)
LEMMA PairStart == PairInit => PairInv
  <1> SUFFICES ASSUME PairInit PROVE PairInv OBVIOUS
  <1>1. Table BY InitRefines DEF PairInit
  <1>2. mem = [a \in Word |-> NoByte] /\ ByteMapped BY DEF PairInit, ByteMapped
  <1>3. Flat(pages) = mem BY <1>2, EmptyMemory DEF PairInit, Init, NoByte
  <1>4. Granular BY <1>2, <1>3 DEF Granular
  <1> QED BY <1>1, <1>2, <1>3, <1>4 DEF PairInit, PairInv

(* While the two memories have answered alike, they hold the same bytes up *)
(* to zeros the primary allocated; and whole pages, what build fills, keep *)
(* them equal in every byte and every answer, for every page size that     *)
(* holds whole words and divides the address space.                        *)
THEOREM GranularityIsAll ==
  ASSUME PageSize % 4 = 0, WordMod % PageSize = 0
  PROVE  PairSpec => []OnlyGranularity
  <1>1. PairInit => PairInv BY PairStart
  <1>2. PairInv /\ [PairNext]_pairVars => PairInv'
    <2> SUFFICES ASSUME PairInv, [PairNext]_pairVars PROVE PairInv' OBVIOUS
    <2>1. CASE PairNext BY <2>1, PairStep DEF PairNext
    <2>2. CASE UNCHANGED pairVars
      BY <2>2 DEF pairVars, PairInv, Table, ByteMapped, Granular
    <2> QED BY <2>1, <2>2
  <1>3. PairInv => OnlyGranularity BY PairInvEnough
  <1> QED BY <1>1, <1>2, <1>3, PTL DEF PairSpec
=============================================================================
