---------------------------- MODULE MemoryProofs ----------------------------
(***************************************************************************)
(* Lemmas on the memory operators, for every byte base and page size.      *)
(***************************************************************************)
EXTENDS Memory, InstructionProofs

(***************************************************************************)
(* Memory operators.                                                       *)
(***************************************************************************)
LEMMA PageFacts ==
  ASSUME NEW addr \in Word
  PROVE  PageOf(addr) \in PageNo /\ OffsetOf(addr) \in Offset
  <1>1. addr \in Nat /\ WordMod - 1 \in Nat /\ addr <= WordMod - 1
    BY WordModType DEF Word
  <1>2. /\ addr \div PageSize \in Nat /\ (WordMod - 1) \div PageSize \in Nat
        /\ addr \div PageSize <= (WordMod - 1) \div PageSize
    BY <1>1, PageSizeAssumption, DivNat, DivMono
  <1>3. addr % PageSize \in 0 .. PageSize - 1 BY <1>1, PageSizeAssumption, DivMod
  <1> QED BY <1>2, <1>3 DEF PageOf, OffsetOf, PageNo, Offset

(* The address of each byte of an access, wrapped, is a word.             *)
LEMMA CellType == ASSUME NEW addr \in Word, NEW i \in Int PROVE Cell(addr, i) \in Word
  BY WrapType DEF Cell, Word

(* Every mapped address holds a byte.                                     *)
LEMMA ByteInType ==
  ASSUME NEW mem, IsMemory(mem), NEW addr \in Word, Mapped(mem, addr)
  PROVE  ByteIn(mem, addr) \in Byte
  BY PageFacts DEF IsMemory, Mapped, ByteIn

(* A trap is not Ok. *)
LEMMA TrapNotOk ==
  ASSUME NEW pc, NEW addr, NEW width
  PROVE  Misaligned(pc, addr, width) # Ok /\ AccessFault(pc, addr) # Ok
  <1>1. Misaligned(pc, addr, width).kind # Ok.kind BY DEF Misaligned, Ok
  <1>2. AccessFault(pc, addr).kind # Ok.kind BY DEF AccessFault, Ok
  <1> QED BY <1>1, <1>2

(* A successful access reaches every byte. *)
LEMMA AccessOk ==
  ASSUME NEW mem, NEW addr, NEW width \in {1, 2, 4}, NEW pc
  PROVE  Access(mem, addr, width, pc) = Ok
           <=> Reached(mem, addr, width) = 0 .. width - 1 /\ addr % width = 0
  <1>1. CASE addr % width # 0
    <2>1. 0 \in 0 .. width - 1 /\ 0 \notin Reached(mem, addr, width) BY <1>1 DEF Reached
    <2>2. Access(mem, addr, width, pc) = Misaligned(pc, addr, width)
      BY <1>1, <2>1 DEF Access
    <2> QED BY <1>1, <2>2, TrapNotOk
  <1>2. CASE addr % width = 0 /\ Reached(mem, addr, width) = 0 .. width - 1
    BY <1>2 DEF Access
  <1>3. CASE addr % width = 0 /\ Reached(mem, addr, width) # 0 .. width - 1
    <2>1. PICK c : Access(mem, addr, width, pc) = AccessFault(pc, c) BY <1>3 DEF Access
    <2> QED BY <1>3, <2>1, TrapNotOk
  <1> QED BY <1>1, <1>2, <1>3

(* The bytes of an access. *)
CellsOf(addr, width) == {Cell(addr, i) : i \in 0 .. width - 1}

(* What an access answers when it is not Ok: it faults on a byte of its    *)
(* own, one whose page is missing.                                         *)
LEMMA AccessTrap ==
  ASSUME NEW mem, NEW addr \in Word, NEW width \in {1, 2, 4}, NEW pc,
         Access(mem, addr, width, pc) # Ok
  PROVE  \/ /\ Access(mem, addr, width, pc) = Misaligned(pc, addr, width)
            /\ addr % width # 0
         \/ \E c \in Word : /\ Access(mem, addr, width, pc) = AccessFault(pc, c)
                            /\ ~Mapped(mem, c)
                            /\ addr % width = 0 /\ c \in CellsOf(addr, width)
  <1>1. CASE addr % width # 0 BY <1>1 DEF Access
  <1>2. CASE addr % width = 0
    <2>1. Reached(mem, addr, width) # 0 .. width - 1 BY <1>2, AccessOk
    <2> DEFINE First(k) == /\ k \notin Reached(mem, addr, width)
                           /\ \A j \in 0 .. k - 1 : j \in Reached(mem, addr, width)
    <2>2. \E k \in 0 .. width - 1 : ~Mapped(mem, Cell(addr, k))
      BY <1>2, <2>1 DEF Reached
    <2>3. \E k \in 0 .. width - 1 : First(k)
      <3>1. CASE width = 1 BY <3>1, <1>2, <2>2 DEF Reached
      <3>2. CASE width = 2 BY <3>2, <1>2, <2>2 DEF Reached
      <3>3. CASE width = 4 BY <3>3, <1>2, <2>2 DEF Reached
      <3> QED BY <3>1, <3>2, <3>3
    <2> DEFINE i == CHOOSE k \in 0 .. width - 1 : First(k)
    <2>4. i \in 0 .. width - 1 /\ First(i) BY <2>3
    <2>5. Access(mem, addr, width, pc) = AccessFault(pc, Cell(addr, i))
      BY <1>2, <2>1 DEF Access
    <2> HIDE DEF i
    <2>6. ~Mapped(mem, Cell(addr, i))
      <3>1. SUFFICES ASSUME Mapped(mem, Cell(addr, i)) PROVE i \in Reached(mem, addr, width)
        BY <2>4
      <3>2. ASSUME NEW j \in 0 .. i PROVE Mapped(mem, Cell(addr, j))
        <4>1. CASE j = i BY <4>1, <3>1
        <4>2. CASE j # i
          <5>1. j \in 0 .. i - 1 BY <4>2, <2>4
          <5>2. j \in Reached(mem, addr, width) BY <5>1, <2>4
          <5> QED BY <5>2 DEF Reached
        <4> QED BY <4>1, <4>2
      <3> QED BY <1>2, <2>4, <3>2 DEF Reached
    <2>7. Cell(addr, i) \in Word /\ Cell(addr, i) \in CellsOf(addr, width)
      BY <2>4, CellType DEF CellsOf
    <2> QED BY <1>2, <2>5, <2>6, <2>7
  <1> QED BY <1>1, <1>2

(* A successful read returns a word. *)
LEMMA LoadedType ==
  ASSUME NEW mem, IsMemory(mem), NEW addr \in Word, NEW width \in {1, 2, 4},
         Reached(mem, addr, width) = 0 .. width - 1
  PROVE  Loaded(mem, addr, width) \in Word
  <1> DEFINE b(i) == IF i < width THEN ByteIn(mem, Cell(addr, i)) ELSE 0
  <1>1. ASSUME NEW i \in 0 .. 3 PROVE b(i) \in Byte
    <2>1. CASE i < width
      <3>1. i \in 0 .. width - 1 BY <2>1
      <3>2. i \in Reached(mem, addr, width) /\ i \in 0 .. i BY <3>1
      <3>3. Mapped(mem, Cell(addr, i)) BY <3>2 DEF Reached
      <3> QED BY <2>1, <3>3, CellType, ByteInType
    <2>2. CASE ~(i < width) BY <2>2, BaseAssumption DEF Byte
    <2> QED BY <2>1, <2>2
  <1>2. PICK d0 \in Byte, d1 \in Byte, d2 \in Byte, d3 \in Byte :
          d0 = b(0) /\ d1 = b(1) /\ d2 = b(2) /\ d3 = b(3)
    BY <1>1
  <1>3. Loaded(mem, addr, width) = d0 + d1 * Base + d2 * HalfMod + d3 * (HalfMod * Base)
    BY <1>2 DEF Loaded
  <1>4. d0 + d1 * Base + d2 * HalfMod + d3 * (HalfMod * Base) \in Word
    <2> Base \in Nat /\ Base >= 2 BY BaseAssumption
    <2> DEFINE half == d0 + d1 * Base
               upper == d2 + d3 * Base
    <2>1. half \in 0 .. HalfMod - 1 /\ upper \in 0 .. HalfMod - 1
      BY DEF Byte, HalfMod
    <2>2. d2 * HalfMod + d3 * (HalfMod * Base) = upper * HalfMod
      BY DEF Byte, HalfMod
    <2>3. WordMod = HalfMod * HalfMod BY DEF WordMod, HalfMod
    <2>4. half + upper * HalfMod \in 0 .. HalfMod * HalfMod - 1
      <3> HIDE DEF half, upper
      <3> QED BY <2>1, HalfModType
    <2>5. d0 + d1 * Base + d2 * HalfMod + d3 * (HalfMod * Base) = half + upper * HalfMod
      BY <2>2, HalfModType DEF Byte
    <2> QED BY <2>3, <2>4, <2>5 DEF Word
  <1> QED BY <1>3, <1>4

(***************************************************************************)
(* Page-aligned accesses.  When a page is a multiple of four bytes long,   *)
(* an aligned access lies within one page: its bytes are all mapped or all *)
(* unmapped, so a write that faults has stored nothing.                    *)
(***************************************************************************)
LEMMA ScaledSplit ==
  ASSUME NEW k \in Int, NEW m \in Nat \ {0}, NEW q \in Int, NEW r \in 0 .. m - 1,
         k = m * q + r, NEW s \in {1, 2, 4}
  PROVE  s * k = (s * m) * q + s * r
  <1>1. CASE s = 1 BY <1>1
  <1>2. CASE s = 2 BY <1>2
  <1>3. CASE s = 4 BY <1>3
  <1> QED BY <1>1, <1>2, <1>3

(* Scaling a number and its divisor scales the remainder only.            *)
LEMMA ScaledMod ==
  ASSUME NEW k \in Int, NEW m \in Nat \ {0}, NEW s \in {1, 2, 4}
  PROVE  (s * k) % (s * m) = s * (k % m) /\ (s * k) \div (s * m) = k \div m
  <1>1. PICK q \in Int, r \in 0 .. m - 1 : k = m * q + r /\ q = k \div m /\ r = k % m
    BY DivMod
  <1>2. s * k = (s * m) * q + s * r
    <2>1. k = m * q + r BY <1>1
    <2> QED BY <2>1, ScaledSplit
  <1>3. s * r \in 0 .. s * m - 1 /\ s * m \in Nat \ {0} /\ s * k \in Int OBVIOUS
  <1>4. (s * k) \div (s * m) = q /\ (s * k) % (s * m) = s * r
    BY <1>2, <1>3, DivModUnique
  <1> QED BY <1>1, <1>4

(* Names for the two facts, so that the provers match them as a whole.     *)
Multiple(n, m) == n % m = 0
Room(addr, i, d) == (addr + i) \div d = addr \div d /\ (addr + i) % d = (addr % d) + i

(* An aligned address has room for its access below the next multiple.     *)
LEMMA AlignedRoom ==
  ASSUME NEW addr \in Int, NEW width \in {1, 2, 4}, Multiple(addr, width),
         NEW d \in Nat \ {0}, Multiple(d, 4), NEW i \in 0 .. width - 1
  PROVE  Room(addr, i, d)
  <1> addr % width = 0 /\ d % 4 = 0 BY DEF Multiple
  <1>1. PICK k \in Int : addr = width * k
    <2>1. PICK k \in Int : addr = width * k + (addr % width)
      <3>1. width \in Nat \ {0} OBVIOUS
      <3> QED BY <3>1, DivMod
    <2> QED BY <2>1
  <1>2. PICK m \in Nat \ {0} : d = width * m
    <2>1. d = 4 * (d \div 4) /\ d \div 4 \in Nat \ {0}
      <3>1. d = 4 * (d \div 4) + (d % 4) /\ d \div 4 \in Int BY DivMod
      <3> QED BY <3>1
    <2>2. PICK n \in Nat \ {0} : d = 4 * n BY <2>1
    <2>3. CASE width = 1 BY <2>3
    <2>4. CASE width = 2
      <3>1. 2 * n \in Nat \ {0} /\ d = 2 * (2 * n) BY <2>2
      <3> QED BY <2>4, <3>1
    <2>5. CASE width = 4 BY <2>2, <2>5
    <2> QED BY <2>3, <2>4, <2>5
  <1>3. PICK q \in Int, r \in 0 .. m - 1 : k = m * q + r /\ r = k % m /\ q = k \div m
    BY DivMod
  <1>4. addr \div d = q /\ addr % d = width * r
    <2>1. (width * k) % (width * m) = width * (k % m) /\ (width * k) \div (width * m) = k \div m
      BY ScaledMod
    <2> QED BY <2>1, <1>1, <1>2, <1>3
  <1>5. addr = d * q + width * r
    <2>1. k = m * q + r BY <1>3
    <2>2. width * k = (width * m) * q + width * r BY <2>1, ScaledSplit
    <2> QED BY <2>2, <1>1, <1>2
  <1>6. width * r + i \in 0 .. width * m - 1
    <2>1. CASE width = 1 BY <2>1
    <2>2. CASE width = 2 BY <2>2
    <2>3. CASE width = 4 BY <2>3
    <2> QED BY <2>1, <2>2, <2>3
  <1>7. PICK u \in 0 .. d - 1 : u = width * r + i BY <1>2, <1>6
  <1>8. addr + i = d * q + u /\ addr + i \in Int BY <1>5, <1>7
  <1>9. (addr + i) \div d = q /\ (addr + i) % d = u BY <1>8, DivModUnique
  <1> QED BY <1>4, <1>7, <1>9 DEF Room

(* The address space is a whole number of words.                          *)
LEMMA WordModBy4 == WordMod % 4 = 0
  <1>1. PICK k \in Nat : WordMod = 4 * k BY WordModMultiple
  <1>2. WordMod = 4 * k + 0 /\ 0 \in 0 .. 4 - 1 BY <1>1
  <1> QED BY <1>2, WordModType, DivModUnique

(* The bytes of an aligned access do not wrap and share their page.        *)
LEMMA AlignedCells ==
  ASSUME PageSize % 4 = 0, NEW addr \in Word, NEW width \in {1, 2, 4}, addr % width = 0,
         NEW i \in 0 .. width - 1
  PROVE  /\ Cell(addr, i) = addr + i
         /\ PageOf(Cell(addr, i)) = PageOf(addr)
         /\ OffsetOf(Cell(addr, i)) = OffsetOf(addr) + i
  <1>0. addr \in Int BY DEF Word
  <1>1. Room(addr, i, WordMod) /\ Room(addr, i, PageSize)
    <2>1. Multiple(addr, width) /\ Multiple(WordMod, 4) /\ Multiple(PageSize, 4)
      BY WordModBy4 DEF Multiple
    <2> QED BY <1>0, <2>1, WordModType, PageSizeAssumption, AlignedRoom
  <1>2. addr % WordMod = addr BY WrapWord DEF Wrap
  <1>3. Cell(addr, i) = addr + i BY <1>1, <1>2 DEF Room, Cell, Wrap
  <1> QED BY <1>1, <1>3 DEF Room, PageOf, OffsetOf

(* So an access that faults does so on the page it points to.              *)
LEMMA FaultingPage ==
  ASSUME PageSize % 4 = 0, NEW mem, NEW addr \in Word, NEW width \in {1, 2, 4}, NEW pc,
         Access(mem, addr, width, pc).kind = "AccessFault"
  PROVE  PageOf(Access(mem, addr, width, pc).addr) = PageOf(addr) /\ addr % width = 0
  <1>1. Access(mem, addr, width, pc) # Ok BY DEF Ok
  <1>2. Access(mem, addr, width, pc) # Misaligned(pc, addr, width) BY DEF Misaligned
  <1>3. PICK c \in CellsOf(addr, width) :
          Access(mem, addr, width, pc) = AccessFault(pc, c) /\ addr % width = 0
    BY <1>1, <1>2, AccessTrap
  <1>4. PICK i \in 0 .. width - 1 : c = Cell(addr, i) BY DEF CellsOf
  <1> QED BY <1>3, <1>4, AlignedCells DEF AccessFault

(* A write that traps leaves the memory as it was. *)
LEMMA FaultingWrite ==
  ASSUME PageSize % 4 = 0, NEW mem, IsMemory(mem), NEW addr \in Word,
         NEW width \in {1, 2, 4}, NEW pc, Access(mem, addr, width, pc) # Ok, NEW value
  PROVE  Written(mem, addr, value, width) = mem
  <1>1. Reached(mem, addr, width) = {}
    <2>1. SUFFICES ASSUME NEW i \in Reached(mem, addr, width) PROVE FALSE OBVIOUS
    <2>2. addr % width = 0 /\ i \in 0 .. width - 1 /\ 0 \in 0 .. i
      BY <2>1 DEF Reached
    <2>3. Mapped(mem, Cell(addr, 0)) /\ 0 \in 0 .. width - 1 BY <2>1, <2>2 DEF Reached
    <2>4. \A j \in 0 .. width - 1 : Mapped(mem, Cell(addr, j))
      BY <2>2, <2>3, AlignedCells DEF Mapped
    <2>5. Reached(mem, addr, width) = 0 .. width - 1 BY <2>2, <2>4 DEF Reached
    <2> QED BY <2>2, <2>5, AccessOk
  <1>2. Written(mem, addr, value, width) = [p \in DOMAIN mem |-> [o \in Offset |-> mem[p][o]]]
    BY <1>1 DEF Written
  <1> QED BY <1>2 DEF IsMemory

(* A write keeps the page table a memory with the same pages. *)
LEMMA WrittenType ==
  ASSUME NEW mem, IsMemory(mem), NEW addr \in Word, NEW value \in Word,
         NEW width \in {1, 2, 4}
  PROVE  IsMemory(Written(mem, addr, value, width))
         /\ DOMAIN Written(mem, addr, value, width) = DOMAIN mem
  <1>1. ASSUME NEW i \in Reached(mem, addr, width) PROVE ByteAt(value, i) \in Byte
    BY ByteAtType DEF Reached
  <1> QED BY <1>1 DEF Written, IsMemory

(***************************************************************************)
(* Little-endian bytes put back together.                                  *)
(***************************************************************************)
(* The bytes of a value, most significant ones cut off. *)
LEMMA Recomposed ==
  ASSUME NEW v \in Word
  PROVE  /\ ByteAt(v, 0) = v % Base
         /\ ByteAt(v, 0) + ByteAt(v, 1) * Base = v % HalfMod
         /\ ByteAt(v, 0) + ByteAt(v, 1) * Base + ByteAt(v, 2) * HalfMod
              + ByteAt(v, 3) * (HalfMod * Base) = v % WordMod
  <1>1. /\ v \in Int /\ Base \in Nat \ {0} /\ HalfMod \in Nat \ {0}
        /\ HalfMod * Base \in Nat \ {0}
    BY BaseAssumption, WordModType, HalfModType DEF Word
  <1>2. v % HalfMod = (v % Base) + ByteAt(v, 1) * Base BY <1>1, Digit DEF ByteAt, HalfMod
  <1>3. v % (HalfMod * Base) = (v % HalfMod) + ByteAt(v, 2) * HalfMod
    BY <1>1, Digit DEF ByteAt
  <1>4. v % ((HalfMod * Base) * Base) = (v % (HalfMod * Base)) + ByteAt(v, 3) * (HalfMod * Base)
    BY <1>1, Digit DEF ByteAt
  <1>5. (HalfMod * Base) * Base = WordMod BY <1>1 DEF WordMod, HalfMod
  <1>6. ByteAt(v, 0) = v % Base BY DEF ByteAt
  <1> QED BY <1>2, <1>3, <1>4, <1>5, <1>6

(* Where Written looks for the byte of a cell. *)
LEMMA IndexOfCell ==
  ASSUME NEW addr \in Word, NEW k \in 0 .. 3
  PROVE  Wrap((PageOf(Cell(addr, k)) * PageSize + OffsetOf(Cell(addr, k))) - addr) = k
  <1>1. PICK c \in Word : c = Cell(addr, k) BY CellType
  <1>2. c \in Int /\ addr \in Int /\ WordMod \in Nat \ {0} /\ k \in 0 .. WordMod - 1
    BY WordModType DEF Word
  <1>3. PageOf(c) * PageSize + OffsetOf(c) = c
    <2>1. /\ c \div PageSize \in Int /\ c % PageSize \in 0 .. PageSize - 1
          /\ c = PageSize * (c \div PageSize) + (c % PageSize)
      BY <1>2, PageSizeAssumption, DivMod
    <2> QED BY <2>1, PageSizeAssumption DEF PageOf, OffsetOf
  <1>4. PICK q \in Int : addr + k = WordMod * q + c
    <2>1. addr + k \in Int BY <1>2
    <2>2. /\ (addr + k) \div WordMod \in Int
          /\ addr + k = WordMod * ((addr + k) \div WordMod) + ((addr + k) % WordMod)
      BY <1>2, <2>1, DivMod
    <2> QED BY <1>1, <2>2 DEF Cell, Wrap
  <1>5. PICK n \in Int, p \in Int : n = c - addr /\ n = WordMod * p + k
    <2>1. PICK s \in Int : s = WordMod * q /\ WordMod * (-q) = -s BY <1>2
    <2>2. c - addr \in Int /\ -q \in Int /\ c - addr = WordMod * (-q) + k
      BY <1>2, <1>4, <2>1
    <2> QED BY <2>2
  <1>6. n % WordMod = k BY <1>2, <1>5, DivModUnique
  <1>7. Wrap(c - addr) = k BY <1>5, <1>6 DEF Wrap
  <1> QED BY <1>1, <1>3, <1>7

(* A write that succeeds is read back. *)
LEMMA ReadBack ==
  ASSUME NEW mem, IsMemory(mem), NEW addr \in Word, NEW value \in Word,
         NEW width \in {1, 2, 4}, NEW pc, Access(mem, addr, width, pc) = Ok
  PROVE  Loaded(Written(mem, addr, value, width), addr, width)
           = value % (CASE width = 1 -> Base [] width = 2 -> HalfMod [] OTHER -> WordMod)
  <1> DEFINE new == Written(mem, addr, value, width)
  <1>1. Reached(mem, addr, width) = 0 .. width - 1 BY AccessOk
  <1>2. ASSUME NEW k \in 0 .. width - 1 PROVE ByteIn(new, Cell(addr, k)) = ByteAt(value, k)
    <2>1. k \in 0 .. 3 /\ k \in 0 .. k OBVIOUS
    <2>2. PICK c \in Word : c = Cell(addr, k) BY <2>1, CellType
    <2>3. k \in Reached(mem, addr, width) BY <1>1
    <2>4. Mapped(mem, c) BY <2>1, <2>2, <2>3 DEF Reached
    <2>5. PageOf(c) \in DOMAIN mem /\ OffsetOf(c) \in Offset
      BY <2>4, PageFacts DEF Mapped
    <2>6. Wrap((PageOf(c) * PageSize + OffsetOf(c)) - addr) = k BY <2>1, <2>2, IndexOfCell
    <2>7. ByteIn(new, c) = ByteAt(value, k) BY <2>3, <2>5, <2>6 DEF ByteIn, Written
    <2> QED BY <2>2, <2>7
  <1>3. ASSUME NEW k \in 0 .. 3 PROVE ByteAt(value, k) \in Int
    BY ByteAtType, BaseAssumption DEF Byte
  <1>4. Base \in Int /\ HalfMod \in Int /\ HalfMod * Base \in Int
    BY BaseAssumption, HalfModType
  <1> HIDE DEF new
  <1>5. CASE width = 1
    <2>1. Loaded(new, addr, width) = ByteAt(value, 0) + 0 * Base + 0 * HalfMod
                                     + 0 * (HalfMod * Base)
      BY <1>2, <1>5 DEF Loaded
    <2>2. Loaded(new, addr, width) = ByteAt(value, 0) BY <1>3, <1>4, <2>1
    <2> QED BY <1>5, <2>2, Recomposed DEF new
  <1>6. CASE width = 2
    <2>1. Loaded(new, addr, width) = ByteAt(value, 0) + ByteAt(value, 1) * Base + 0 * HalfMod
                                     + 0 * (HalfMod * Base)
      BY <1>2, <1>6 DEF Loaded
    <2>2. Loaded(new, addr, width) = ByteAt(value, 0) + ByteAt(value, 1) * Base
      BY <1>3, <1>4, <2>1
    <2> QED BY <1>6, <2>2, Recomposed DEF new
  <1>7. CASE width = 4
    <2>1. Loaded(new, addr, width)
            = ByteAt(value, 0) + ByteAt(value, 1) * Base + ByteAt(value, 2) * HalfMod
              + ByteAt(value, 3) * (HalfMod * Base)
      BY <1>2, <1>7 DEF Loaded
    <2> QED BY <1>7, <2>1, Recomposed DEF new
  <1> QED BY <1>5, <1>6, <1>7

(***************************************************************************)
(* The byte map a page table stands for.                                   *)
(***************************************************************************)
(* A mapped address holds its byte, any other none.                        *)
LEMMA FlatAt ==
  ASSUME NEW mem, IsMemory(mem), NEW a \in Word
  PROVE  /\ Flat(mem)[a] \in Byte \cup {-1}
         /\ Mapped(mem, a) => Flat(mem)[a] = ByteIn(mem, a) /\ Flat(mem)[a] \in Byte
         /\ Mapped(mem, a) <=> Flat(mem)[a] # -1
  <1>1. -1 \notin Byte BY BaseAssumption DEF Byte
  <1>2. CASE Mapped(mem, a) BY <1>1, <1>2, ByteInType DEF Flat
  <1>3. CASE ~Mapped(mem, a) BY <1>1, <1>3 DEF Flat
  <1> QED BY <1>2, <1>3

(* Every byte of an access is mapped.                                      *)
AllMapped(mem, addr, width) == \A i \in 0 .. width - 1 : Mapped(mem, Cell(addr, i))

(* An aligned access reaches all of its bytes exactly when all are mapped. *)
LEMMA ReachedAll ==
  ASSUME NEW mem, NEW addr, NEW width \in {1, 2, 4}, addr % width = 0
  PROVE  Reached(mem, addr, width) = 0 .. width - 1 <=> AllMapped(mem, addr, width)
  <1>1. ASSUME AllMapped(mem, addr, width) PROVE Reached(mem, addr, width) = 0 .. width - 1
    BY <1>1 DEF Reached, AllMapped
  <1>2. ASSUME Reached(mem, addr, width) = 0 .. width - 1, NEW i \in 0 .. width - 1
        PROVE  Mapped(mem, Cell(addr, i))
    <2>1. i \in Reached(mem, addr, width) /\ i \in 0 .. i BY <1>2
    <2> QED BY <2>1 DEF Reached
  <1> QED BY <1>1, <1>2 DEF AllMapped

(* An access succeeds where it is aligned and every byte is mapped, and    *)
(* otherwise names the first of the two that fails.                        *)
LEMMA AccessKind ==
  ASSUME NEW mem, NEW addr \in Word, NEW width \in {1, 2, 4}, NEW pc
  PROVE  Access(mem, addr, width, pc).kind
           = IF addr % width # 0 THEN "MisalignedAccess"
             ELSE IF AllMapped(mem, addr, width) THEN "Ok" ELSE "AccessFault"
  <1>1. CASE addr % width # 0
    <2>1. 0 \in 0 .. width - 1 /\ 0 \notin Reached(mem, addr, width) BY <1>1 DEF Reached
    <2>2. Access(mem, addr, width, pc) = Misaligned(pc, addr, width)
      BY <1>1, <2>1 DEF Access
    <2> QED BY <1>1, <2>2 DEF Misaligned
  <1>2. CASE addr % width = 0 /\ AllMapped(mem, addr, width)
    <2>1. Access(mem, addr, width, pc) = Ok BY <1>2, ReachedAll, AccessOk
    <2> QED BY <1>2, <2>1 DEF Ok
  <1>3. CASE addr % width = 0 /\ ~AllMapped(mem, addr, width)
    <2>1. PICK c : Access(mem, addr, width, pc) = AccessFault(pc, c)
      BY <1>3, ReachedAll, AccessOk, AccessTrap
    <2> QED BY <1>3, <2>1 DEF AccessFault
  <1> QED BY <1>1, <1>2, <1>3

(* What Ok means, spelled out.                                             *)
LEMMA AccessOkKind ==
  ASSUME NEW mem, NEW addr \in Word, NEW width \in {1, 2, 4}, NEW pc
  PROVE  Access(mem, addr, width, pc) = Ok
           <=> Access(mem, addr, width, pc).kind = "Ok"
  <1>1. CASE Access(mem, addr, width, pc) = Ok BY <1>1 DEF Ok
  <1>2. CASE Access(mem, addr, width, pc) # Ok
    BY <1>2, AccessTrap DEF Misaligned, AccessFault
  <1> QED BY <1>1, <1>2

(* A page number and an offset make the address they were taken from.      *)
LEMMA PagePosition ==
  ASSUME NEW a \in Word PROVE PageOf(a) * PageSize + OffsetOf(a) = a
  <1>1. /\ a \div PageSize \in Int /\ a % PageSize \in 0 .. PageSize - 1
        /\ a = PageSize * (a \div PageSize) + (a % PageSize)
    BY WordInt, PageSizeAssumption, DivMod
  <1> QED BY <1>1, PageSizeAssumption DEF PageOf, OffsetOf

(* The distance from one address up to another, wrapping, leads there.     *)
LEMMA CellAtDistance ==
  ASSUME NEW addr \in Word, NEW a \in Word PROVE Cell(addr, Wrap(a - addr)) = a
  <1>1. a \in Int /\ addr \in Int /\ WordMod \in Nat \ {0} /\ a \in 0 .. WordMod - 1
    BY WordInt, WordModType DEF Word
  <1>2. PICK i \in Int, q \in Int : i = Wrap(a - addr) /\ a - addr = WordMod * q + i
    <2>1. a - addr \in Int BY <1>1
    <2>2. /\ (a - addr) \div WordMod \in Int /\ (a - addr) % WordMod \in 0 .. WordMod - 1
          /\ a - addr = WordMod * ((a - addr) \div WordMod) + ((a - addr) % WordMod)
      BY <1>1, <2>1, DivMod
    <2> QED BY <1>1, <2>2 DEF Wrap
  <1>3. PICK s \in Int : s = WordMod * q /\ WordMod * (-q) = -s BY <1>1, <1>2
  <1>4. PICK n \in Int, p \in Int : n = addr + i /\ n = WordMod * p + a
    <2>1. -q \in Int /\ addr + i \in Int /\ addr + i = WordMod * (-q) + a
      BY <1>1, <1>2, <1>3
    <2> QED BY <2>1
  <1>5. n % WordMod = a BY <1>1, <1>4, DivModUnique
  <1>6. Cell(addr, i) = a BY <1>4, <1>5 DEF Cell, Wrap
  <1> QED BY <1>2, <1>6

(* And the other way round, for a distance that is a word.                 *)
LEMMA DistanceToCell ==
  ASSUME NEW addr \in Word, NEW i \in Word PROVE Wrap(Cell(addr, i) - addr) = i
  <1>1. PICK c \in Word : c = Cell(addr, i) BY WordInt, CellType
  <1>2. c \in Int /\ addr \in Int /\ i \in Int /\ WordMod \in Nat \ {0}
        /\ i \in 0 .. WordMod - 1
    BY WordInt, WordModType DEF Word
  <1>3. PICK q \in Int : addr + i = WordMod * q + c
    <2>1. addr + i \in Int BY <1>2
    <2>2. /\ (addr + i) \div WordMod \in Int
          /\ addr + i = WordMod * ((addr + i) \div WordMod) + ((addr + i) % WordMod)
      BY <1>2, <2>1, DivMod
    <2> QED BY <1>1, <2>2 DEF Cell, Wrap
  <1>4. PICK n \in Int, p \in Int : n = c - addr /\ n = WordMod * p + i
    <2>1. PICK s \in Int : s = WordMod * q /\ WordMod * (-q) = -s BY <1>2
    <2>2. c - addr \in Int /\ -q \in Int /\ c - addr = WordMod * (-q) + i
      BY <1>2, <1>3, <2>1
    <2> QED BY <2>2
  <1>5. n % WordMod = i BY <1>2, <1>4, DivModUnique
  <1> QED BY <1>1, <1>4, <1>5 DEF Wrap

(* A successful write changes the bytes at a distance below its width.     *)
LEMMA FlatWritten ==
  ASSUME NEW mem, IsMemory(mem), NEW addr \in Word, NEW value, NEW width \in {1, 2, 4},
         NEW pc, Access(mem, addr, width, pc) = Ok
  PROVE  Flat(Written(mem, addr, value, width))
           = [a \in Word |-> IF Wrap(a - addr) < width THEN ByteAt(value, Wrap(a - addr))
                             ELSE Flat(mem)[a]]
  <1> DEFINE new == Written(mem, addr, value, width)
  <1>1. Reached(mem, addr, width) = 0 .. width - 1 BY AccessOk
  <1>2. ASSUME NEW a \in Word
        PROVE  Flat(new)[a] = IF Wrap(a - addr) < width THEN ByteAt(value, Wrap(a - addr))
                              ELSE Flat(mem)[a]
    <2> DEFINE i == Wrap(a - addr)
    <2>1. i \in Nat /\ Cell(addr, i) = a
      <3>1. a - addr \in Int BY WordInt
      <3> QED BY <3>1, WrapType, WordInt, CellAtDistance
    <2>2. PageOf(a) * PageSize + OffsetOf(a) = a /\ OffsetOf(a) \in Offset
      BY PagePosition, PageFacts
    <2>3. Mapped(new, a) = Mapped(mem, a) BY DEF Mapped, Written
    <2>4. Mapped(mem, a) =>
            ByteIn(new, a) = IF i \in Reached(mem, addr, width) THEN ByteAt(value, i)
                             ELSE ByteIn(mem, a)
      BY <2>2 DEF Mapped, ByteIn, Written
    <2>5. i \in Reached(mem, addr, width) <=> i < width BY <1>1, <2>1
    <2>6. i < width => Mapped(mem, a)
      <3>1. SUFFICES ASSUME i < width PROVE Mapped(mem, a) OBVIOUS
      <3>2. i \in Reached(mem, addr, width) /\ i \in 0 .. i BY <2>1, <2>5, <3>1
      <3> QED BY <2>1, <3>2 DEF Reached
    <2> HIDE DEF i, new
    <2> QED BY <2>3, <2>4, <2>5, <2>6 DEF Flat, i
  <1>3. Flat(new) = [a \in Word |-> Flat(new)[a]] BY DEF Flat
  <1> HIDE DEF new
  <1>4. Flat(new) = [a \in Word |-> IF Wrap(a - addr) < width THEN ByteAt(value, Wrap(a - addr))
                                     ELSE Flat(mem)[a]]
    BY <1>2, <1>3
  <1> QED BY <1>4 DEF new

(* Every address is at the distance from addr that names it, a word.       *)
LEMMA Distance ==
  ASSUME NEW addr \in Word, NEW a \in Word
  PROVE  /\ Wrap(a - addr) \in Word /\ Wrap(a - addr) \in Nat
         /\ Cell(addr, Wrap(a - addr)) = a
  <1>1. a - addr \in Int BY WordInt
  <1> QED BY <1>1, WrapType, WordInt, CellAtDistance

(* The addresses of a slice are those at a distance below its length.      *)
LEMMA SliceByDistance ==
  ASSUME NEW addr \in Word, NEW a \in Word, NEW size \in Nat, size <= WordMod
  PROVE  (\E i \in 0 .. size - 1 : Cell(addr, i) = a) <=> Wrap(a - addr) < size
  <1>1. ASSUME NEW i \in 0 .. size - 1, Cell(addr, i) = a PROVE Wrap(a - addr) < size
    <2>1. i \in Word BY WordModType DEF Word
    <2>2. Wrap(a - addr) = i BY <1>1, <2>1, DistanceToCell
    <2> QED BY <2>2
  <1>2. ASSUME Wrap(a - addr) < size PROVE \E i \in 0 .. size - 1 : Cell(addr, i) = a
    <2>1. PICK d \in Nat : d = Wrap(a - addr) /\ Cell(addr, d) = a BY Distance
    <2>2. d \in 0 .. size - 1 BY <1>2, <2>1
    <2> QED BY <2>1, <2>2
  <1> QED BY <1>1, <1>2

(* The pages under a slice are those of the addresses in it.               *)
LEMMA PagesUnderBy ==
  ASSUME NEW addr \in Word, NEW size \in Nat, size <= WordMod
  PROVE  /\ PagesUnder(addr, size) = {PageOf(a) : a \in {b \in Word : Wrap(b - addr) < size}}
         /\ PagesUnder(addr, size) \subseteq PageNo
  <1>0. \A i \in 0 .. size - 1 : Cell(addr, i) \in Word BY CellType
  <1>1. ASSUME NEW p \in PagesUnder(addr, size)
        PROVE  /\ p \in PageNo
               /\ p \in {PageOf(a) : a \in {b \in Word : Wrap(b - addr) < size}}
    <2>1. PICK i \in 0 .. size - 1 : p = PageOf(Cell(addr, i)) BY DEF PagesUnder
    <2>2. Cell(addr, i) \in Word BY <1>0
    <2>3. Wrap(Cell(addr, i) - addr) < size BY <2>2, SliceByDistance
    <2> QED BY <2>1, <2>2, <2>3, PageFacts
  <1>2. ASSUME NEW a \in Word, Wrap(a - addr) < size PROVE PageOf(a) \in PagesUnder(addr, size)
    BY <1>2, SliceByDistance DEF PagesUnder
  <1> QED BY <1>1, <1>2

(* Allocating pages: what is new is zero, what was there is kept.          *)
LEMMA AllocatedFacts ==
  ASSUME NEW mem, IsMemory(mem), NEW numbers, numbers \subseteq PageNo
  PROVE  /\ IsMemory(Allocated(mem, numbers))
         /\ DOMAIN Allocated(mem, numbers) = DOMAIN mem \cup numbers
         /\ \A a \in Word :
              Mapped(Allocated(mem, numbers), a) =>
                ByteIn(Allocated(mem, numbers), a) = IF Mapped(mem, a) THEN ByteIn(mem, a) ELSE 0
  <1>1. ZeroPage \in [Offset -> Byte] BY BaseAssumption DEF ZeroPage, Byte
  <1>2. IsMemory(Allocated(mem, numbers)) BY <1>1 DEF IsMemory, Allocated
  <1>3. ASSUME NEW a \in Word, Mapped(Allocated(mem, numbers), a)
        PROVE  ByteIn(Allocated(mem, numbers), a) = IF Mapped(mem, a) THEN ByteIn(mem, a) ELSE 0
    <2>1. OffsetOf(a) \in Offset BY PageFacts
    <2> QED BY <1>3, <2>1 DEF Mapped, Allocated, ByteIn, ZeroPage
  <1>4. DOMAIN Allocated(mem, numbers) = DOMAIN mem \cup numbers BY DEF Allocated
  <1> QED BY <1>2, <1>3, <1>4

(* As bytes: the old ones, and zeros where a page came into being.         *)
LEMMA FlatAllocated ==
  ASSUME NEW mem, IsMemory(mem), NEW numbers, numbers \subseteq PageNo, NEW a \in Word
  PROVE  Flat(Allocated(mem, numbers))[a]
           = IF Flat(mem)[a] # -1 THEN Flat(mem)[a]
             ELSE IF PageOf(a) \in numbers THEN 0 ELSE -1
  <1> DEFINE new == Allocated(mem, numbers)
  <1>1. /\ DOMAIN new = DOMAIN mem \cup numbers
        /\ Mapped(new, a) => ByteIn(new, a) = IF Mapped(mem, a) THEN ByteIn(mem, a) ELSE 0
    BY AllocatedFacts
  <1>2. Mapped(new, a) <=> Mapped(mem, a) \/ PageOf(a) \in numbers BY <1>1 DEF Mapped
  <1>3. /\ Mapped(mem, a) <=> Flat(mem)[a] # -1
        /\ Mapped(mem, a) => Flat(mem)[a] = ByteIn(mem, a)
    BY FlatAt
  <1>4. Flat(new)[a] = IF Mapped(new, a) THEN ByteIn(new, a) ELSE -1 BY DEF Flat
  <1> QED BY <1>1, <1>2, <1>3, <1>4

(* write_slice: the pages under the slice exist, hold it at its wrapped    *)
(* place, and every other byte is what it was, or zero.                    *)
LEMMA PlacedFacts ==
  ASSUME NEW mem, IsMemory(mem), NEW addr \in Word, NEW data \in Seq(Byte),
         Len(data) <= WordMod
  PROVE  /\ IsMemory(Placed(mem, addr, data))
         /\ DOMAIN Placed(mem, addr, data) = DOMAIN mem \cup PagesUnder(addr, Len(data))
         /\ \A a \in Word :
              Mapped(Placed(mem, addr, data), a) =>
                ByteIn(Placed(mem, addr, data), a)
                  = IF Wrap(a - addr) < Len(data) THEN data[Wrap(a - addr) + 1]
                    ELSE IF Mapped(mem, a) THEN ByteIn(mem, a) ELSE 0
  <1> DEFINE room == Allocated(mem, PagesUnder(addr, Len(data)))
             new == Placed(mem, addr, data)
  <1>0. Len(data) \in Nat OBVIOUS
  <1>1. PagesUnder(addr, Len(data)) \subseteq PageNo BY <1>0, PagesUnderBy
  <1>2. /\ IsMemory(room) /\ DOMAIN room = DOMAIN mem \cup PagesUnder(addr, Len(data))
        /\ \A a \in Word :
             Mapped(room, a) =>
               ByteIn(room, a) = IF Mapped(mem, a) THEN ByteIn(mem, a) ELSE 0
    BY <1>1, AllocatedFacts
  <1>3. new = [p \in DOMAIN room |->
                 [o \in Offset |->
                    IF Wrap((p * PageSize + o) - addr) < Len(data)
                    THEN data[Wrap((p * PageSize + o) - addr) + 1] ELSE room[p][o]]]
    BY DEF Placed
  <1> HIDE DEF room
  <1>4. ASSUME NEW p \in DOMAIN room, NEW o \in Offset,
               Wrap((p * PageSize + o) - addr) < Len(data)
        PROVE  data[Wrap((p * PageSize + o) - addr) + 1] \in Byte
    <2>1. p \in Nat /\ o \in Nat /\ addr \in Int
      BY <1>2, PageSizeAssumption, WordInt, PageFacts, WordModType DEF IsMemory, PageNo, Offset
    <2>2. p * PageSize \in Nat BY <2>1, PageSizeAssumption
    <2>3. PICK n \in Int : n = (p * PageSize + o) - addr BY <2>1, <2>2
    <2>4. Wrap(n) \in Nat BY <2>3, WrapType, WordInt
    <2>5. Wrap(n) + 1 \in 1 .. Len(data) BY <1>4, <2>3, <2>4, <1>0
    <2> QED BY <2>3, <2>5
  <1>5. IsMemory(new)
    <2>1. DOMAIN new = DOMAIN room /\ DOMAIN room \subseteq PageNo
          /\ room \in [DOMAIN room -> [Offset -> Byte]]
      BY <1>2, <1>3 DEF IsMemory
    <2>2. ASSUME NEW p \in DOMAIN room PROVE new[p] \in [Offset -> Byte]
      <3>1. room[p] \in [Offset -> Byte] BY <2>1
      <3>2. new[p] = [o \in Offset |->
                        IF Wrap((p * PageSize + o) - addr) < Len(data)
                        THEN data[Wrap((p * PageSize + o) - addr) + 1] ELSE room[p][o]]
        BY <1>3
      <3> QED BY <3>1, <3>2, <1>4
    <2>3. new = [p \in DOMAIN room |-> new[p]] BY <1>3
    <2> HIDE DEF new
    <2> QED BY <2>1, <2>2, <2>3 DEF IsMemory
  <1>6. ASSUME NEW a \in Word, Mapped(new, a)
        PROVE  ByteIn(new, a) = IF Wrap(a - addr) < Len(data) THEN data[Wrap(a - addr) + 1]
                                ELSE ByteIn(room, a)
    <2>1. PageOf(a) * PageSize + OffsetOf(a) = a /\ OffsetOf(a) \in Offset
      BY PagePosition, PageFacts
    <2>2. PageOf(a) \in DOMAIN room BY <1>3, <1>6 DEF Mapped
    <2> QED BY <1>3, <2>1, <2>2 DEF ByteIn
  <1>7. DOMAIN new = DOMAIN room BY <1>3
  <1>8. ASSUME NEW a \in Word, Mapped(new, a)
        PROVE  ByteIn(new, a) = IF Wrap(a - addr) < Len(data) THEN data[Wrap(a - addr) + 1]
                                ELSE IF Mapped(mem, a) THEN ByteIn(mem, a) ELSE 0
    <2>1. Mapped(room, a) BY <1>7, <1>8 DEF Mapped
    <2> QED BY <2>1, <1>2, <1>6, <1>8
  <1> HIDE DEF new
  <1>9. DOMAIN new = DOMAIN mem \cup PagesUnder(addr, Len(data)) BY <1>2, <1>7
  <1> QED BY <1>5, <1>8, <1>9 DEF new
=============================================================================
