------------------------------- MODULE Memory -------------------------------
(***************************************************************************)
(* The sparse memory of mem.rs, as operators on a page table: a function   *)
(* from the numbers of the allocated pages to pages of PageSize bytes.     *)
(* Addresses wrap at the end of the address space.                         *)
(***************************************************************************)
EXTENDS Words, Sequences

CONSTANT PageSize   \* 4096 in the program

ASSUME PageSizeAssumption == PageSize \in Nat \ {0}

PageOf(addr) == addr \div PageSize
OffsetOf(addr) == addr % PageSize
PageNo == 0 .. PageOf(WordMod - 1)
Offset == 0 .. PageSize - 1

IsMemory(mem) ==
  /\ DOMAIN mem \subseteq PageNo
  /\ mem \in [DOMAIN mem -> [Offset -> Byte]]

(* Byte i of an access at addr: addr.wrapping_add(i). *)
Cell(addr, i) == Wrap(addr + i)

Mapped(mem, addr) == PageOf(addr) \in DOMAIN mem

ByteIn(mem, addr) == mem[PageOf(addr)][OffsetOf(addr)]

(* The byte map a page table stands for, -1 where there is no page. *)
Flat(mem) == [a \in Word |-> IF Mapped(mem, a) THEN ByteIn(mem, a) ELSE -1]

(***************************************************************************)
(* The outcomes of a memory access: Ok, or the trap that stops the hart.   *)
(***************************************************************************)
Ok == [kind |-> "Ok"]

Misaligned(pc, addr, width) ==
  [kind |-> "MisalignedAccess", pc |-> pc, addr |-> addr, width |-> width]

AccessFault(pc, addr) == [kind |-> "AccessFault", pc |-> pc, addr |-> addr]

(* The bytes of an aligned access reached before the first unmapped one.   *)
Reached(mem, addr, width) ==
  {i \in 0 .. width - 1 :
     addr % width = 0 /\ \A j \in 0 .. i : Mapped(mem, Cell(addr, j))}

(* What read and write answer: alignment first, then the bytes in order.   *)
Access(mem, addr, width, pc) ==
  CASE addr % width # 0 -> Misaligned(pc, addr, width)
    [] Reached(mem, addr, width) = 0 .. width - 1 -> Ok
    [] OTHER ->
         LET i == CHOOSE k \in 0 .. width - 1 :
                    /\ k \notin Reached(mem, addr, width)
                    /\ \A j \in 0 .. k - 1 : j \in Reached(mem, addr, width)
         IN AccessFault(pc, Cell(addr, i))

(* The little-endian value of a successful read of width 1, 2 or 4. *)
Loaded(mem, addr, width) ==
  LET b(i) == IF i < width THEN ByteIn(mem, Cell(addr, i)) ELSE 0
  IN b(0) + b(1) * Base + b(2) * HalfMod + b(3) * (HalfMod * Base)

(* Mutant: a guest's store allocates the page it misses, as write_slice.   *)
WrittenAllocating(mem, addr, value, width) ==
  LET touched == {PageOf(Cell(addr, i)) : i \in 0 .. width - 1}
      old(p, o) == IF p \in DOMAIN mem THEN mem[p][o] ELSE 0
  IN [p \in DOMAIN mem \cup touched |->
        [o \in Offset |->
           LET i == Wrap((p * PageSize + o) - addr)
           IN IF i < width THEN ByteAt(value, i) ELSE old(p, o)]]

(* Mutant: the bytes in the opposite order. *)
WrittenBigEndian(mem, addr, value, width) ==
  [p \in DOMAIN mem |->
     [o \in Offset |->
        LET i == Wrap((p * PageSize + o) - addr)
        IN IF i \in Reached(mem, addr, width) THEN ByteAt(value, width - 1 - i)
           ELSE mem[p][o]]]

(***************************************************************************)
(* The memory after a write, successful or not: write stores byte by byte  *)
(* and returns at the first byte of an unmapped page, so what it stored    *)
(* before that stays stored.                                               *)
(***************************************************************************)
Written(mem, addr, value, width) ==
  [p \in DOMAIN mem |->
     [o \in Offset |->
        LET i == Wrap((p * PageSize + o) - addr)
        IN IF i \in Reached(mem, addr, width) THEN ByteAt(value, i) ELSE mem[p][o]]]

(***************************************************************************)
(* What the host does to a memory: touch, and write_slice, the only way    *)
(* to bring pages into being.                                              *)
(***************************************************************************)
ZeroPage == [o \in Offset |-> 0]

(* Mutant: insert where the code has entry: a page that exists is cleared. *)
AllocatedAfresh(mem, numbers) ==
  [p \in DOMAIN mem \cup numbers |-> IF p \in numbers THEN ZeroPage ELSE mem[p]]

(* entry(..).or_insert_with(..): a page that exists is kept as it is.      *)
Allocated(mem, numbers) ==
  [p \in DOMAIN mem \cup numbers |-> IF p \in DOMAIN mem THEN mem[p] ELSE ZeroPage]

Touched(mem, addr) == Allocated(mem, {PageOf(addr)})

(* The pages of the size bytes from addr on, none when there are no bytes. *)
PagesUnder(addr, size) == {PageOf(Cell(addr, i)) : i \in 0 .. size - 1}

(* Mutant: the bytes past the end of the address space are dropped.        *)
PlacedUnwrapped(mem, addr, data) ==
  [p \in DOMAIN mem \cup PagesUnder(addr, Len(data)) |->
     [o \in Offset |->
        LET i == (p * PageSize + o) - addr
        IN IF i \in 0 .. Len(data) - 1 THEN data[i + 1]
           ELSE Allocated(mem, PagesUnder(addr, Len(data)))[p][o]]]

(* write_slice: the pages of data exist afterwards, and hold data; no data *)
(* is as long as the address space, so no byte lands on another.           *)
Placed(mem, addr, data) ==
  LET room == Allocated(mem, PagesUnder(addr, Len(data)))
  IN [p \in DOMAIN room |->
        [o \in Offset |->
           LET i == Wrap((p * PageSize + o) - addr)
           IN IF i < Len(data) THEN data[i + 1] ELSE room[p][o]]]
=============================================================================
