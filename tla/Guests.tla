------------------------------- MODULE Guests -------------------------------
(***************************************************************************)
(* Guest programs on the hart: memops and muldiv, whose sources name the   *)
(* loads, stores and instructions they are made of, the fourteen outputs   *)
(* of arith that are one instruction each, the runtime that starts them    *)
(* and the test that runs them.  A program is the sequence of its          *)
(* instructions; which registers hold addresses and temporaries is this    *)
(* module's choice, as it is LLVM's in the images.                         *)
(***************************************************************************)
EXTENDS HartProperties

CONSTANTS
  InBase, OutBase,  \* 0x8001_0000 and 0x8001_1000 in the program
  Scratch,          \* OUT_BASE + 256 in the program
  StackTop          \* from the linker script

ASSUME LayoutAssumption ==
  /\ {InBase, OutBase, Scratch, StackTop} \subseteq Word
  /\ InBase % 4 = 0

(***************************************************************************)
(* Instructions by their assembler names.                                  *)
(***************************************************************************)
Li(rd, value) == IType(value, 0, 0, rd, OpImmed)
Srl(rd, rs, amount) == RType(0, amount, rs, 5, rd, OpImmed)
Lb(rd, rs, at) == IType(at, rs, 0, rd, OpLoad)
Lh(rd, rs, at) == IType(at, rs, 1, rd, OpLoad)
Lw(rd, rs, at) == IType(at, rs, 2, rd, OpLoad)
Lbu(rd, rs, at) == IType(at, rs, 4, rd, OpLoad)
Lhu(rd, rs, at) == IType(at, rs, 5, rd, OpLoad)
Sb(rd, rs, at) == SType(at, rd, rs, 0, OpStore)
Sh(rd, rs, at) == SType(at, rd, rs, 1, OpStore)
Sw(rd, rs, at) == SType(at, rd, rs, 2, OpStore)

(* x5, x6 and x7 hold the three bases, x10 and x12 the inputs, x11 what is *)
(* computed, x13 and x14 constants.                                        *)
Input(rd, k) == Lw(rd, 5, 4 * k)
Output(k) == Sw(11, 6, 4 * k)
Bases == <<Li(5, InBase), Li(6, OutBase), Li(7, Scratch)>>

(***************************************************************************)
(* The runtime: set the stack pointer, call guest_main, say "done".        *)
(***************************************************************************)
Stub ==
  << UType(StackTop \div UpperUnit, 2, OpLui), IType(StackTop % UpperUnit, 2, 0, 2, OpImmed),
     UType(0, 1, OpAuipc), IType(16, 1, 0, 1, OpJalr),
     RType(0, 1, 0, 0, 0, OpSystem),
     JType(0, 0, OpJal) >>

Done == 16                       \* the address of the stub's ebreak
Ret == <<IType(0, 1, 0, 0, OpJalr)>>
PanicLoop == <<JType(0, 0, OpJal)>>

(***************************************************************************)
(* memops: loads and stores at every width.                                *)
(***************************************************************************)
ByteBits == XLen \div 4
Alternating == (WordMod - 1) \div 3   \* 0x5555_5555

StoreBytes ==
  << Sb(10, 7, 0), Srl(11, 10, ByteBits), Sb(11, 7, 1), Srl(11, 10, 2 * ByteBits),
     Sb(11, 7, 2), Srl(11, 10, 3 * ByteBits), Sb(11, 7, 3) >>

ReadBackAtWidths ==
  << Lb(11, 7, 0), Output(0), Lbu(11, 7, 0), Output(1), Lh(11, 7, 0), Output(2),
     Lhu(11, 7, 0), Output(3), Lw(11, 7, 0), Output(4) >>

HalfInPlace ==
  << Li(11, 2 * Alternating), Sw(11, 7, 0), Sh(10, 7, 0), Lw(11, 7, 0), Output(5) >>

ByteInPlace ==
  << Li(11, Alternating), Sw(11, 7, 0), Srl(11, 10, ByteBits), Sb(11, 7, 2), Lw(11, 7, 0),
     Output(6) >>

HalfAtTwo == << Srl(11, 10, 3), Sh(11, 7, 2), Lhu(11, 7, 2), Output(7) >>

Memops ==
  Stub \o Bases \o <<Input(10, 0)>> \o StoreBytes \o ReadBackAtWidths \o HalfInPlace
    \o ByteInPlace \o HalfAtTwo \o Ret

(***************************************************************************)
(* muldiv: the M extension, with the operands Rust would not let through.  *)
(***************************************************************************)
M(f3, rs1, rs2) == RType(1, rs2, rs1, f3, 11, OpReg)

Operands ==
  << Input(10, 0), Input(12, 1), Li(13, Pow2[XLen - 1]), Li(14, -1) >>

(* output(k, rv!(...)). *)
Answered(f3, rs1, rs2, k) == <<M(f3, rs1, rs2), Output(k)>>

OnInputs ==
  Answered(0, 10, 12, 0) \o Answered(1, 10, 12, 1) \o Answered(2, 10, 12, 2)
    \o Answered(3, 10, 12, 3) \o Answered(4, 10, 12, 4) \o Answered(5, 10, 12, 5)
    \o Answered(6, 10, 12, 6) \o Answered(7, 10, 12, 7)

ByZero ==
  Answered(4, 10, 0, 8) \o Answered(5, 10, 0, 9) \o Answered(6, 10, 0, 10)
    \o Answered(7, 10, 0, 11)

AtOverflow == Answered(4, 13, 14, 12) \o Answered(6, 13, 14, 13)

Muldiv == Stub \o Bases \o Operands \o OnInputs \o ByZero \o AtOverflow \o Ret

(***************************************************************************)
(* arith: its first fourteen outputs.  LLVM drops the `& 31` of a shift,   *)
(* which the instruction does itself; the other six outputs are sequences  *)
(* of its choice.                                                          *)
(***************************************************************************)
A(f7, f3, rs1, rs2, k) == <<RType(f7, rs2, rs1, f3, 11, OpReg), Output(k)>>
AImm(f3, value, k) == <<IType(value, 10, f3, 11, OpImmed), Output(k)>>

Arith ==
  Stub \o Bases \o <<Input(10, 0), Input(12, 1)>>
    \o A(0, 0, 10, 12, 0) \o A(32, 0, 10, 12, 1)
    \o A(0, 7, 10, 12, 2) \o A(0, 6, 10, 12, 3) \o A(0, 4, 10, 12, 4)
    \o A(0, 1, 10, 12, 5) \o A(0, 5, 10, 12, 6) \o A(32, 5, 10, 12, 7)
    \o A(0, 2, 10, 12, 8) \o A(0, 3, 10, 12, 9)
    \o AImm(0, 2047, 10) \o AImm(0, -2048, 11)
    \o A(32, 0, 0, 10, 12) \o AImm(4, -1, 13) \o Ret

(* A guest_main that panics at once. *)
Panicking == Stub \o PanicLoop

(* The four programs one after the other: word w of the machine encodes   *)
(* instruction w + 1 of this text, and a program is a stretch of it.       *)
Text == Memops \o Muldiv \o Arith \o Panicking

MemopsAt == [first |-> 0, size |-> Len(Memops)]
MuldivAt == [first |-> Len(Memops), size |-> Len(Muldiv)]
ArithAt == [first |-> Len(Memops) + Len(Muldiv), size |-> Len(Arith)]
PanickingAt == [first |-> Len(Memops) + Len(Muldiv) + Len(Arith), size |-> Len(Panicking)]

ASSUME ProgramsFit ==
  \A p \in {MemopsAt, MuldivAt, ArithAt, PanickingAt} : 4 * p.size <= InBase

InstructionOf(word) == IF word < Len(Text) THEN Text[word + 1] ELSE [Text[1] EXCEPT !.op = 0]

(***************************************************************************)
(* run_guest: place the program, the pages the contract promises and the   *)
(* inputs, and enter at the program's start.                               *)
(***************************************************************************)
ImagePages(program) ==
  PagesUnder(0, 4 * program.size) \cup PagesUnder(InBase, PageSize)
    \cup PagesUnder(OutBase, StackTop - OutBase)

ImageByte(program, inputs, addr) ==
  CASE addr < 4 * program.size -> ByteAt(program.first + addr \div 4, addr % 4)
    [] addr \in InBase .. InBase + 7 -> ByteAt(inputs[(addr - InBase) \div 4 + 1], addr % 4)
    [] OTHER -> 0

Prepared(program, inputs) ==
  [regs |-> [i \in Reg |-> 0], pc |-> 0,
   pages |-> [p \in ImagePages(program) |->
                [o \in Offset |-> ImageByte(program, inputs, p * PageSize + o)]]]

(***************************************************************************)
(* Properties.                                                             *)
(***************************************************************************)
(* The words of the program are the ones in memory. *)
Runs(program) ==
  \A k \in 0 .. program.size - 1 : Loaded(pages, 4 * k, 4) = program.first + k

InWord(k) == Loaded(pages, InBase + 4 * k, 4)
OutWord(k) == Loaded(pages, OutBase + 4 * k, 4)

Finished == res.kind = "Breakpoint"

(* memops ends with the words its test derives by hand from the seed, so   *)
(* no byte store has touched its neighbours and every width comes back     *)
(* with its sign or with zeros (memops.rs 10-41, programs.rs 150-170).     *)
MemopsOutputs ==
  Finished /\ Runs(MemopsAt) =>
    LET seed == InWord(0)
        low == seed % HalfMod
    IN /\ OutWord(0) = Wrap(SignExtend(seed % Base, Base))
       /\ OutWord(1) = seed % Base
       /\ OutWord(2) = Wrap(SignExtend(low, HalfMod))
       /\ OutWord(3) = low
       /\ OutWord(4) = seed
       /\ OutWord(5) = BitOr(2 * Alternating - ((2 * Alternating) % HalfMod), low)
       /\ OutWord(6) = BitOr(BitAnd(Alternating, WordMod - 1 - (Base - 1) * HalfMod),
                             ((seed \div Base) % Base) * HalfMod)
       /\ OutWord(7) = (seed \div 8) % HalfMod

(* muldiv ends with quotients and remainders that recompose the inputs,    *)
(* truncated toward zero, the halves of one product, and the answers the   *)
(* specification gives to division by zero and to the signed overflow      *)
(* (muldiv.rs 28-49, programs.rs 194-236).                                 *)
MuldivOutputs ==
  Finished /\ Runs(MuldivAt) =>
    LET a == InWord(0)
        b == InWord(1)
        minimum == Pow2[XLen - 1]
    IN /\ OutWord(0) = Wrap(a * b)
       /\ OutWord(1) = Wrap((Signed(a) * Signed(b)) \div WordMod)
       /\ OutWord(2) = Wrap((Signed(a) * b) \div WordMod)
       /\ OutWord(3) = Wrap((a * b) \div WordMod)
       /\ b = 0 => \A k \in 4 .. 7 : OutWord(k) = OutWord(k + 4)
       /\ b # 0 => OutWord(5) = a \div b /\ OutWord(7) = a % b
       /\ b # 0 =>
            /\ Wrap(OutWord(4) * b + OutWord(6)) = a
            /\ Abs(Signed(OutWord(6))) < Abs(Signed(b))
            /\ Signed(OutWord(6)) * Signed(a) >= 0
       /\ OutWord(8) = WordMod - 1 /\ OutWord(9) = WordMod - 1
       /\ OutWord(10) = a /\ OutWord(11) = a
       /\ OutWord(12) = minimum /\ OutWord(13) = 0

Bit(word, k) == (word \div Pow2[k]) % 2

(* arith ends with what Rust's operators mean by the same expressions: the *)
(* wrapping sums, and, or and xor bit by bit, shifts by the amount modulo  *)
(* the width with the sign kept or not, the two orders, and the constants  *)
(* at the edge of an immediate (algorithms.rs 18-32, programs.rs 72-97).   *)
ArithOutputs ==
  Finished /\ Runs(ArithAt) =>
    LET a == InWord(0)
        b == InWord(1)
        power == Pow2[b % XLen]
    IN /\ OutWord(0) = Wrap(a + b) /\ OutWord(1) = Wrap(a - b)
       /\ \A k \in 0 .. XLen - 1 :
            /\ Bit(OutWord(2), k) = 1 <=> Bit(a, k) = 1 /\ Bit(b, k) = 1
            /\ Bit(OutWord(3), k) = 1 <=> Bit(a, k) = 1 \/ Bit(b, k) = 1
            /\ Bit(OutWord(4), k) = 1 <=> Bit(a, k) # Bit(b, k)
       /\ OutWord(5) = Wrap(a * power)
       /\ OutWord(6) = a \div power
       /\ OutWord(7) = Wrap(Signed(a) \div power)
       /\ OutWord(8) = Truth(Signed(a) < Signed(b)) /\ OutWord(9) = Truth(a < b)
       /\ OutWord(10) = Wrap(a + 2047) /\ OutWord(11) = Wrap(a - 2048)
       /\ OutWord(12) = Wrap(-a) /\ OutWord(13) = WordMod - 1 - a

(* A guest that finishes has written what its source computes.             *)
OutputsAsDerived == MemopsOutputs /\ MuldivOutputs /\ ArithOutputs

(* Nothing stops a guest but the ebreak after guest_main has returned, and *)
(* a panicking guest never gets there: it uses up every budget             *)
(* (runtime.rs 8-25, programs.rs 58-65).                                   *)
OnlyReturningFinishes ==
  mode = "Halted" => Finished /\ pc = Done /\ regs[1] = Done /\ ~Runs(PanickingAt)
=============================================================================
