------------------------------- MODULE MCHart -------------------------------
(***************************************************************************)
(* Hart on programs of two instructions drawn from a catalogue that has    *)
(* every opcode group, every legal funct3 of the memory, branch and        *)
(* multiply groups, the encodings next to the legal ones, and operands     *)
(* that reach the interesting addresses.                                   *)
(***************************************************************************)
EXTENDS Lockstep, MCWords, Sequences, TLC

(* Word k of the scaled machine is the k-th instruction.  x1 points at     *)
(* data, x2 is a value, x3 a small number (and so an instruction word).    *)
Catalogue ==
  << RType(0, 0, 0, 0, 0, 0),                \*  0: an all-zero word
     RType(0, 1, 0, 0, 0, OpSystem),         \*  1: ebreak
     RType(0, 0, 0, 0, 0, OpSystem),         \*  2: ecall
     IType(1, 2, 0, 2, OpImmed),             \*  3: addi x2, x2, 1
     IType(5, 1, 0, 0, OpImmed),             \*  4: addi x0, x1, 5
     UType(9, 2, OpLui),                     \*  5: lui x2, 9
     UType(1, 2, OpAuipc),                   \*  6: auipc x2, 1
     JType(-4, 3, OpJal),                    \*  7: jal x3, -4
     JType(8, 0, OpJal),                     \*  8: jal x0, +8
     JType(2, 2, OpJal),                     \*  9: jal x2, +2 (misaligned)
     IType(1, 2, 0, 2, OpJalr),              \* 10: jalr x2, 1(x2)
     IType(2, 1, 0, 3, OpJalr),              \* 11: jalr x3, 2(x1) (misaligned)
     IType(-4, 1, 0, 1, OpJalr),             \* 12: jalr x1, -4(x1)
     BType(8, 3, 2, 0, OpBranch),            \* 13: beq x2, x3, +8
     BType(-4, 0, 2, 1, OpBranch),           \* 14: bne x2, x0, -4
     BType(6, 3, 2, 4, OpBranch),            \* 15: blt x2, x3, +6 (misaligned)
     BType(8, 3, 2, 5, OpBranch),            \* 16: bge x2, x3, +8
     BType(-4, 3, 2, 6, OpBranch),           \* 17: bltu x2, x3, -4
     BType(8, 3, 2, 7, OpBranch),            \* 18: bgeu x2, x3, +8
     IType(0, 1, 0, 2, OpLoad),              \* 19: lb x2, 0(x1)
     IType(2, 1, 1, 2, OpLoad),              \* 20: lh x2, 2(x1)
     IType(4, 1, 2, 2, OpLoad),              \* 21: lw x2, 4(x1)
     IType(3, 1, 4, 0, OpLoad),              \* 22: lbu x0, 3(x1)
     IType(0, 1, 5, 3, OpLoad),              \* 23: lhu x3, 0(x1)
     IType(1, 1, 1, 2, OpLoad),              \* 24: lh x2, 1(x1) (misaligned)
     IType(64, 1, 2, 2, OpLoad),             \* 25: lw x2, 64(x1) (unmapped)
     SType(3, 2, 1, 0, OpStore),             \* 26: sb x2, 3(x1)
     SType(2, 2, 1, 1, OpStore),             \* 27: sh x2, 2(x1)
     SType(0, 3, 1, 2, OpStore),             \* 28: sw x3, 0(x1)
     SType(-4, 2, 0, 2, OpStore),            \* 29: sw x2, -4(x0)
     SType(4, 3, 0, 2, OpStore),             \* 30: sw x3, 4(x0) (over the program)
     SType(2, 2, 1, 2, OpStore),             \* 31: sw x2, 2(x1) (misaligned)
     SType(96, 3, 1, 1, OpStore),            \* 32: sh x3, 96(x1) (unmapped)
     RType(0, 3, 2, 0, 2, OpReg),            \* 33: add x2, x2, x3
     RType(32, 3, 2, 0, 2, OpReg),           \* 34: sub
     RType(0, 3, 2, 1, 2, OpReg),            \* 35: sll
     RType(0, 3, 2, 2, 2, OpReg),            \* 36: slt
     RType(0, 3, 2, 3, 2, OpReg),            \* 37: sltu
     RType(0, 3, 2, 4, 2, OpReg),            \* 38: xor
     RType(0, 3, 2, 5, 2, OpReg),            \* 39: srl
     RType(32, 3, 2, 5, 2, OpReg),           \* 40: sra
     RType(0, 3, 2, 6, 2, OpReg),            \* 41: or
     RType(0, 3, 2, 7, 0, OpReg),            \* 42: and x0, x2, x3
     RType(0, 9, 2, 1, 2, OpImmed),          \* 43: slli x2, x2, 9
     RType(32, 1, 2, 5, 2, OpImmed),         \* 44: srai x2, x2, 1
     RType(0, 2, 2, 5, 2, OpImmed),          \* 45: srli x2, x2, 2
     IType(-3, 2, 7, 2, OpImmed),            \* 46: andi x2, x2, -3
     IType(-1, 2, 2, 3, OpImmed),            \* 47: slti x3, x2, -1
     IType(-1, 2, 3, 3, OpImmed),            \* 48: sltiu x3, x2, -1
     RType(1, 3, 2, 0, 2, OpReg),            \* 49: mul x2, x2, x3
     RType(1, 3, 2, 1, 2, OpReg),            \* 50: mulh
     RType(1, 3, 2, 2, 2, OpReg),            \* 51: mulhsu
     RType(1, 3, 2, 3, 2, OpReg),            \* 52: mulhu
     RType(1, 3, 2, 4, 2, OpReg),            \* 53: div
     RType(1, 3, 2, 5, 2, OpReg),            \* 54: divu
     RType(1, 3, 2, 6, 2, OpReg),            \* 55: rem
     RType(1, 3, 2, 7, 2, OpReg),            \* 56: remu
     RType(0, 0, 0, 0, 0, OpFence),          \* 57: fence
     RType(0, 0, 0, 1, 0, OpFence),          \* 58: fence.i, not RV32IM
     RType(1, 1, 2, 1, 2, OpImmed),          \* 59: slli with a bit too many
     RType(32, 3, 2, 1, 2, OpReg),           \* 60: sub's funct7 on sll
     BType(8, 3, 2, 2, OpBranch),            \* 61: branch funct3 2
     SType(0, 3, 1, 3, OpStore),             \* 62: store funct3 3
     IType(0, 1, 3, 2, OpLoad),              \* 63: load funct3 3
     IType(0, 1, 1, 2, OpJalr),              \* 64: jalr funct3 1
     RType(0, 1, 1, 0, 0, OpSystem) >>       \* 65: ebreak with rs1 set

MCFieldsOf(word) ==
  IF word < Len(Catalogue) THEN Catalogue[word + 1] ELSE [Catalogue[1] EXCEPT !.f7 = 127]

Codes == 0 .. Len(Catalogue) - 1

(* A page that holds these four words. *)
CodePage(words) == [o \in Offset |-> ByteAt(words[o \div 4 + 1], o % 4)]
DataPage == [o \in Offset |-> (o * o + o \div 4) % 4]

Registers(v1, v2, v3) ==
  [i \in Reg |-> CASE i = 1 -> v1 [] i = 2 -> v2 [] i = 3 -> v3 [] OTHER -> 0]

Machine(r, entry, table) == [regs |-> r, pc |-> entry, pages |-> table]

(* Two instructions and two ebreaks at 0, data at 16. *)
AtBottom(r, codes) ==
  {Machine(r, 0, 0 :> CodePage(<<a, b, 1, 1>>) @@ 1 :> DataPage) : a, b \in codes}

(* The last two words of the address space, running on into page 0. *)
AtTop(r) ==
  {Machine(r, 248, 15 :> CodePage(<<1, 3, a, b>>) @@ 0 :> CodePage(<<1, 26, 3, 2>>)) :
     a, b \in Codes}

(* Entry points that cannot be fetched from. *)
BadEntry ==
  {Machine(Registers(20, 0, 0), e, 0 :> CodePage(<<1, 1, 1, 1>>)) : e \in {2, 13, 64, 255}}

MCImages ==
  AtBottom(Registers(20, 200, 3), Codes) \cup AtTop(Registers(252, 128, 255)) \cup BadEntry

MCBudgets == {0, 1, 4}

(* Programs of jumps, branches and stores over the program.                *)
MCLoopImages ==
  AtBottom(Registers(20, 200, 3), {1, 3, 7, 8, 9, 10, 12, 14, 17, 26, 28, 30})

(* Programs that store inside and outside the mapped pages. *)
MCStoreImages == AtBottom(Registers(20, 200, 3), {1, 3, 26, 28, 32})
=============================================================================
