----------------------------- MODULE HartProofs -----------------------------
(***************************************************************************)
(* Theorems about the primary interpreter, for every byte base, page size, *)
(* image, budget and number of calls.                                      *)
(***************************************************************************)
EXTENDS HartProperties, MemoryProofs

(* run's accounting, BudgetExact but for the trap that Halted comes with.  *)
Accounts ==
  /\ mode # "Idle" => steps + fuel = start + budget
  /\ mode = "StepLimit" => steps = start + budget
  /\ mode = "Halted" => steps < start + budget

(* The inductive invariant.  TypeOK is the part the others lean on: that a *)
(* target is a word, that fuel does not go below zero.  It speaks of       *)
(* nothing that a host may not change between two calls of run.            *)
Inv == TypeOK /\ ZeroRegister /\ PcAligned /\ Accounts

(* The rest of BudgetExact: a call that ends with Halted answers a trap.   *)
Trapped == mode = "Halted" => res # Ok

(* The step is taken inside a call with fuel left. *)
InCall == mode = "Running" /\ fuel > 0

(***************************************************************************)
(* Types of what a step computes.                                          *)
(***************************************************************************)
LEMMA ReadType == ASSUME TypeOK, NEW i \in Reg PROVE R(i) \in Word
  BY WordModType DEF TypeOK, R, Word

(* Writing a register keeps the file a file, and x0 zero.                 *)
LEMMA SetRegType ==
  ASSUME TypeOK, ZeroRegister, NEW i \in Reg, NEW v \in Word, SetReg(i, v)
  PROVE  regs' \in [Reg -> Word] /\ regs'[0] = 0
  BY DEF TypeOK, ZeroRegister, SetReg, Reg

(* Falling through keeps pc a word and aligned. *)
LEMMA Next4Facts == ASSUME TypeOK, pc % 4 = 0 PROVE Next4 \in Word /\ Next4 % 4 = 0
  <1>1. pc \in Int /\ pc + 4 \in Int BY WordModType DEF TypeOK, Word
  <1>2. Next4 \in Word BY <1>1, WrapType DEF Next4
  <1>3. Next4 % 4 = 0
    <2>1. PICK k \in Int : WordMod = 4 * k BY WordModMultiple
    <2>2. PICK j \in Int : pc = 4 * j
      <3>1. pc = 4 * (pc \div 4) + (pc % 4) /\ pc \div 4 \in Int BY <1>1, DivMod
      <3> QED BY <3>1
    <2>3. PICK q \in Int : pc + 4 = WordMod * q + Next4
      <3>1. pc + 4 = WordMod * ((pc + 4) \div WordMod) + ((pc + 4) % WordMod)
            /\ (pc + 4) \div WordMod \in Int
        BY <1>1, WordModType, DivMod
      <3> QED BY <3>1 DEF Next4, Wrap
    <2>4. Next4 \in Int BY <1>2, WordModType DEF Word
    <2>5. WordMod * q = 4 * (k * q) BY <2>1
    <2>6. PICK n \in Int : n = k * q BY <2>1
    <2>7. Next4 = 4 * (j + 1 - n) + 0 BY <2>2, <2>3, <2>4, <2>5, <2>6
    <2> QED BY <2>4, <2>7, DivModUnique
  <1> QED BY <1>2, <1>3

(* Every trap a step can raise is one of Trap's variants. *)
LEMMA TrapTypes ==
  ASSUME TypeOK, NEW a \in Word, NEW n \in {1, 2, 4}
  PROVE  /\ Misaligned(pc, a, n) \in Outcome /\ AccessFault(pc, a) \in Outcome
         /\ IllegalInstruction(a) \in Outcome
         /\ SystemTrap("EnvironmentCall") \in Outcome /\ SystemTrap("Breakpoint") \in Outcome
         /\ Ok \in Outcome
  BY DEF TypeOK, Outcome, Misaligned, AccessFault, IllegalInstruction, SystemTrap, Ok

(* The traps that carry no address are not Ok.                            *)
LEMMA StepTrapNotOk ==
  ASSUME NEW a
  PROVE  /\ IllegalInstruction(a) # Ok
         /\ SystemTrap("EnvironmentCall") # Ok /\ SystemTrap("Breakpoint") # Ok
  <1>1. IllegalInstruction(a).kind # Ok.kind BY DEF IllegalInstruction, Ok
  <1>2. SystemTrap("EnvironmentCall").kind # Ok.kind BY DEF SystemTrap, Ok
  <1>3. SystemTrap("Breakpoint").kind # Ok.kind BY DEF SystemTrap, Ok
  <1> QED BY <1>1, <1>2, <1>3

(* The verdict on a memory access is Ok or one of Trap's variants.        *)
LEMMA AccessType ==
  ASSUME TypeOK, NEW a \in Word, NEW n \in {1, 2, 4}
  PROVE  Access(pages, a, n, pc) \in Outcome
  BY AccessTrap, TrapTypes

(* Loads and stores are one, two or four bytes wide.                      *)
LEMMA WidthType == ASSUME NEW op PROVE Width(op) \in {1, 2, 4}
  BY DEF Width

(* What step fetches. *)
LEMMA FetchFacts ==
  ASSUME TypeOK
  PROVE  /\ FetchOutcome \in Outcome
         /\ FetchOutcome = Ok => /\ pc % 4 = 0
                                 /\ Fetched \in Word
                                 /\ Current \in Instr \cup {Illegal}
  <1>0. pc \in Word /\ 4 \in {1, 2, 4} /\ IsMemory(pages) BY DEF TypeOK
  <1>1. CASE pc % 4 # 0
    <2>1. FetchOutcome = Misaligned(pc, pc, 4) BY <1>1 DEF FetchOutcome
    <2> QED BY <1>0, <2>1, TrapTypes, TrapNotOk
  <1>2. CASE pc % 4 = 0
    <2>1. FetchOutcome = Access(pages, pc, 4, pc) BY <1>2 DEF FetchOutcome
    <2>2. FetchOutcome = Ok => Fetched \in Word
      BY <1>0, <2>1, AccessOk, LoadedType DEF Fetched
    <2>3. Fetched \in Word => Current \in Instr \cup {Illegal}
      BY EncodingAssumption, DecodeType DEF Current
    <2> QED BY <1>0, <1>2, <2>1, <2>2, <2>3, AccessType
  <1> QED BY <1>1, <1>2

(***************************************************************************)
(* The two ways a step ends keep the invariant.                            *)
(***************************************************************************)
LEMMA RetireInv ==
  ASSUME Inv, InCall, NEW next \in Word, next % 4 = 0, Retire(next),
         regs' \in [Reg -> Word], regs'[0] = 0, IsMemory(pages)'
  PROVE  Inv' /\ Trapped'
  <1> USE DEF Inv, InCall, Retire, callVars
  <1>1. Ok \in Outcome' BY DEF Outcome
  <1>2. TypeOK' BY <1>1 DEF TypeOK, Modes
  <1>3. ZeroRegister' BY DEF ZeroRegister
  <1>4. PcAligned' BY DEF PcAligned
  <1>5. Accounts' BY DEF Accounts, TypeOK
  <1>6. Trapped' BY DEF Trapped
  <1> QED BY <1>2, <1>3, <1>4, <1>5, <1>6

(* Raising a trap that may have written memory keeps the invariant.       *)
LEMMA RaiseInv ==
  ASSUME Inv, InCall, NEW trap \in Outcome, trap # Ok, Raise(trap),
         regs' \in [Reg -> Word], regs'[0] = 0, IsMemory(pages)'
  PROVE  Inv' /\ Trapped'
  <1> USE DEF Inv, InCall, Raise, callVars
  <1>1. trap \in Outcome' BY DEF Outcome
  <1>2. TypeOK' BY <1>1 DEF TypeOK, Modes
  <1>3. ZeroRegister' BY DEF ZeroRegister
  <1>4. PcAligned' BY DEF PcAligned
  <1>5. Accounts' BY DEF Accounts, TypeOK
  <1>6. Trapped' BY DEF Trapped
  <1> QED BY <1>2, <1>3, <1>4, <1>5, <1>6

(* Raising a trap with no other effect keeps the invariant.               *)
LEMMA RaiseOnlyInv ==
  ASSUME Inv, InCall, NEW trap \in Outcome, trap # Ok, RaiseOnly(trap)
  PROVE  Inv' /\ Trapped'
  <1>1. regs' \in [Reg -> Word] /\ regs'[0] = 0 /\ IsMemory(pages)'
    BY DEF RaiseOnly, Inv, TypeOK, ZeroRegister, IsMemory
  <1> QED BY <1>1, RaiseInv DEF RaiseOnly

(* Writing rd and falling through keeps the invariant.                    *)
LEMMA ComputeInv ==
  ASSUME Inv, InCall, pc % 4 = 0, NEW rd \in Reg, NEW v \in Word, Compute(rd, v)
  PROVE  Inv' /\ Trapped'
  <1>1. regs' \in [Reg -> Word] /\ regs'[0] = 0 BY SetRegType DEF Compute, Inv
  <1>2. IsMemory(pages)' BY DEF Compute, Inv, TypeOK, IsMemory
  <1>3. Next4 \in Word /\ Next4 % 4 = 0 BY Next4Facts DEF Inv
  <1> QED BY <1>1, <1>2, <1>3, RetireInv DEF Compute

(* A jump keeps the invariant, whether its target is aligned or not.      *)
LEMMA JumpInv ==
  ASSUME Inv, InCall, pc % 4 = 0, NEW rd \in Reg, NEW target \in Word, JumpTo(rd, target)
  PROVE  Inv' /\ Trapped'
  <1>1. CASE target % 4 # 0
    <2>1. Misaligned(pc, target, 4) \in Outcome /\ Misaligned(pc, target, 4) # Ok
      BY TrapTypes, TrapNotOk DEF Inv
    <2> QED BY <1>1, <2>1, RaiseOnlyInv DEF JumpTo
  <1>2. CASE target % 4 = 0
    <2>1. Next4 \in Word BY Next4Facts DEF Inv
    <2>2. SetReg(rd, Next4) /\ Retire(target) /\ UNCHANGED pages BY <1>2 DEF JumpTo
    <2>3. regs' \in [Reg -> Word] /\ regs'[0] = 0 BY <2>1, <2>2, SetRegType DEF Inv
    <2>4. IsMemory(pages)' BY <2>2 DEF Inv, TypeOK, IsMemory
    <2> QED BY <1>2, <2>2, <2>3, <2>4, RetireInv
  <1> QED BY <1>1, <1>2

(***************************************************************************)
(* One lemma per group of arms of execute.                                 *)
(***************************************************************************)
LEMMA InstrFacts ==
  ASSUME NEW i \in Instr
  PROVE  /\ i.kind \in {"Lui", "Auipc", "Jal", "Jalr", "Branch", "Load", "Store", "OpImm"} =>
              i.imm \in Int
         /\ i.kind \in {"Lui", "Auipc", "Jal", "Jalr", "Load", "OpImm", "Op", "Mul"} =>
              i.rd \in Reg
         /\ i.kind \in {"Jalr", "Branch", "Load", "Store", "OpImm", "Op", "Mul"} =>
              i.rs1 \in Reg
         /\ i.kind \in {"Branch", "Store", "Op", "Mul"} => i.rs2 \in Reg
  BY SMT DEF Instr

(* Where a step can point. *)
LEMMA TargetTypes ==
  ASSUME TypeOK, NEW i
  PROVE  /\ i.imm \in Int => PcRelative(i) \in Word
         /\ i.imm \in Int /\ i.rs1 \in Reg => /\ EffectiveAddr(i) \in Word
                                              /\ JalrTarget(i) \in Word
  <1>1. ASSUME i.imm \in Int PROVE PcRelative(i) \in Word
    <2>1. pc + i.imm \in Int BY <1>1, WordModType DEF TypeOK, Word
    <2> QED BY <2>1, WrapType DEF PcRelative
  <1>2. ASSUME i.imm \in Int, i.rs1 \in Reg
        PROVE  EffectiveAddr(i) \in Word /\ JalrTarget(i) \in Word
    <2>1. R(i.rs1) \in Int BY <1>2, ReadType, WordInt
    <2>2. R(i.rs1) + i.imm \in Int BY <1>2, <2>1
    <2>3. EffectiveAddr(i) \in Word BY <2>2, WrapType DEF EffectiveAddr
    <2>4. EffectiveAddr(i) - (EffectiveAddr(i) % 2) \in Word
      <3>1. EffectiveAddr(i) \in Nat /\ EffectiveAddr(i) \in Int BY <2>3, WordInt
      <3>4. 2 \in Nat \ {0} OBVIOUS
      <3>5. /\ EffectiveAddr(i) \div 2 \in Int
            /\ EffectiveAddr(i) % 2 \in 0 .. 2 - 1
            /\ EffectiveAddr(i) = 2 * (EffectiveAddr(i) \div 2) + (EffectiveAddr(i) % 2)
        BY <3>1, <3>4, DivMod
      <3>2. PICK q \in Int, r \in 0 .. 1 :
              EffectiveAddr(i) = 2 * q + r /\ r = EffectiveAddr(i) % 2
        BY <3>5
      <3>3. 2 * q >= 0 BY <3>1, <3>2
      <3> QED BY <2>3, <3>1, <3>2, <3>3, WordModType DEF Word
    <2> QED BY <2>3, <2>4 DEF JalrTarget
  <1> QED BY <1>1, <1>2

(* What an instruction computes is a word. *)
LEMMA ResultTypes ==
  ASSUME TypeOK, NEW i \in Instr
  PROVE  /\ i.kind = "Lui" => Wrap(i.imm * UpperUnit) \in Word
         /\ i.kind = "Auipc" => Wrap(pc + i.imm * UpperUnit) \in Word
         /\ i.kind = "OpImm" => Alu(i.op, R(i.rs1), Wrap(i.imm)) \in Word
         /\ i.kind = "Op" => Alu(i.op, R(i.rs1), R(i.rs2)) \in Word
         /\ i.kind = "Mul" => MulDiv(i.op, R(i.rs1), R(i.rs2)) \in Word
  <1>1. CASE i.kind \in {"Lui", "Auipc"}
    <2>1. i.imm \in Int BY <1>1, InstrFacts
    <2>2. i.imm * UpperUnit \in Int BY <2>1, EncodingAssumption
    <2>3. pc + i.imm * UpperUnit \in Int BY <2>2, WordInt DEF TypeOK
    <2> QED BY <1>1, <2>2, <2>3, WrapType
  <1>2. CASE i.kind = "OpImm"
    <2>1. i.imm \in Int /\ i.rs1 \in Reg BY <1>2, InstrFacts
    <2>2. R(i.rs1) \in Word /\ Wrap(i.imm) \in Word BY <2>1, ReadType, WrapType
    <2> QED BY <1>2, <2>2, AluType
  <1>3. CASE i.kind \in {"Op", "Mul"}
    <2>1. i.rs1 \in Reg /\ i.rs2 \in Reg BY <1>3, InstrFacts
    <2>2. R(i.rs1) \in Word /\ R(i.rs2) \in Word BY <2>1, ReadType
    <2> QED BY <1>3, <2>2, AluType, MulDivType
  <1> QED BY <1>1, <1>2, <1>3

(* lui, auipc and the arithmetic keep the invariant.                      *)
LEMMA ArithmeticInv ==
  ASSUME Inv, InCall, pc % 4 = 0, NEW i \in Instr,
         Lui(i) \/ Auipc(i) \/ OpImm(i) \/ Op(i) \/ Mul(i)
  PROVE  Inv' /\ Trapped'
  <1>1. TypeOK BY DEF Inv
  <1>2. CASE Lui(i) BY <1>1, <1>2, InstrFacts, ResultTypes, ComputeInv DEF Lui
  <1>3. CASE Auipc(i) BY <1>1, <1>3, InstrFacts, ResultTypes, ComputeInv DEF Auipc
  <1>4. CASE OpImm(i) BY <1>1, <1>4, InstrFacts, ResultTypes, ComputeInv DEF OpImm
  <1>5. CASE Op(i) BY <1>1, <1>5, InstrFacts, ResultTypes, ComputeInv DEF Op
  <1>6. CASE Mul(i) BY <1>1, <1>6, InstrFacts, ResultTypes, ComputeInv DEF Mul
  <1> QED BY <1>2, <1>3, <1>4, <1>5, <1>6

(* Jumps and branches keep the invariant.                                 *)
LEMMA ControlInv ==
  ASSUME Inv, InCall, pc % 4 = 0, NEW i \in Instr, Jal(i) \/ Jalr(i) \/ Branch(i)
  PROVE  Inv' /\ Trapped'
  <1>1. TypeOK /\ Next4 \in Word /\ Next4 % 4 = 0 BY Next4Facts DEF Inv
  <1>2. CASE Jal(i)
    <2>1. i.rd \in Reg /\ PcRelative(i) \in Word
      BY <1>1, <1>2, InstrFacts, TargetTypes DEF Jal
    <2> QED BY <1>2, <2>1, JumpInv DEF Jal
  <1>3. CASE Jalr(i)
    <2>1. i.rd \in Reg /\ JalrTarget(i) \in Word
      BY <1>1, <1>3, InstrFacts, TargetTypes DEF Jalr
    <2> QED BY <1>3, <2>1, JumpInv DEF Jalr
  <1>4. CASE Branch(i)
    <2>1. PcRelative(i) \in Word BY <1>1, <1>4, InstrFacts, TargetTypes DEF Branch
    <2>2. CASE RaiseOnly(Misaligned(pc, PcRelative(i), 4))
      <3>1. Misaligned(pc, PcRelative(i), 4) \in Outcome
            /\ Misaligned(pc, PcRelative(i), 4) # Ok
        BY <1>1, <2>1, TrapTypes, TrapNotOk
      <3> QED BY <2>2, <3>1, RaiseOnlyInv
    <2>3. ASSUME UNCHANGED <<regs, pages>>
          PROVE  regs' \in [Reg -> Word] /\ regs'[0] = 0 /\ IsMemory(pages)'
      BY <2>3 DEF Inv, TypeOK, ZeroRegister, IsMemory
    <2>4. CASE PcRelative(i) % 4 = 0 /\ Retire(PcRelative(i)) /\ UNCHANGED <<regs, pages>>
      BY <2>1, <2>3, <2>4, RetireInv
    <2>5. CASE Retire(Next4) /\ UNCHANGED <<regs, pages>>
      BY <1>1, <2>3, <2>5, RetireInv
    <2>6. \/ RaiseOnly(Misaligned(pc, PcRelative(i), 4))
          \/ PcRelative(i) % 4 = 0 /\ Retire(PcRelative(i)) /\ UNCHANGED <<regs, pages>>
          \/ Retire(Next4) /\ UNCHANGED <<regs, pages>>
      BY <1>4, Zenon DEF Branch
    <2> QED BY <2>2, <2>4, <2>5, <2>6
  <1> QED BY <1>2, <1>3, <1>4

(* A loaded value, extended, is a word.                                   *)
LEMMA ExtendedType ==
  ASSUME NEW op, NEW v \in Word PROVE Extended(op, v) \in Word
  <1>1. v \in Int /\ Base \in Int /\ HalfMod \in Int
    BY WordInt, HalfModType, BaseAssumption
  <1>2. Wrap(SignExtend(v, Base)) \in Word /\ Wrap(SignExtend(v, HalfMod)) \in Word
    BY <1>1, SignExtendType
  <1> QED BY <1>2 DEF Extended

(* Loads and stores keep the invariant.                                   *)
LEMMA DataInv ==
  ASSUME Inv, InCall, pc % 4 = 0, NEW i \in Instr, Load(i) \/ Store(i)
  PROVE  Inv' /\ Trapped'
  <1>1. TypeOK /\ IsMemory(pages) /\ Next4 \in Word /\ Next4 % 4 = 0
    BY Next4Facts DEF Inv, TypeOK
  <1>2. i.imm \in Int /\ i.rs1 \in Reg /\ (i.kind = "Load" => i.rd \in Reg)
        /\ (i.kind = "Store" => i.rs2 \in Reg)
    BY InstrFacts DEF Load, Store
  <1>3. EffectiveAddr(i) \in Word /\ Width(i.op) \in {1, 2, 4}
    BY <1>1, <1>2, TargetTypes, WidthType
  <1>4. DataOutcome(i) \in Outcome BY <1>1, <1>3, AccessType DEF DataOutcome
  <1>5. CASE Load(i) /\ DataOutcome(i) # Ok
    BY <1>4, <1>5, RaiseOnlyInv DEF Load
  <1>6. CASE Load(i) /\ DataOutcome(i) = Ok
    <2> DEFINE raw == Loaded(pages, EffectiveAddr(i), Width(i.op))
    <2>1. raw \in Word
      BY <1>1, <1>3, <1>6, AccessOk, LoadedType DEF DataOutcome
    <2>2. Extended(i.op, raw) \in Word BY <2>1, ExtendedType
    <2>3. Compute(i.rd, Extended(i.op, raw)) /\ i.rd \in Reg BY <1>2, <1>6 DEF Load
    <2> QED BY <2>2, <2>3, ComputeInv
  <1>7. CASE Store(i)
    <2>1. R(i.rs2) \in Word BY <1>1, <1>2, <1>7, ReadType DEF Store
    <2>2. IsMemory(pages') BY <1>1, <1>3, <1>7, <2>1, WrittenType DEF Store
    <2>3. regs' \in [Reg -> Word] /\ regs'[0] = 0 /\ IsMemory(pages)'
      BY <1>7, <2>2 DEF Store, Inv, TypeOK, ZeroRegister, IsMemory
    <2>4. CASE DataOutcome(i) # Ok BY <1>4, <1>7, <2>3, <2>4, RaiseInv DEF Store
    <2>5. CASE DataOutcome(i) = Ok BY <1>1, <1>7, <2>3, <2>5, RetireInv DEF Store
    <2> QED BY <2>4, <2>5
  <1> QED BY <1>5, <1>6, <1>7

(* fence, ecall and ebreak keep the invariant.                            *)
LEMMA SystemInv ==
  ASSUME Inv, InCall, pc % 4 = 0, NEW i \in Instr, Fence(i) \/ Ecall(i) \/ Ebreak(i)
  PROVE  Inv' /\ Trapped'
  <1>1. 0 \in Word /\ 1 \in {1, 2, 4} BY WordModType DEF Word
  <1>2. /\ SystemTrap("EnvironmentCall") \in Outcome /\ SystemTrap("Breakpoint") \in Outcome
        /\ SystemTrap("EnvironmentCall") # Ok /\ SystemTrap("Breakpoint") # Ok
    BY <1>1, TrapTypes, StepTrapNotOk DEF Inv
  <1>3. CASE Ecall(i) BY <1>2, <1>3, RaiseOnlyInv DEF Ecall
  <1>4. CASE Ebreak(i) BY <1>2, <1>4, RaiseOnlyInv DEF Ebreak
  <1>5. CASE Fence(i)
    <2>1. Next4 \in Word /\ Next4 % 4 = 0 BY Next4Facts DEF Inv
    <2>2. regs' \in [Reg -> Word] /\ regs'[0] = 0 /\ IsMemory(pages)'
      BY <1>5 DEF Fence, Inv, TypeOK, ZeroRegister, IsMemory
    <2> QED BY <1>5, <2>1, <2>2, RetireInv DEF Fence
  <1> QED BY <1>3, <1>4, <1>5

(* execute is only reached with an instruction that decoded. *)
LEMMA ExecuteInstr ==
  ASSUME TypeOK, FetchOutcome = Ok, Execute(Current) PROVE Current \in Instr
  <1>1. Current \in Instr \cup {Illegal} BY FetchFacts
  <1>2. ~Execute(Illegal)
    BY SMT DEF Execute, Illegal, Lui, Auipc, Jal, Jalr, Branch, Load, Store, OpImm, Op,
       Mul, Fence, Ecall, Ebreak
  <1> QED BY <1>1, <1>2

(* Every call of step keeps the invariant. *)
LEMMA StepInv == ASSUME Inv, Iterate PROVE Inv' /\ Trapped'
  <1>1. InCall /\ Step BY DEF Iterate, InCall
  <1>2. /\ FetchOutcome \in Outcome
        /\ FetchOutcome = Ok => pc % 4 = 0 /\ Fetched \in Word
                                /\ Current \in Instr \cup {Illegal}
    BY FetchFacts DEF Inv
  <1>3. CASE FetchFault BY <1>1, <1>2, <1>3, RaiseOnlyInv DEF FetchFault
  <1>4. CASE FetchOutcome = Ok /\ IllegalWord
    <2>1. 1 \in {1, 2, 4} OBVIOUS
    <2>2. IllegalInstruction(Fetched) \in Outcome /\ IllegalInstruction(Fetched) # Ok
      BY <1>2, <1>4, <2>1, TrapTypes, StepTrapNotOk DEF Inv
    <2> QED BY <1>1, <1>4, <2>2, RaiseOnlyInv DEF IllegalWord
  <1>5. CASE FetchOutcome = Ok /\ Execute(Current)
    <2>1. Current \in Instr BY <1>5, ExecuteInstr DEF Inv
    <2>2. pc % 4 = 0 BY <1>2, <1>5
    <2>3. PICK i \in Instr : Execute(i) BY <1>5, <2>1
    <2>4. CASE Lui(i) \/ Auipc(i) \/ OpImm(i) \/ Op(i) \/ Mul(i)
      BY <1>1, <2>2, <2>4, ArithmeticInv
    <2>5. CASE Jal(i) \/ Jalr(i) \/ Branch(i) BY <1>1, <2>2, <2>5, ControlInv
    <2>6. CASE Load(i) \/ Store(i) BY <1>1, <2>2, <2>6, DataInv
    <2>7. CASE Fence(i) \/ Ecall(i) \/ Ebreak(i) BY <1>1, <2>2, <2>7, SystemInv
    <2> QED BY <2>3, <2>4, <2>5, <2>6, <2>7 DEF Execute
  <1> QED BY <1>1, <1>3, <1>4, <1>5 DEF Step

(* A call of run keeps the invariant.                                     *)
LEMMA CallInv == ASSUME Inv, Call PROVE Inv' /\ Trapped'
  <1> USE DEF Inv, Call, hartVars
  <1>1. PICK n \in Budgets : fuel' = n /\ budget' = n OBVIOUS
  <1>2. n \in Nat BY BudgetAssumption
  <1>3. TypeOK'
    <2>1. calls' \in 0 .. MaxCalls BY BudgetAssumption DEF TypeOK
    <2>2. res' \in Outcome' BY DEF TypeOK, Outcome
    <2> QED BY <1>1, <1>2, <2>1, <2>2 DEF TypeOK, Modes, IsMemory
  <1>4. ZeroRegister' /\ PcAligned' BY DEF ZeroRegister, PcAligned
  <1>5. Accounts' BY <1>1, <1>2 DEF Accounts, TypeOK
  <1>6. Trapped' BY DEF Trapped
  <1> QED BY <1>3, <1>4, <1>5, <1>6

(* Running out of budget keeps the invariant.                             *)
LEMMA ExhaustedInv == ASSUME Inv, Exhausted PROVE Inv' /\ Trapped'
  <1> USE DEF Inv, Exhausted, hartVars, callVars
  <1>1. TypeOK' BY DEF TypeOK, Modes, IsMemory, Outcome
  <1>2. ZeroRegister' /\ PcAligned' BY DEF ZeroRegister, PcAligned
  <1>3. Accounts' BY DEF Accounts, TypeOK
  <1>4. Trapped' BY DEF Trapped
  <1> QED BY <1>1, <1>2, <1>3, <1>4

(* A step of run retires an instruction or halts. *)
LEMMA StepEnds ==
  ASSUME Iterate
  PROVE  /\ UNCHANGED callVars
         /\ \/ mode' = "Halted" /\ UNCHANGED <<steps, fuel>>
            \/ mode' = "Running" /\ steps' = steps + 1 /\ fuel' = fuel - 1
  <1> DEFINE Halts == mode' = "Halted" /\ UNCHANGED <<steps, fuel>>
             GoesOn == mode' = "Running" /\ steps' = steps + 1 /\ fuel' = fuel - 1
             Ends == UNCHANGED callVars /\ (Halts \/ GoesOn)
  <1>0. mode = "Running" BY DEF Iterate
  <1>1. ASSUME NEW t, Raise(t) PROVE Ends BY <1>1 DEF Raise
  <1>2. ASSUME NEW next, Retire(next) PROVE Ends BY <1>0, <1>2 DEF Retire
  <1>3. ASSUME NEW i, Execute(i) PROVE Ends
    <2>1. CASE Lui(i) \/ Auipc(i) \/ OpImm(i) \/ Op(i) \/ Mul(i)
      BY <1>2, <2>1 DEF Lui, Auipc, OpImm, Op, Mul, Compute
    <2>2. CASE Jal(i) \/ Jalr(i) BY <1>1, <1>2, <2>2 DEF Jal, Jalr, JumpTo, RaiseOnly
    <2>3. CASE Branch(i) BY <1>1, <1>2, <2>3 DEF Branch, RaiseOnly
    <2>4. CASE Load(i) BY <1>1, <1>2, <2>4 DEF Load, Compute, RaiseOnly
    <2>5. CASE Store(i) BY <1>1, <1>2, <2>5 DEF Store
    <2>6. CASE Fence(i) \/ Ecall(i) \/ Ebreak(i)
      BY <1>1, <1>2, <2>6 DEF Fence, Ecall, Ebreak, RaiseOnly
    <2> HIDE DEF Ends
    <2> QED BY <1>3, <2>1, <2>2, <2>3, <2>4, <2>5, <2>6 DEF Execute
  <1> HIDE DEF Ends
  <1>4. Ends BY <1>1, <1>3 DEF Iterate, Step, FetchFault, IllegalWord, RaiseOnly
  <1> QED BY <1>4 DEF Ends

(* The invariant reads no more than vars.                                 *)
LEMMA StutterInv == ASSUME Inv, UNCHANGED vars PROVE Inv'
  BY DEF Inv, vars, TypeOK, IsMemory, Outcome, ZeroRegister, PcAligned, Accounts

(* Every initial state satisfies the invariant.                           *)
LEMMA InitInv == Init => Inv
  <1> SUFFICES ASSUME Init PROVE Inv OBVIOUS
  <1>1. PICK m \in Images : regs = m.regs /\ pc = m.pc /\ pages = m.pages BY DEF Init
  <1>2. TypeOK
    <2>1. calls \in 0 .. MaxCalls BY BudgetAssumption DEF Init
    <2> QED BY <1>1, <2>1, ImagesAssumption DEF Init, TypeOK, Modes, Outcome
  <1>3. ZeroRegister /\ PcAligned
    BY <1>1, ImagesAssumption DEF Init, ZeroRegister, PcAligned
  <1>4. Accounts BY DEF Init, Accounts
  <1> QED BY <1>2, <1>3, <1>4 DEF Inv

(* The whole invariant holds of every behaviour. *)
THEOREM Safety == Spec => []Inv
  <1>1. Inv /\ [Next]_vars => Inv'
    BY StepInv, CallInv, ExhaustedInv, StutterInv DEF Next
  <1> QED BY InitInv, <1>1, PTL DEF Spec

(* Every register, address, byte and counter stays in range, whatever the  *)
(* guest executes (hart.rs, exec.rs, mem.rs).                              *)
THEOREM TypeCorrect == Spec => []TypeOK
  <1>1. Inv => TypeOK BY DEF Inv
  <1> QED BY Safety, <1>1, PTL

(* No sequence of instructions stores anything in x0 (hart.rs 48-55).      *)
THEOREM X0StaysZero == Spec => []ZeroRegister
  <1>1. Inv => ZeroRegister BY DEF Inv
  <1> QED BY Safety, <1>1, PTL

(* No chain of jumps and branches leaves pc misaligned (exec.rs 109-149).  *)
THEOREM PcStaysAligned == Spec => []PcAligned
  <1>1. Inv => PcAligned BY DEF Inv
  <1> QED BY Safety, <1>1, PTL

(* run retires what it says it retires (hart.rs 86-95).                    *)
THEOREM BudgetIsExact == Spec => []BudgetExact
  <1>1. Init => Trapped BY DEF Init, Trapped
  <1>2. Inv /\ Trapped /\ [Next]_vars => Trapped'
    <2>1. ASSUME Trapped, UNCHANGED vars PROVE Trapped' BY <2>1 DEF Trapped, vars
    <2> QED BY <2>1, StepInv, CallInv, ExhaustedInv DEF Next
  <1>3. Inv /\ Trapped => BudgetExact BY DEF Inv, Accounts, Trapped, BudgetExact
  <1> QED BY Safety, <1>1, <1>2, <1>3, PTL DEF Spec

(***************************************************************************)
(* Traps: precise, true and final.                                         *)
(*                                                                         *)
(* The argument names the trap that is due in a state.  A step taken where *)
(* one is due raises exactly that one and changes nothing, so it is still  *)
(* due afterwards, in this call of run and in every later one.             *)
(***************************************************************************)
(* Executing instruction i here raises t. *)
ExecTrap(i, t) ==
  \/ i.kind = "Illegal" /\ t = IllegalInstruction(Fetched)
  \/ i.kind = "Jal" /\ PcRelative(i) % 4 # 0 /\ t = Misaligned(pc, PcRelative(i), 4)
  \/ i.kind = "Jalr" /\ JalrTarget(i) % 4 # 0 /\ t = Misaligned(pc, JalrTarget(i), 4)
  \/ /\ i.kind = "Branch" /\ Taken(i) /\ PcRelative(i) % 4 # 0
     /\ t = Misaligned(pc, PcRelative(i), 4)
  \/ i.kind \in {"Load", "Store"} /\ DataOutcome(i) # Ok /\ t = DataOutcome(i)
  \/ i.kind = "Ecall" /\ t = SystemTrap("EnvironmentCall")
  \/ i.kind = "Ebreak" /\ t = SystemTrap("Breakpoint")

(* The next step raises t. *)
TrapDue(t) ==
  \/ FetchOutcome # Ok /\ t = FetchOutcome
  \/ FetchOutcome = Ok /\ ExecTrap(Current, t)

(* How a step can end: it retires where no trap is due, or raises the one  *)
(* that is due and leaves the hart alone.                                  *)
Retires(i) == res' = Ok /\ mode' = mode /\ \A t : ~ExecTrap(i, t)
Raises(i) ==
  /\ res' # Ok /\ mode' = "Halted"
  /\ UNCHANGED hartVars
  /\ \A t : ExecTrap(i, t) <=> t = res'

(* The arithmetic and fence raise nothing, and retire.                    *)
LEMMA ArithmeticVerdict ==
  ASSUME NEW i, Lui(i) \/ Auipc(i) \/ OpImm(i) \/ Op(i) \/ Mul(i) \/ Fence(i)
  PROVE  Retires(i)
  BY SMT DEF Retires, ExecTrap, Lui, Auipc, OpImm, Op, Mul, Fence, Compute, Retire

(* ecall and ebreak raise exactly the trap that is due.                   *)
LEMMA SystemVerdict ==
  ASSUME NEW i, Ecall(i) \/ Ebreak(i) PROVE Raises(i)
  <1>1. SystemTrap("EnvironmentCall") # Ok /\ SystemTrap("Breakpoint") # Ok
    BY StepTrapNotOk
  <1> QED
    BY <1>1, SMT DEF Raises, ExecTrap, Ecall, Ebreak, RaiseOnly, Raise, hartVars

(* A jump or branch retires, or raises exactly the trap that is due.      *)
LEMMA ControlVerdict ==
  ASSUME NEW i, Jal(i) \/ Jalr(i) \/ Branch(i)
  PROVE  Retires(i) \/ Raises(i)
  <1>1. Misaligned(pc, PcRelative(i), 4) # Ok /\ Misaligned(pc, JalrTarget(i), 4) # Ok
    BY TrapNotOk
  <1>2. CASE Jal(i)
    BY <1>1, <1>2, SMT DEF Retires, Raises, ExecTrap, Jal, JumpTo, RaiseOnly, Raise, Retire,
       hartVars
  <1>3. CASE Jalr(i)
    BY <1>1, <1>3, SMT DEF Retires, Raises, ExecTrap, Jalr, JumpTo, RaiseOnly, Raise, Retire,
       hartVars
  <1>4. CASE Branch(i)
    BY <1>1, <1>4, SMT DEF Retires, Raises, ExecTrap, Branch, RaiseOnly, Raise, Retire,
       hartVars
  <1> QED BY <1>2, <1>3, <1>4

(* This is where pages longer than a word matter: a store that faults has  *)
(* stored nothing because its bytes share one page.                        *)
LEMMA DataVerdict ==
  ASSUME Inv, PageSize % 4 = 0, NEW i \in Instr, Load(i) \/ Store(i)
  PROVE  Retires(i) \/ Raises(i)
  <1>1. CASE Load(i)
    BY <1>1, SMT DEF Retires, Raises, ExecTrap, Load, Compute, RaiseOnly, Raise, Retire,
       hartVars
  <1>2. CASE Store(i) /\ DataOutcome(i) = Ok
    BY <1>2, SMT DEF Retires, ExecTrap, Store, Raise, Retire
  <1>3. CASE Store(i) /\ DataOutcome(i) # Ok
    <2>1. i.imm \in Int /\ i.rs1 \in Reg BY <1>3, InstrFacts DEF Store
    <2>2. EffectiveAddr(i) \in Word /\ Width(i.op) \in {1, 2, 4} /\ IsMemory(pages)
      BY <2>1, TargetTypes, WidthType DEF Inv, TypeOK
    <2>3. Access(pages, EffectiveAddr(i), Width(i.op), pc) # Ok BY <1>3 DEF DataOutcome
    <2>4. pages' = pages BY <1>3, <2>2, <2>3, FaultingWrite DEF Store
    <2> QED BY <1>3, <2>4, SMT DEF Raises, ExecTrap, Store, Raise, Retire, hartVars
  <1> QED BY <1>1, <1>2, <1>3

(* The two ends of a step, for every step. *)
LEMMA StepVerdict ==
  ASSUME Inv, PageSize % 4 = 0, Iterate
  PROVE  \/ res' = Ok /\ mode' = "Running" /\ \A t : ~TrapDue(t)
         \/ /\ res' # Ok /\ mode' = "Halted" /\ UNCHANGED hartVars
            /\ \A t : TrapDue(t) <=> t = res'
  <1>1. InCall /\ Step BY DEF Iterate, InCall
  <1>2. CASE FetchFault
    BY <1>2, SMT DEF FetchFault, RaiseOnly, Raise, TrapDue, hartVars
  <1>3. CASE FetchOutcome = Ok /\ IllegalWord
    <2>1. IllegalInstruction(Fetched) # Ok BY StepTrapNotOk
    <2>2. Current = Illegal /\ RaiseOnly(IllegalInstruction(Fetched)) BY <1>3 DEF IllegalWord
    <2>3. \A t : ExecTrap(Current, t) <=> t = IllegalInstruction(Fetched)
      BY <2>2, SMT DEF ExecTrap, Illegal
    <2> QED BY <1>3, <2>1, <2>2, <2>3 DEF RaiseOnly, Raise, TrapDue, hartVars
  <1>4. CASE FetchOutcome = Ok /\ Execute(Current)
    <2>1. Current \in Instr BY <1>4, ExecuteInstr DEF Inv
    <2>2. PICK i \in Instr : i = Current /\ Execute(i) BY <1>4, <2>1
    <2>3. Retires(i) \/ Raises(i)
      BY <2>2, ArithmeticVerdict, SystemVerdict, ControlVerdict, DataVerdict DEF Execute
    <2>4. mode = "Running" BY <1>1 DEF InCall
    <2> QED BY <1>4, <2>2, <2>3, <2>4 DEF Retires, Raises, TrapDue
  <1> QED BY <1>1, <1>2, <1>3, <1>4 DEF Step

(***************************************************************************)
(* Precise traps.                                                          *)
(***************************************************************************)
(* A trap leaves the machine as its step found it, whenever a page is a    *)
(* whole number of words long (exec.rs 109-149, mem.rs 84-93).             *)
THEOREM TrapsArePrecise ==
  ASSUME PageSize % 4 = 0 PROVE Spec => TrapPrecise
  <1>1. Inv /\ [Next]_vars =>
          [mode = "Running" /\ mode' = "Halted" => UNCHANGED hartVars]_vars
    <2> SUFFICES ASSUME Inv, Next, mode = "Running", mode' = "Halted"
                 PROVE  UNCHANGED hartVars
      OBVIOUS
    <2>1. CASE Iterate BY <2>1, StepVerdict
    <2>2. CASE Call BY <2>2 DEF Call
    <2>3. CASE Exhausted BY <2>3 DEF Exhausted
    <2> QED BY <2>1, <2>2, <2>3 DEF Next
  <1> QED BY <1>1, Safety, PTL DEF Spec, TrapPrecise

(***************************************************************************)
(* Final traps.                                                            *)
(***************************************************************************)
(* The trap that was reported is still the one that is due. *)
TrapStands == res # Ok => TrapDue(res)

(* What is due depends on the registers, pc and memory only.              *)
LEMMA TrapDueKept ==
  ASSUME NEW t, TrapDue(t), UNCHANGED <<regs, pc, pages>> PROVE TrapDue(t)'
  BY DEF TrapDue, ExecTrap, FetchOutcome, Current, Fetched, IllegalInstruction, SystemTrap,
     PcRelative, JalrTarget, EffectiveAddr, R, Taken, DataOutcome

(* No step gets past a reported trap: it stays due, and stays reported.   *)
LEMMA TrapStandsStep ==
  ASSUME Inv, PageSize % 4 = 0, TrapStands, [Next]_vars
  PROVE  /\ TrapStands'
         /\ res # Ok => UNCHANGED <<hartVars, res>>
  <1>1. CASE Iterate
    <2>1. CASE res' = Ok /\ \A t : ~TrapDue(t) BY <2>1 DEF TrapStands
    <2>2. CASE /\ res' # Ok /\ UNCHANGED hartVars
               /\ \A t : TrapDue(t) <=> t = res'
      <3>1. PICK t : t = res' OBVIOUS
      <3>2. TrapDue(t)' BY <2>2, <3>1, TrapDueKept DEF hartVars
      <3>3. TrapDue(res)' BY <3>1, <3>2 DEF TrapDue, ExecTrap
      <3>4. res # Ok => res = res' BY <2>2 DEF TrapStands
      <3> QED BY <2>2, <3>3, <3>4 DEF TrapStands
    <2> QED BY <1>1, <2>1, <2>2, StepVerdict
  <1>2. CASE UNCHANGED <<hartVars, res>>
    <2>1. ASSUME res # Ok PROVE TrapDue(res)'
      <3>1. PICK t : t = res /\ TrapDue(t) BY <2>1 DEF TrapStands
      <3>2. TrapDue(t)' /\ res' = t BY <1>2, <3>1, TrapDueKept DEF hartVars
      <3> QED BY <3>2 DEF TrapDue, ExecTrap
    <2> QED BY <1>2, <2>1 DEF TrapStands
  <1>3. CASE Call \/ Exhausted \/ UNCHANGED vars
    <2>1. UNCHANGED <<hartVars, res>> BY <1>3 DEF Call, Exhausted, vars, hartVars
    <2> QED BY <1>2, <2>1
  <1> QED BY <1>1, <1>3 DEF Next

(* Calling run again after a trap never gets past it: the hart stays where *)
(* it is and answers the same trap (hart.rs 68-95).                        *)
THEOREM TrapsAreFinal ==
  ASSUME PageSize % 4 = 0 PROVE Spec => TrapIsFinal
  <1>1. Init => TrapStands BY DEF Init, TrapStands
  <1>2. Inv /\ TrapStands /\ [Next]_vars => TrapStands' BY TrapStandsStep
  <1>3. Inv /\ TrapStands /\ [Next]_vars => [res # Ok => UNCHANGED <<hartVars, res>>]_vars
    BY TrapStandsStep
  <1> QED BY <1>1, <1>2, <1>3, Safety, PTL DEF Spec, TrapIsFinal

(***************************************************************************)
(* True traps.                                                             *)
(***************************************************************************)
(* What TrapTruthful says of one report. *)
True(t) ==
  /\ t.pc = pc
  /\ CASE t.kind = "MisalignedAccess" ->
            /\ t.addr % t.width # 0
            /\ t.addr = pc \/ Current.kind \in {"Jal", "Jalr", "Branch", "Load", "Store"}
       [] t.kind = "AccessFault" -> ~Mapped(pages, t.addr)
       [] t.kind = "IllegalInstruction" -> t.word = Fetched /\ Current = Illegal
       [] t.kind = "EnvironmentCall" -> Current.kind = "Ecall"
       [] t.kind = "Breakpoint" -> Current.kind = "Ebreak"

(* The trap of a memory access tells the truth.                           *)
LEMMA AccessTrue ==
  ASSUME TypeOK, NEW a \in Word, NEW n \in {1, 2, 4}, Access(pages, a, n, pc) # Ok,
         a = pc \/ Current.kind \in {"Load", "Store"}
  PROVE  True(Access(pages, a, n, pc))
  <1>1. CASE Access(pages, a, n, pc) = Misaligned(pc, a, n) /\ a % n # 0
    BY <1>1, SMT DEF True, Misaligned
  <1>2. CASE \E c \in Word : Access(pages, a, n, pc) = AccessFault(pc, c) /\ ~Mapped(pages, c)
    BY <1>2, SMT DEF True, AccessFault
  <1> QED BY <1>1, <1>2, AccessTrap

(* The trap of a misaligned target tells the truth.                       *)
LEMMA MisalignedTrue ==
  ASSUME NEW a, a % 4 # 0,
         a = pc \/ Current.kind \in {"Jal", "Jalr", "Branch", "Load", "Store"}
  PROVE  True(Misaligned(pc, a, 4))
  BY SMT DEF True, Misaligned

(* A trap that is due tells the truth about the state it is due in.       *)
LEMMA DueIsTrue == ASSUME Inv, NEW t, TrapDue(t) PROVE True(t)
  <1>0. pc \in Word /\ 4 \in {1, 2, 4} /\ TypeOK BY DEF Inv, TypeOK
  <1>1. CASE FetchOutcome # Ok /\ t = FetchOutcome
    <2>1. CASE pc % 4 # 0
      <3>1. t = Misaligned(pc, pc, 4) BY <1>1, <2>1 DEF FetchOutcome
      <3> QED BY <2>1, <3>1, MisalignedTrue
    <2>2. CASE pc % 4 = 0
      <3>1. t = Access(pages, pc, 4, pc) /\ t # Ok BY <1>1, <2>2 DEF FetchOutcome
      <3> QED BY <1>0, <3>1, AccessTrue
    <2> QED BY <2>1, <2>2
  <1>2. CASE FetchOutcome = Ok /\ ExecTrap(Current, t)
    <2>1. Current \in Instr \cup {Illegal} BY <1>0, <1>2, FetchFacts
    <2>2. CASE Current.kind = "Illegal" /\ t = IllegalInstruction(Fetched)
      <3>1. Current = Illegal BY <2>1, <2>2, SMT DEF Instr
      <3> QED BY <2>2, <3>1, SMT DEF True, IllegalInstruction
    <2>3. CASE Current.kind \in {"Load", "Store"} /\ DataOutcome(Current) # Ok
               /\ t = DataOutcome(Current)
      <3>1. Current \in Instr BY <2>1, <2>3, SMT DEF Illegal
      <3>2. Current.imm \in Int /\ Current.rs1 \in Reg BY <2>3, <3>1, InstrFacts
      <3>3. EffectiveAddr(Current) \in Word /\ Width(Current.op) \in {1, 2, 4}
        BY <1>0, <3>2, TargetTypes, WidthType
      <3> QED BY <1>0, <2>3, <3>3, AccessTrue DEF DataOutcome
    <2>4. CASE /\ Current.kind \in {"Jal", "Jalr", "Branch"}
               /\ \E a : t = Misaligned(pc, a, 4) /\ a % 4 # 0
      BY <2>4, MisalignedTrue
    <2>5. CASE Current.kind = "Ecall" /\ t = SystemTrap("EnvironmentCall")
      BY <2>5, SMT DEF True, SystemTrap
    <2>6. CASE Current.kind = "Ebreak" /\ t = SystemTrap("Breakpoint")
      BY <2>6, SMT DEF True, SystemTrap
    <2> QED BY <1>2, <2>2, <2>3, <2>4, <2>5, <2>6 DEF ExecTrap
  <1> QED BY <1>1, <1>2 DEF TrapDue

(* What a trap says is true of the machine it leaves, also long after it   *)
(* was raised (trap.rs 7-24).                                              *)
THEOREM TrapsAreTrue ==
  ASSUME PageSize % 4 = 0 PROVE Spec => []TrapTruthful
  <1>1. Init => TrapStands BY DEF Init, TrapStands
  <1>2. Inv /\ TrapStands /\ [Next]_vars => TrapStands' BY TrapStandsStep
  <1>3. Inv /\ TrapStands => TrapTruthful
    BY DueIsTrue DEF TrapStands, TrapTruthful, True
  <1> QED BY <1>1, <1>2, <1>3, Safety, PTL DEF Spec

(***************************************************************************)
(* Confined stores.                                                        *)
(***************************************************************************)
(* A store changes no byte but those of its own access.                   *)
LEMMA WrittenConfined ==
  ASSUME NEW mem, IsMemory(mem), NEW addr \in Word, NEW value, NEW width \in {1, 2, 4},
         NEW a \in Word, Mapped(mem, a),
         ByteIn(Written(mem, addr, value, width), a) # ByteIn(mem, a)
  PROVE  \E k \in 0 .. width - 1 : a = Cell(addr, k)
  <1> DEFINE i == Wrap((PageOf(a) * PageSize + OffsetOf(a)) - addr)
  <1>1. PageOf(a) \in DOMAIN mem /\ OffsetOf(a) \in Offset BY PageFacts DEF Mapped
  <1>2. ByteIn(Written(mem, addr, value, width), a)
          = IF i \in Reached(mem, addr, width) THEN ByteAt(value, i) ELSE ByteIn(mem, a)
    BY <1>1 DEF ByteIn, Written
  <1>3. i \in Reached(mem, addr, width) BY <1>2
  <1>4. i \in 0 .. width - 1 BY <1>3 DEF Reached
  <1>5. a = Cell(addr, i) BY PagePosition, CellAtDistance
  <1> QED BY <1>4, <1>5

(* A step changes memory only by a store, and a store only where it points *)
(* (mem.rs 61-68, 84-93; exec.rs 168-178).                                 *)
THEOREM StoresAreConfined == Spec => StoreConfined
  <1> DEFINE Confined ==
        /\ DOMAIN pages' = DOMAIN pages
        /\ \A a \in Word :
             Mapped(pages, a) /\ ByteIn(pages', a) # ByteIn(pages, a) =>
               /\ Executing("Store")
               /\ \E k \in 0 .. Width(Current.op) - 1 : a = Cell(EffectiveAddr(Current), k)
  <1>1. Inv /\ [Next]_vars => [Confined]_vars
    <2> SUFFICES ASSUME Inv, Next PROVE Confined OBVIOUS
    <2>1. CASE pages' = pages BY <2>1 DEF ByteIn
    <2>2. CASE Iterate /\ FetchOutcome = Ok /\ Store(Current)
      <3>1. Execute(Current) /\ Executing("Store")
        BY <2>2 DEF Execute, Store, Iterate, Executing
      <3>2. Current \in Instr BY <2>2, <3>1, ExecuteInstr DEF Inv
      <3>3. Current.imm \in Int /\ Current.rs1 \in Reg /\ Current.rs2 \in Reg
        BY <2>2, <3>2, InstrFacts DEF Store
      <3>4. EffectiveAddr(Current) \in Word /\ Width(Current.op) \in {1, 2, 4}
            /\ IsMemory(pages)
        BY <3>3, TargetTypes, WidthType DEF Inv, TypeOK
      <3>5. pages' = Written(pages, EffectiveAddr(Current), R(Current.rs2), Width(Current.op))
        BY <2>2 DEF Store
      <3>6. DOMAIN pages' = DOMAIN pages BY <3>5 DEF Written
      <3> QED BY <3>1, <3>4, <3>5, <3>6, WrittenConfined
    <2>3. \/ pages' = pages
          \/ Iterate /\ FetchOutcome = Ok /\ Store(Current)
      <3>1. CASE Iterate
        <4>1. CASE FetchFault BY <4>1 DEF FetchFault, RaiseOnly
        <4>2. CASE FetchOutcome = Ok /\ IllegalWord BY <4>2 DEF IllegalWord, RaiseOnly
        <4>3. CASE FetchOutcome = Ok /\ Execute(Current)
          BY <3>1, <4>3 DEF Execute, Lui, Auipc, Jal, Jalr, Branch, Load, OpImm, Op, Mul,
             Fence, Ecall, Ebreak, Compute, JumpTo, RaiseOnly
        <4> QED BY <3>1, <4>1, <4>2, <4>3 DEF Iterate, Step
      <3>2. CASE Call \/ Exhausted BY <3>2 DEF Call, Exhausted, hartVars
      <3> QED BY <3>1, <3>2 DEF Next
    <2> QED BY <2>1, <2>2, <2>3
  <1> QED BY <1>1, Safety, PTL DEF Spec, StoreConfined

(* What a store that retires has stored is what a load of its width would  *)
(* read next (mem.rs 70-93, exec.rs 168-178).                              *)
THEOREM StoresReadBack == Spec => StoreReadBack
  <1> DEFINE Agrees ==
        Executing("Store") /\ DataOutcome(Current) = Ok =>
          Loaded(pages', EffectiveAddr(Current), Width(Current.op))
            = R(Current.rs2) % Capacity(Width(Current.op))
  <1>1. Inv /\ [Next]_vars => [Agrees]_vars
    <2> SUFFICES ASSUME Inv, Next, Executing("Store"), DataOutcome(Current) = Ok
                 PROVE  Loaded(pages', EffectiveAddr(Current), Width(Current.op))
                          = R(Current.rs2) % Capacity(Width(Current.op))
      OBVIOUS
    <2>1. mode = "Running" /\ fuel > 0 /\ FetchOutcome = Ok /\ Current.kind = "Store"
      BY DEF Executing
    <2>2. Iterate BY <2>1 DEF Next, Call, Exhausted
    <2>3. Execute(Current) /\ Store(Current)
      <3>1. Current # Illegal BY <2>1, SMT DEF Illegal
      <3>2. Execute(Current)
        BY <2>1, <2>2, <3>1 DEF Iterate, Step, FetchFault, IllegalWord
      <3> QED
        BY <2>1, <3>2, SMT DEF Execute, Lui, Auipc, Jal, Jalr, Branch, Load, OpImm, Op, Mul,
           Fence, Ecall, Ebreak
    <2>4. Current \in Instr BY <2>1, <2>3, ExecuteInstr DEF Inv
    <2>5. Current.imm \in Int /\ Current.rs1 \in Reg /\ Current.rs2 \in Reg
      BY <2>1, <2>4, InstrFacts
    <2>6. /\ EffectiveAddr(Current) \in Word /\ Width(Current.op) \in {1, 2, 4}
          /\ IsMemory(pages) /\ R(Current.rs2) \in Word
      BY <2>5, TargetTypes, WidthType, ReadType DEF Inv, TypeOK
    <2>7. pages' = Written(pages, EffectiveAddr(Current), R(Current.rs2), Width(Current.op))
      BY <2>3 DEF Store
    <2> QED BY <2>6, <2>7, ReadBack DEF DataOutcome, Capacity
  <1> QED BY <1>1, Safety, PTL DEF Spec, StoreReadBack

(***************************************************************************)
(* The loop that jumps to itself.                                          *)
(***************************************************************************)
(* pc is at `j .`, the panic handler's `loop {}`.                          *)
Spinning == FetchOutcome = Ok /\ FieldsOf(Fetched) = JType(0, 0, OpJal)

(* The word is a jal that links nowhere, over a distance of zero. *)
LEMMA SpinDecodes == Decode(JType(0, 0, OpJal)) = [kind |-> "Jal", rd |-> 0, imm |-> 0]
  <1>1. JType(0, 0, OpJal) = [f7 |-> 0, rs2 |-> 0, rs1 |-> 0, f3 |-> 0, rd |-> 0, op |-> OpJal]
    BY SMT DEF JType, RType, Slice
  <1>2. ImmJ(JType(0, 0, OpJal)) = 0 BY <1>1, SMT DEF ImmJ, Sext
  <1>3. PICK w : w = JType(0, 0, OpJal) /\ w.op = OpJal /\ w.rd = 0 /\ ImmJ(w) = 0
    BY <1>1, <1>2, SMT
  <1>4. Decode(w) = [kind |-> "Jal", rd |-> w.rd, imm |-> ImmJ(w)]
    BY <1>3, SMT
    DEF Decode, OpLui, OpAuipc, OpJal, OpJalr, OpBranch, OpLoad, OpStore, OpImmed, OpReg,
        OpFence, OpSystem, IsSystem
  <1> QED BY <1>3, <1>4

(* What a guest in that loop does: it stays there and is never halted.     *)
GoesRound == Spinning => Spinning' /\ UNCHANGED <<regs, pc, pages>> /\ mode' # "Halted"

(* A step of the loop retires, and leaves everything as it was.            *)
LEMMA SpinStep ==
  ASSUME Inv, Iterate, Spinning PROVE UNCHANGED <<regs, pc, pages, mode>>
  <1>1. pc \in Word /\ pc % 4 = 0 /\ FetchOutcome = Ok
    BY FetchFacts DEF Inv, TypeOK, Spinning
  <1>2. Current = [kind |-> "Jal", rd |-> 0, imm |-> 0] BY SpinDecodes DEF Spinning, Current
  <1>3. Execute(Current)
    BY <1>1, <1>2, SMT DEF Iterate, Step, FetchFault, IllegalWord, Illegal
  <1>4. JumpTo(0, PcRelative(Current))
    BY <1>2, <1>3, SMT
    DEF Execute, Lui, Auipc, Jal, Jalr, Branch, Load, Store, OpImm, Op, Mul, Fence, Ecall, Ebreak
  <1>5. PcRelative(Current) = pc
    <2>1. pc + 0 = pc BY <1>1 DEF Word
    <2> QED BY <1>1, <1>2, <2>1, WrapWord DEF PcRelative
  <1> QED BY <1>1, <1>4, <1>5 DEF JumpTo, SetReg, Retire

(* A panicking guest must not look like a finished one (runtime.rs 19-25): *)
(* once in the handler's loop no call of run, of any budget, ends in       *)
(* anything but StepLimit.                                                 *)
THEOREM PanicsNeverHalt == Spec => [][GoesRound]_vars
  <1>1. Inv /\ [Next]_vars => [GoesRound]_vars
    <2> SUFFICES ASSUME Inv, Next, Spinning
                 PROVE  Spinning' /\ UNCHANGED <<regs, pc, pages>> /\ mode' # "Halted"
      BY DEF GoesRound
    <2>1. UNCHANGED <<regs, pc, pages>> /\ mode' # "Halted"
      <3>1. CASE Iterate BY <3>1, SpinStep DEF Iterate
      <3>2. CASE Call \/ Exhausted BY <3>2 DEF Call, Exhausted, hartVars
      <3> QED BY <3>1, <3>2 DEF Next
    <2>2. Spinning' BY <2>1 DEF Spinning, FetchOutcome, Fetched
    <2> QED BY <2>1, <2>2
  <1> QED BY <1>1, Safety, PTL DEF Spec
=============================================================================
