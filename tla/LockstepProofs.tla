---------------------------- MODULE LockstepProofs ----------------------------
(***************************************************************************)
(* The primary interpreter beside the reference: it implements it, the     *)
(* harness that compares the two misses nothing and raises no false alarm, *)
(* and a host that brings in pages on demand is not seen.  What            *)
(* tests/lockstep.rs samples, for every program, image and budget.         *)
(***************************************************************************)
EXTENDS Harness, Host, HartProofs

(***************************************************************************)
(* The two interpreters are written over the same words and fields.        *)
(***************************************************************************)
(* Arithmetic of words in the reference is that of the primary.            *)
LEMMA SameWords ==
  /\ Reference!Word = Word /\ Reference!Byte = Byte /\ Reference!Reg = Reg
  /\ Reference!WordMod = WordMod /\ Reference!HalfMod = HalfMod
  /\ \A n : Reference!Wrap(n) = Wrap(n)
  /\ \A a : Reference!Signed(a) = Signed(a)
  /\ \A v, m : Reference!SignExtend(v, m) = SignExtend(v, m)
  /\ \A v, i : Reference!ByteAt(v, i) = ByteAt(v, i)
  BY DEF Reference!Word, Reference!Byte, Reference!Reg, Reference!WordMod, Reference!HalfMod,
         Reference!Wrap, Reference!Signed, Reference!SignExtend, Reference!ByteAt,
         Word, Byte, Reg, WordMod, HalfMod, Wrap, Signed, SignExtend, ByteAt

(* So are its tables of opcodes, immediates and legal codes.               *)
LEMMA SameTables ==
  ASSUME NEW w
  PROVE  /\ Reference!RefImmI(w) = RefImmI(w) /\ Reference!RefImmS(w) = RefImmS(w)
         /\ Reference!RefImmB(w) = RefImmB(w) /\ Reference!RefImmU(w) = RefImmU(w)
         /\ Reference!RefImmJ(w) = RefImmJ(w)
         /\ \A n : Reference!SystemWord(w, n) = SystemWord(w, n)
         /\ \A f3, f7 : /\ Reference!LegalImm(f3, f7) = LegalImm(f3, f7)
                        /\ Reference!LegalReg(f3, f7) = LegalReg(f3, f7)
         /\ \A f3 : /\ Reference!LegalBranch(f3) = LegalBranch(f3)
                    /\ Reference!LegalLoad(f3) = LegalLoad(f3)
                    /\ Reference!LegalStore(f3) = LegalStore(f3)
  BY DEF Reference!RefImmI, Reference!RefImmS, Reference!RefImmB, Reference!RefImmU,
         Reference!RefImmJ, Reference!TopBit, Reference!SignedF7, Reference!SystemWord,
         Reference!RType, Reference!OpSystem, Reference!LegalImm, Reference!LegalReg,
         Reference!LegalBranch, Reference!LegalLoad, Reference!LegalStore,
         RefImmI, RefImmS, RefImmB, RefImmU, RefImmJ, TopBit, SignedF7, SystemWord, RType,
         OpSystem, LegalImm, LegalReg, LegalBranch, LegalLoad, LegalStore

(* The opcodes. *)
LEMMA SameOpcodes ==
  /\ Reference!OpLui = OpLui /\ Reference!OpAuipc = OpAuipc /\ Reference!OpJal = OpJal
  /\ Reference!OpJalr = OpJalr /\ Reference!OpBranch = OpBranch
  /\ Reference!OpLoad = OpLoad /\ Reference!OpStore = OpStore
  /\ Reference!OpImmed = OpImmed /\ Reference!OpReg = OpReg
  /\ Reference!OpFence = OpFence /\ Reference!OpSystem = OpSystem
  BY DEF Reference!OpLui, Reference!OpAuipc, Reference!OpJal, Reference!OpJalr,
         Reference!OpBranch, Reference!OpLoad, Reference!OpStore, Reference!OpImmed,
         Reference!OpReg, Reference!OpFence, Reference!OpSystem,
         OpLui, OpAuipc, OpJal, OpJalr, OpBranch, OpLoad, OpStore, OpImmed, OpReg, OpFence,
         OpSystem

(* And its arithmetic tables. *)
LEMMA SameArithmetic ==
  ASSUME NEW f3, NEW f7, NEW a, NEW b, NEW sh
  PROVE  /\ Reference!ImmTable(f3, f7, a, b, sh) = ImmTable(f3, f7, a, b, sh)
         /\ Reference!RegTable(f3, f7, a, b) = RegTable(f3, f7, a, b)
         /\ Reference!Take(f3, a, b) = Take(f3, a, b)
  <1>1. Reference!ImmTable(f3, f7, a, b, sh) = ImmTable(f3, f7, a, b, sh)
    BY DEF Reference!ImmTable, Reference!Wrap, Reference!WordMod, Reference!Truth,
           Reference!Signed, Reference!SignExtend, Reference!Shl, Reference!Shr,
           Reference!Sar, ImmTable, Wrap, WordMod, Truth, Signed, SignExtend, Shl, Shr, Sar
  <1>2. Reference!MulDivTable(f3, a, b) = MulDivTable(f3, a, b)
    BY DEF Reference!MulDivTable, Reference!WordMod, Reference!Signed,
           Reference!SignExtend, MulDivTable, WordMod, Signed, SignExtend
  <1>3. Reference!RegTable(f3, f7, a, b) = RegTable(f3, f7, a, b)
    BY <1>2 DEF Reference!RegTable, Reference!Wrap, Reference!WordMod, Reference!Truth,
           Reference!Signed, Reference!SignExtend, Reference!Shl, Reference!Shr,
           Reference!Sar, RegTable, Wrap, WordMod, Truth, Signed, SignExtend, Shl, Shr, Sar
  <1>4. Reference!Take(f3, a, b) = Take(f3, a, b)
    BY DEF Reference!Take, Reference!Signed, Reference!SignExtend, Reference!WordMod,
           Take, Signed, SignExtend, WordMod
  <1> QED BY <1>1, <1>3, <1>4

(***************************************************************************)
(* The memories answer alike.                                              *)
(***************************************************************************)
(* The reference refuses what the primary traps on, for the same reason.   *)
LEMMA SameCheck ==
  ASSUME IsMemory(pages), NEW addr \in Word, NEW width \in {1, 2, 4}
  PROVE  Reference!Check(addr, width) = Reason(Access(pages, addr, width, pc))
  <1>1. ASSUME NEW i \in 0 .. width - 1
        PROVE  Flat(pages)[Reference!At(addr, i)] # Reference!NoByte
                 <=> Mapped(pages, Cell(addr, i))
    <2>1. addr \in Int /\ i \in Int BY WordInt
    <2>2. Cell(addr, i) \in Word /\ Reference!At(addr, i) = Cell(addr, i)
      BY <2>1, CellType, SameWords DEF Reference!At, Cell
    <2> QED BY <2>2, FlatAt DEF Reference!NoByte
  <1>2. (\A i \in 0 .. width - 1 : Flat(pages)[Reference!At(addr, i)] # Reference!NoByte)
          <=> AllMapped(pages, addr, width)
    BY <1>1 DEF AllMapped
  <1>3. Reference!Check(addr, width)
          = IF addr % width # 0 THEN "Misaligned"
            ELSE IF AllMapped(pages, addr, width) THEN "Ok" ELSE "Fault"
    BY <1>2 DEF Reference!Check
  <1> QED BY <1>3, AccessKind DEF Reason

(* And reads the same value where neither refuses. *)
LEMMA SameLoad ==
  ASSUME IsMemory(pages), NEW addr \in Word, NEW width \in {1, 2, 4},
         Access(pages, addr, width, pc) = Ok
  PROVE  Reference!LoadedWord(addr, width) = Loaded(pages, addr, width)
  <1> DEFINE b(i) == IF i < width THEN ByteIn(pages, Cell(addr, i)) ELSE 0
             c(i) == IF i < width THEN Flat(pages)[Reference!At(addr, i)] ELSE 0
  <1>1. AllMapped(pages, addr, width)
    <2>1. Access(pages, addr, width, pc).kind = "Ok" BY DEF Ok
    <2> QED BY <2>1, AccessKind
  <1>2. ASSUME NEW i \in 0 .. 3 PROVE b(i) = c(i) /\ b(i) \in Int
    <2>1. CASE i < width
      <3>1. i \in 0 .. width - 1 /\ i \in Int /\ addr \in Int BY <2>1, WordInt
      <3>2. Cell(addr, i) \in Word /\ Mapped(pages, Cell(addr, i))
        BY <1>1, <3>1, CellType DEF AllMapped
      <3>3. Reference!At(addr, i) = Cell(addr, i) BY SameWords DEF Reference!At, Cell
      <3>4. ByteIn(pages, Cell(addr, i)) \in Int BY <3>2, ByteInType, BaseAssumption DEF Byte
      <3> QED BY <2>1, <3>2, <3>3, <3>4, FlatAt
    <2> QED BY <2>1
  <1>3. /\ Reference!LoadedWord(addr, width)
             = c(0) + Base * (c(1) + Base * (c(2) + Base * c(3)))
        /\ Loaded(pages, addr, width)
             = b(0) + b(1) * Base + b(2) * HalfMod + b(3) * (HalfMod * Base)
    BY DEF Reference!LoadedWord, Loaded
  <1> HIDE DEF b, c
  <1>4. \A i \in {0, 1, 2, 3} : c(i) = b(i) /\ b(i) \in Int BY <1>2
  <1>5. PICK b0 \in Int, b1 \in Int, b2 \in Int, b3 \in Int :
          b0 = b(0) /\ b1 = b(1) /\ b2 = b(2) /\ b3 = b(3)
    BY <1>4
  <1>6. b0 + b1 * Base + b2 * HalfMod + b3 * (HalfMod * Base)
          = b0 + Base * (b1 + Base * (b2 + Base * b3))
    BY BaseAssumption DEF HalfMod
  <1> QED BY <1>3, <1>4, <1>5, <1>6

(* A store that succeeds leaves the same bytes. *)
LEMMA SameStore ==
  ASSUME IsMemory(pages), NEW addr \in Word, NEW value, NEW width \in {1, 2, 4},
         Access(pages, addr, width, pc) = Ok
  PROVE  Reference!Stored(addr, value, width) = Flat(Written(pages, addr, value, width))
  BY FlatWritten, SameWords DEF Reference!Stored

(***************************************************************************)
(* What the reference sees of the primary's state.                         *)
(***************************************************************************)
(* The fields of the word at pc. *)
WordAtPc == FieldsOf(Fetched)

(* The stored registers are what regs() shows, x0 being zero.              *)
LEMMA ShownIsStored == ASSUME TypeOK, ZeroRegister PROVE Shown = regs
  BY DEF TypeOK, ZeroRegister, Shown, Reg

(* Reading a register. *)
LEMMA SameRead == ASSUME TypeOK, ZeroRegister, NEW i PROVE Reference!Get(i) = R(i)
  BY ShownIsStored DEF Reference!Get, R

(* Fetching: the same refusals, and the same word. *)
LEMMA SameFetch ==
  ASSUME TypeOK
  PROVE  /\ Reference!FetchAnswer = Reason(FetchOutcome)
         /\ FetchOutcome = Ok =>
              /\ Reference!FetchAnswer = "Ok" /\ Reference!W = WordAtPc
              /\ WordAtPc \in Fields /\ Current = Decode(WordAtPc)
  <1>1. pc \in Word /\ IsMemory(pages) /\ 4 \in {1, 2, 4} BY DEF TypeOK
  <1>2. Reference!Check(pc, 4) = Reason(Access(pages, pc, 4, pc)) BY <1>1, SameCheck
  <1>3. Reason(Misaligned(pc, pc, 4)) = "Misaligned" BY DEF Reason, Misaligned
  <1>4. Reason(Ok) = "Ok" BY DEF Reason, Ok
  <1>5. Reference!FetchAnswer = Reason(FetchOutcome)
    BY <1>2, <1>3 DEF Reference!FetchAnswer, FetchOutcome
  <1>6. ASSUME FetchOutcome = Ok
        PROVE  Reference!W = WordAtPc /\ WordAtPc \in Fields /\ Current = Decode(WordAtPc)
    <2>1. Access(pages, pc, 4, pc) = Ok BY <1>6, TrapNotOk, <1>1 DEF FetchOutcome
    <2>2. Reference!W = WordAtPc
      BY <1>1, <2>1, SameLoad DEF Reference!W, WordAtPc, Fetched
    <2>3. Fetched \in Word BY <1>6, FetchFacts
    <2> QED BY <2>2, <2>3, EncodingAssumption DEF WordAtPc, Current
  <1> QED BY <1>4, <1>5, <1>6

(* Falling through. *)
LEMMA SameStep4 == Reference!Step4 = Next4
  BY SameWords DEF Reference!Step4, Next4

(* An address or a target: the reference adds to the signed reading.       *)
LEMMA SameSum ==
  ASSUME NEW a \in Word, NEW n \in Int
  PROVE  Reference!Wrap(Reference!Signed(a) + n) = Wrap(a + n)
  BY SameWords, WrapSignedSum

(* Clearing the low bit, by subtraction and by halving.                    *)
LEMMA SameJalrTarget ==
  ASSUME NEW n \in Word PROVE n - (n % 2) = 2 * (n \div 2)
  <1>1. n \in Int BY WordInt
  <1>2. n = 2 * (n \div 2) + (n % 2) /\ n \div 2 \in Int /\ n % 2 \in Int BY <1>1, DivMod
  <1> QED BY <1>1, <1>2

(***************************************************************************)
(* How a step ends, in both.                                               *)
(***************************************************************************)
(* A retired instruction. *)
LEMMA Succeeds == ASSUME NEW next, Retire(next) PROVE Reference!Succeed(next)
  <1>1. Reason(Ok) = "Ok" BY DEF Reason, Ok
  <1> QED BY <1>1 DEF Retire, Reference!Succeed

(* A trap that left registers and bytes alone. *)
LEMMA Fails ==
  ASSUME NEW trap, Raise(trap), UNCHANGED regs, Flat(pages') = Flat(pages)
  PROVE  Reference!Fail(Reason(trap))
  BY DEF Raise, Reference!Fail, Shown

(* A trap that left the memory alone altogether. *)
LEMMA FailsOnly ==
  ASSUME NEW trap, RaiseOnly(trap) PROVE Reference!Fail(Reason(trap))
  BY Fails DEF RaiseOnly

(* Writing a register. *)
LEMMA SameSet ==
  ASSUME Inv, Inv', NEW i, NEW v, SetReg(i, v) PROVE Reference!Set(i, v)
  <1>1. Shown = regs BY ShownIsStored DEF Inv
  <1>2. Shown' = regs' BY DEF Inv, TypeOK, ZeroRegister, Shown, Reg
  <1> QED BY <1>1, <1>2 DEF SetReg, Reference!Set

(* An instruction that only writes rd. *)
LEMMA Gives ==
  ASSUME Inv, Inv', FetchOutcome = Ok, NEW v, Compute(WordAtPc.rd, v)
  PROVE  Reference!Give(v)
  <1>1. Reference!Set(WordAtPc.rd, v) BY SameSet DEF Compute
  <1>2. Reference!Succeed(Next4) BY Succeeds DEF Compute
  <1>3. Flat(pages') = Flat(pages) BY DEF Compute
  <1>4. Reference!W = WordAtPc BY SameFetch DEF Inv
  <1> QED BY <1>1, <1>2, <1>3, <1>4, SameStep4 DEF Reference!Give

(* A jump. *)
LEMMA Goes ==
  ASSUME Inv, Inv', FetchOutcome = Ok, NEW target, JumpTo(WordAtPc.rd, target)
  PROVE  Reference!Goto(target)
  <1>1. CASE target % 4 # 0
    <2>1. Reference!Fail(Reason(Misaligned(pc, target, 4)))
      BY <1>1, FailsOnly DEF JumpTo
    <2>2. Reason(Misaligned(pc, target, 4)) = "Misaligned" BY DEF Reason, Misaligned
    <2> QED BY <1>1, <2>1, <2>2 DEF Reference!Goto
  <1>2. CASE target % 4 = 0
    <2>1. SetReg(WordAtPc.rd, Next4) /\ Retire(target) /\ pages' = pages
      BY <1>2 DEF JumpTo
    <2>2. Reference!Set(WordAtPc.rd, Next4) /\ Reference!Succeed(target)
      BY <2>1, SameSet, Succeeds
    <2>3. Flat(pages') = Flat(pages) /\ Reference!W = WordAtPc
      BY <2>1, SameFetch DEF Inv
    <2> QED BY <1>2, <2>2, <2>3, SameStep4 DEF Reference!Goto
  <1>3. target % 4 = 0 \/ target % 4 # 0 OBVIOUS
  <1> QED BY <1>1, <1>2, <1>3

(***************************************************************************)
(* One lemma per group of arms of the reference's table.                   *)
(***************************************************************************)
(* A word was fetched, and the primary's step on it keeps the invariant.   *)
Fetching == Inv /\ Inv' /\ FetchOutcome = Ok

(* step answers the word that was fetched. *)
Answering == IllegalWord \/ Execute(Current)

(* The reference's arm is chosen by the opcode of the same word.           *)
LEMMA SameArm ==
  ASSUME Fetching, NEW op PROVE Reference!Arm(op) <=> WordAtPc.op = op
  BY SameFetch DEF Fetching, Inv, Reference!Arm

(* What both sides know of a fetched word. *)
LEMMA WordFacts ==
  ASSUME Fetching
  PROVE  /\ WordAtPc \in Fields /\ Reference!W = WordAtPc /\ Current = Decode(WordAtPc)
         /\ WordAtPc.rs1 \in Reg /\ WordAtPc.rs2 \in Reg /\ WordAtPc.rd \in Reg
         /\ WordAtPc.f3 \in 0 .. 7 /\ WordAtPc.f7 \in 0 .. 127
         /\ R(WordAtPc.rs1) \in Word /\ R(WordAtPc.rs2) \in Word /\ pc \in Word
         /\ Reference!Va = R(WordAtPc.rs1) /\ Reference!Vb = R(WordAtPc.rs2)
  <1>1. WordAtPc \in Fields /\ Reference!W = WordAtPc /\ Current = Decode(WordAtPc)
    BY SameFetch DEF Fetching, Inv
  <1>2. /\ WordAtPc.rs1 \in Reg /\ WordAtPc.rs2 \in Reg /\ WordAtPc.rd \in Reg
        /\ WordAtPc.f3 \in 0 .. 7 /\ WordAtPc.f7 \in 0 .. 127
    BY <1>1 DEF Fields
  <1>3. TypeOK /\ ZeroRegister /\ pc \in Word BY DEF Fetching, Inv, TypeOK
  <1> QED BY <1>1, <1>2, <1>3, ReadType, SameRead DEF Reference!Va, Reference!Vb

(* Only the action of the decoded kind can have run. *)
LEMMA KindActs ==
  ASSUME Answering
  PROVE  /\ Current.kind = "Lui" => Lui(Current)
         /\ Current.kind = "Auipc" => Auipc(Current)
         /\ Current.kind = "Jal" => Jal(Current)
         /\ Current.kind = "Jalr" => Jalr(Current)
         /\ Current.kind = "Branch" => Branch(Current)
         /\ Current.kind = "Load" => Load(Current)
         /\ Current.kind = "Store" => Store(Current)
         /\ Current.kind = "OpImm" => OpImm(Current)
         /\ Current.kind = "Op" => Op(Current)
         /\ Current.kind = "Mul" => Mul(Current)
         /\ Current.kind = "Fence" => Fence(Current)
         /\ Current.kind = "Ecall" => Ecall(Current)
         /\ Current.kind = "Ebreak" => Ebreak(Current)
         /\ Current.kind = "Illegal" => IllegalWord
  <1>1. CASE IllegalWord
    <2>1. Current.kind = "Illegal" BY <1>1 DEF IllegalWord, Illegal
    <2> QED BY <1>1, <2>1
  <1>2. CASE Execute(Current)
    <2>1. Lui(Current) => Current.kind = "Lui" BY DEF Lui
    <2>2. Auipc(Current) => Current.kind = "Auipc" BY DEF Auipc
    <2>3. Jal(Current) => Current.kind = "Jal" BY DEF Jal
    <2>4. Jalr(Current) => Current.kind = "Jalr" BY DEF Jalr
    <2>5. Branch(Current) => Current.kind = "Branch" BY DEF Branch
    <2>6. Load(Current) => Current.kind = "Load" BY DEF Load
    <2>7. Store(Current) => Current.kind = "Store" BY DEF Store
    <2>8. OpImm(Current) => Current.kind = "OpImm" BY DEF OpImm
    <2>9. Op(Current) => Current.kind = "Op" BY DEF Op
    <2>10. Mul(Current) => Current.kind = "Mul" BY DEF Mul
    <2>11. Fence(Current) => Current.kind = "Fence" BY DEF Fence
    <2>12. Ecall(Current) => Current.kind = "Ecall" BY DEF Ecall
    <2>13. Ebreak(Current) => Current.kind = "Ebreak" BY DEF Ebreak
    <2> QED BY <1>2, <2>1, <2>2, <2>3, <2>4, <2>5, <2>6, <2>7, <2>8, <2>9, <2>10, <2>11,
               <2>12, <2>13 DEF Execute
  <1> QED BY <1>1, <1>2 DEF Answering

(* A word that does not decode. *)
LEMMA IllegalFails ==
  ASSUME Answering, Current.kind = "Illegal" PROVE Reference!Fail("Illegal")
  <1>1. RaiseOnly(IllegalInstruction(Fetched)) BY KindActs DEF IllegalWord
  <1>2. Reason(IllegalInstruction(Fetched)) = "Illegal" BY DEF Reason, IllegalInstruction
  <1> QED BY <1>1, <1>2, FailsOnly

(* lui and auipc (hartbeat-ref lib.rs 139-147). *)
LEMMA UpperArms ==
  ASSUME Fetching, Answering, WordAtPc.op \in {OpLui, OpAuipc}
  PROVE  Reference!LuiArm \/ Reference!AuipcArm
  <1> DEFINE imm == RefImmU(WordAtPc)
  <1>1. ImmU(WordAtPc) = imm /\ Reference!RefImmU(WordAtPc) = imm
    BY WordFacts, SameImmediates, SameTables
  <1>2. CASE WordAtPc.op = OpLui
    <2>1. Current = [kind |-> "Lui", rd |-> WordAtPc.rd, imm |-> imm]
      BY <1>1, <1>2, WordFacts, DecodeUpper
    <2>2. Compute(WordAtPc.rd, Wrap(imm * UpperUnit)) BY <2>1, KindActs DEF Lui
    <2>3. Reference!Give(Reference!Wrap(Reference!RefImmU(WordAtPc) * UpperUnit))
      BY <1>1, <2>2, Gives, SameWords DEF Fetching
    <2>4. Reference!Arm(Reference!OpLui) BY <1>2, SameArm, SameOpcodes
    <2> QED BY <2>3, <2>4, WordFacts DEF Reference!LuiArm
  <1>3. CASE WordAtPc.op = OpAuipc
    <2>1. Current = [kind |-> "Auipc", rd |-> WordAtPc.rd, imm |-> imm]
      BY <1>1, <1>3, WordFacts, DecodeUpper
    <2>2. Compute(WordAtPc.rd, Wrap(pc + imm * UpperUnit)) BY <2>1, KindActs DEF Auipc
    <2>3. Reference!Give(Reference!Wrap(pc + Reference!RefImmU(WordAtPc) * UpperUnit))
      BY <1>1, <2>2, Gives, SameWords DEF Fetching
    <2>4. Reference!Arm(Reference!OpAuipc) BY <1>3, SameArm, SameOpcodes
    <2> QED BY <2>3, <2>4, WordFacts DEF Reference!AuipcArm
  <1> QED BY <1>2, <1>3

(* jal (hartbeat-ref lib.rs 148-157). *)
LEMMA JalArmTaken ==
  ASSUME Fetching, Answering, WordAtPc.op = OpJal PROVE Reference!JalArm
  <1> DEFINE imm == RefImmJ(WordAtPc)
  <1>1. ImmJ(WordAtPc) = imm /\ Reference!RefImmJ(WordAtPc) = imm /\ imm \in Int
    BY WordFacts, SameImmediates, SameTables, ImmediateType
  <1>2. Current = [kind |-> "Jal", rd |-> WordAtPc.rd, imm |-> imm]
    BY <1>1, WordFacts, DecodeJal
  <1>3. JumpTo(WordAtPc.rd, Wrap(pc + imm)) BY <1>2, KindActs DEF Jal, PcRelative
  <1>4. Reference!Goto(Wrap(pc + imm)) BY <1>3, Goes DEF Fetching
  <1>5. Reference!Wrap(Reference!Signed(pc) + Reference!RefImmJ(WordAtPc)) = Wrap(pc + imm)
    BY <1>1, WordFacts, SameSum
  <1>6. Reference!Arm(Reference!OpJal) BY SameArm, SameOpcodes
  <1> QED BY <1>4, <1>5, <1>6, WordFacts DEF Reference!JalArm

(* jalr (hartbeat-ref lib.rs 158-170). *)
LEMMA JalrArmTaken ==
  ASSUME Fetching, Answering, WordAtPc.op = OpJalr PROVE Reference!JalrArm
  <1> DEFINE imm == RefImmI(WordAtPc)
             sum == Wrap(R(WordAtPc.rs1) + imm)
  <1>1. ImmI(WordAtPc) = imm /\ Reference!RefImmI(WordAtPc) = imm /\ imm \in Int
    BY WordFacts, SameImmediates, SameTables, ImmediateType
  <1>2. Reference!Arm(Reference!OpJalr) BY SameArm, SameOpcodes
  <1>3. CASE WordAtPc.f3 # 0
    <2>1. Current.kind = "Illegal" BY <1>3, WordFacts, DecodeJalr DEF Illegal
    <2> QED BY <1>2, <1>3, <2>1, IllegalFails, WordFacts DEF Reference!JalrArm
  <1>4. CASE WordAtPc.f3 = 0
    <2>1. Current = [kind |-> "Jalr", rd |-> WordAtPc.rd, rs1 |-> WordAtPc.rs1, imm |-> imm]
      BY <1>1, <1>4, WordFacts, DecodeJalr
    <2>2. JumpTo(WordAtPc.rd, sum - (sum % 2))
      BY <2>1, KindActs DEF Jalr, JalrTarget, EffectiveAddr
    <2>3. sum \in Word
      <3>1. R(WordAtPc.rs1) + imm \in Int BY <1>1, WordFacts, WordInt
      <3> QED BY <3>1, WrapType
    <2>4. Reference!Goto(2 * (sum \div 2)) BY <2>2, <2>3, SameJalrTarget, Goes DEF Fetching
    <2>5. Reference!Wrap(Reference!Signed(Reference!Va) + Reference!RefImmI(WordAtPc)) = sum
      BY <1>1, WordFacts, SameSum
    <2> QED BY <1>2, <1>4, <2>4, <2>5, WordFacts DEF Reference!JalrArm
  <1> QED BY <1>3, <1>4

(* The six branches (hartbeat-ref lib.rs 171-200). *)
LEMMA BranchArmTaken ==
  ASSUME Fetching, Answering, WordAtPc.op = OpBranch PROVE Reference!BranchArm
  <1> DEFINE imm == RefImmB(WordAtPc)
             f3 == WordAtPc.f3
             target == Wrap(pc + imm)
             a == R(WordAtPc.rs1)
             b == R(WordAtPc.rs2)
  <1>1. ImmB(WordAtPc) = imm /\ Reference!RefImmB(WordAtPc) = imm /\ imm \in Int
    BY WordFacts, SameImmediates, SameTables, ImmediateType
  <1>2. Reference!Arm(Reference!OpBranch) BY SameArm, SameOpcodes
  <1>3. Reference!LegalBranch(f3) = LegalBranch(f3) BY SameTables
  <1>4. CASE BranchOpOf(f3) = "None"
    <2>1. Current.kind = "Illegal" BY <1>4, WordFacts, DecodeBranch DEF Illegal
    <2>2. ~LegalBranch(f3) BY <1>4, WordFacts, SameOps
    <2> QED BY <1>2, <1>3, <2>1, <2>2, IllegalFails, WordFacts DEF Reference!BranchArm
  <1>5. CASE BranchOpOf(f3) # "None"
    <2>1. Current = [kind |-> "Branch", op |-> BranchOpOf(f3), rs1 |-> WordAtPc.rs1,
                     rs2 |-> WordAtPc.rs2, imm |-> imm]
      BY <1>1, <1>5, WordFacts, DecodeBranch
    <2>2. LegalBranch(f3) BY <1>5, WordFacts, SameOps
    <2>3. Taken(Current) <=> Reference!Take(f3, a, b)
      <3>1. Taken(Current) <=> BranchTaken(BranchOpOf(f3), a, b) BY <2>1 DEF Taken
      <3>2. BranchTaken(BranchOpOf(f3), a, b) <=> Take(f3, a, b)
        BY <1>5, WordFacts, SameBranch
      <3> QED BY <3>1, <3>2, SameArithmetic
    <2>4. PcRelative(Current) = target BY <2>1 DEF PcRelative
    <2>5. Reference!Wrap(Reference!Signed(pc) + Reference!RefImmB(WordAtPc)) = target
      BY <1>1, WordFacts, SameSum
    <2>6. Branch(Current) BY <2>1, KindActs
    <2>7. \/ /\ Taken(Current) /\ target % 4 # 0
             /\ RaiseOnly(Misaligned(pc, target, 4))
          \/ /\ Taken(Current) /\ target % 4 = 0
             /\ Retire(target) /\ regs' = regs /\ pages' = pages
          \/ /\ ~Taken(Current) /\ Retire(Next4) /\ regs' = regs /\ pages' = pages
      BY <2>4, <2>6 DEF Branch
    <2>8. regs' = regs /\ pages' = pages => UNCHANGED <<Shown, Flat(pages)>> BY DEF Shown
    <2>9. CASE ~Taken(Current)
      <3>1. Reference!Succeed(Reference!Step4) /\ UNCHANGED <<Shown, Flat(pages)>>
        BY <2>7, <2>8, <2>9, Succeeds, SameStep4
      <3> QED BY <1>2, <1>3, <2>2, <2>3, <2>9, <3>1, WordFacts DEF Reference!BranchArm
    <2>10. CASE Taken(Current)
      <3>1. CASE target % 4 # 0
        <4>1. Reference!Fail(Reason(Misaligned(pc, target, 4))) BY <2>7, <2>10, <3>1, FailsOnly
        <4>2. Reference!Fail("Misaligned") BY <4>1 DEF Reason, Misaligned
        <4> QED BY <1>2, <1>3, <2>2, <2>3, <2>5, <2>10, <3>1, <4>2, WordFacts
                DEF Reference!BranchArm
      <3>2. CASE target % 4 = 0
        <4>1. Reference!Succeed(target) /\ UNCHANGED <<Shown, Flat(pages)>>
          BY <2>7, <2>8, <2>10, <3>2, Succeeds
        <4> QED BY <1>2, <1>3, <2>2, <2>3, <2>5, <2>10, <3>2, <4>1, WordFacts
                DEF Reference!BranchArm
      <3> QED BY <3>1, <3>2
    <2> QED BY <2>9, <2>10
  <1> QED BY <1>4, <1>5

(* The widths of loads and stores, by operation and by funct3.             *)
LEMMA SameWidth ==
  ASSUME Fetching
  PROVE  /\ LegalLoad(WordAtPc.f3) => Width(LoadOpOf(WordAtPc.f3)) = Reference!RefWidth
         /\ LegalStore(WordAtPc.f3) => Width(StoreOpOf(WordAtPc.f3)) = Reference!RefWidth
  BY WordFacts DEF LegalLoad, LegalStore, Width, LoadOpOf, StoreOpOf, Reference!RefWidth

(* The five loads (hartbeat-ref lib.rs 201-219). *)
LEMMA LoadArmTaken ==
  ASSUME Fetching, Answering, WordAtPc.op = OpLoad PROVE Reference!LoadArm
  <1> DEFINE imm == RefImmI(WordAtPc)
             f3 == WordAtPc.f3
             op == LoadOpOf(f3)
             addr == Wrap(R(WordAtPc.rs1) + imm)
             width == Width(op)
             raw == Loaded(pages, addr, width)
  <1>1. ImmI(WordAtPc) = imm /\ Reference!RefImmI(WordAtPc) = imm /\ imm \in Int
    BY WordFacts, SameImmediates, SameTables, ImmediateType
  <1>2. Reference!Arm(Reference!OpLoad) BY SameArm, SameOpcodes
  <1>3. Reference!LegalLoad(f3) = LegalLoad(f3) BY SameTables
  <1>4. CASE op = "None"
    <2>1. Current.kind = "Illegal" BY <1>4, WordFacts, DecodeLoad DEF Illegal
    <2>2. ~LegalLoad(f3) BY <1>4, WordFacts, SameOps
    <2> QED BY <1>2, <1>3, <2>1, <2>2, IllegalFails, WordFacts DEF Reference!LoadArm
  <1>5. CASE op # "None"
    <2>1. Current = [kind |-> "Load", op |-> op, rd |-> WordAtPc.rd, rs1 |-> WordAtPc.rs1,
                     imm |-> imm]
      BY <1>1, <1>5, WordFacts, DecodeLoad
    <2>2. LegalLoad(f3) /\ Reference!RefWidth = width BY <1>5, WordFacts, SameOps, SameWidth
    <2>3. addr \in Word /\ width \in {1, 2, 4} /\ IsMemory(pages)
      <3>1. R(WordAtPc.rs1) + imm \in Int BY <1>1, WordFacts, WordInt
      <3> QED BY <3>1, WrapType, WidthType DEF Fetching, Inv, TypeOK
    <2>4. Reference!Wrap(Reference!Signed(Reference!Va) + Reference!RefImmI(WordAtPc)) = addr
      BY <1>1, WordFacts, SameSum
    <2>5. EffectiveAddr(Current) = addr /\ DataOutcome(Current) = Access(pages, addr, width, pc)
      BY <2>1 DEF EffectiveAddr, DataOutcome
    <2>6. Load(Current) BY <2>1, KindActs
    <2> HIDE DEF op, addr, width, raw, imm, f3
    <2>7. Reference!Check(addr, width) = Reason(Access(pages, addr, width, pc))
      BY <2>3, SameCheck
    <2>8. CASE Access(pages, addr, width, pc) # Ok
      <3>1. RaiseOnly(Access(pages, addr, width, pc)) BY <2>5, <2>6, <2>8 DEF Load
      <3>2. Reference!Fail(Reference!Check(addr, width)) BY <2>7, <3>1, FailsOnly
      <3>3. Reference!Check(addr, width) # "Ok"
        BY <2>3, <2>7, <2>8, AccessOkKind, AccessKind DEF Reason
      <3> QED BY <1>2, <1>3, <2>2, <2>4, <3>2, <3>3, WordFacts DEF Reference!LoadArm, f3
    <2>9. CASE Access(pages, addr, width, pc) = Ok
      <3>1. Compute(WordAtPc.rd, Extended(op, raw))
        BY <2>1, <2>5, <2>6, <2>9 DEF Load, raw, width
      <3>2. Reference!Give(Extended(op, raw)) BY <3>1, Gives DEF Fetching
      <3>3. Reference!LoadedWord(addr, width) = raw BY <2>3, <2>9, SameLoad DEF raw
      <3>4. Reference!Check(addr, width) = "Ok" BY <2>7, <2>9 DEF Reason, Ok
      <3>5. Extended(op, raw)
              = CASE f3 = 0 -> Reference!Wrap(Reference!SignExtend(raw, Base))
                  [] f3 = 1 -> Reference!Wrap(Reference!SignExtend(raw, Reference!HalfMod))
                  [] OTHER -> raw
        <4>1. f3 \in {0, 1, 2, 4, 5} BY <2>2 DEF LegalLoad
        <4> QED BY <4>1, SameWords DEF Extended, op, LoadOpOf
      <3> QED BY <1>2, <1>3, <2>2, <2>4, <3>2, <3>3, <3>4, <3>5, WordFacts
              DEF Reference!LoadArm, f3
    <2> QED BY <2>8, <2>9
  <1> QED BY <1>4, <1>5

(* The three stores (hartbeat-ref lib.rs 220-234): one that faults wrote   *)
(* nothing in either, where a page is whole words long.                    *)
LEMMA StoreArmTaken ==
  ASSUME PageSize % 4 = 0, Fetching, Answering, WordAtPc.op = OpStore
  PROVE  Reference!StoreArm
  <1> DEFINE imm == RefImmS(WordAtPc)
             f3 == WordAtPc.f3
             op == StoreOpOf(f3)
             addr == Wrap(R(WordAtPc.rs1) + imm)
             width == Width(op)
             value == R(WordAtPc.rs2)
  <1>1. ImmS(WordAtPc) = imm /\ Reference!RefImmS(WordAtPc) = imm /\ imm \in Int
    BY WordFacts, SameImmediates, SameTables, ImmediateType
  <1>2. Reference!Arm(Reference!OpStore) BY SameArm, SameOpcodes
  <1>3. Reference!LegalStore(f3) = LegalStore(f3) BY SameTables
  <1>4. CASE op = "None"
    <2>1. Current.kind = "Illegal" BY <1>4, WordFacts, DecodeStore DEF Illegal
    <2>2. ~LegalStore(f3) BY <1>4, WordFacts, SameOps
    <2> QED BY <1>2, <1>3, <2>1, <2>2, IllegalFails, WordFacts DEF Reference!StoreArm
  <1>5. CASE op # "None"
    <2>1. Current = [kind |-> "Store", op |-> op, rs1 |-> WordAtPc.rs1,
                     rs2 |-> WordAtPc.rs2, imm |-> imm]
      BY <1>1, <1>5, WordFacts, DecodeStore
    <2>2. LegalStore(f3) /\ Reference!RefWidth = width BY <1>5, WordFacts, SameOps, SameWidth
    <2>3. addr \in Word /\ width \in {1, 2, 4} /\ IsMemory(pages)
      <3>1. R(WordAtPc.rs1) + imm \in Int BY <1>1, WordFacts, WordInt
      <3> QED BY <3>1, WrapType, WidthType DEF Fetching, Inv, TypeOK
    <2>4. Reference!Wrap(Reference!Signed(Reference!Va) + Reference!RefImmS(WordAtPc)) = addr
      BY <1>1, WordFacts, SameSum
    <2>5. /\ EffectiveAddr(Current) = addr /\ Width(Current.op) = width
          /\ DataOutcome(Current) = Access(pages, addr, width, pc)
          /\ R(Current.rs2) = value
      BY <2>1 DEF EffectiveAddr, DataOutcome
    <2>6. Store(Current) BY <2>1, KindActs
    <2> HIDE DEF op, addr, width, value, imm, f3
    <2>7. pages' = Written(pages, addr, value, width) /\ regs' = regs BY <2>5, <2>6 DEF Store
    <2>8. Reference!Check(addr, width) = Reason(Access(pages, addr, width, pc))
      BY <2>3, SameCheck
    <2>9. CASE Access(pages, addr, width, pc) # Ok
      <3>1. pages' = pages BY <2>3, <2>7, <2>9, FaultingWrite
      <3>2. Raise(Access(pages, addr, width, pc)) BY <2>5, <2>6, <2>9 DEF Store
      <3>3. Reference!Fail(Reference!Check(addr, width)) BY <2>7, <2>8, <3>1, <3>2, Fails
      <3>4. Reference!Check(addr, width) # "Ok"
        BY <2>3, <2>8, <2>9, AccessOkKind, AccessKind DEF Reason
      <3> QED BY <1>2, <1>3, <2>2, <2>4, <3>3, <3>4, WordFacts DEF Reference!StoreArm, f3
    <2>10. CASE Access(pages, addr, width, pc) = Ok
      <3>1. Reference!Succeed(Reference!Step4)
        BY <2>5, <2>6, <2>10, Succeeds, SameStep4 DEF Store
      <3>2. Flat(pages') = Reference!Stored(addr, value, width)
        BY <2>3, <2>7, <2>10, SameStore
      <3>3. Reference!Check(addr, width) = "Ok" BY <2>8, <2>10 DEF Reason, Ok
      <3>4. UNCHANGED Shown BY <2>7 DEF Shown
      <3>5. Reference!Vb = value BY WordFacts DEF value
      <3> QED BY <1>2, <1>3, <2>2, <2>4, <3>1, <3>2, <3>3, <3>4, <3>5, WordFacts
              DEF Reference!StoreArm, f3
    <2> QED BY <2>9, <2>10
  <1> QED BY <1>4, <1>5

(* The nine immediate operations (hartbeat-ref lib.rs 235-262).            *)
LEMMA ImmArmTaken ==
  ASSUME Fetching, Answering, WordAtPc.op = OpImmed PROVE Reference!ImmArm
  <1> DEFINE f3 == WordAtPc.f3
             f7 == WordAtPc.f7
             op == ImmOpOf(f3, f7)
             a == R(WordAtPc.rs1)
             imm == RefImmI(WordAtPc)
             sh == WordAtPc.rs2 % XLen
  <1>1. ImmI(WordAtPc) = imm /\ Reference!RefImmI(WordAtPc) = imm /\ imm \in Int
    BY WordFacts, SameImmediates, SameTables, ImmediateType
  <1>2. Reference!Arm(Reference!OpImmed) BY SameArm, SameOpcodes
  <1>3. Reference!LegalImm(f3, f7) = LegalImm(f3, f7) BY SameTables
  <1>4. CASE op = "None"
    <2>1. Current.kind = "Illegal" BY <1>4, WordFacts, DecodeOpImm DEF Illegal
    <2>2. ~LegalImm(f3, f7) BY <1>4, WordFacts, SameOps
    <2> QED BY <1>2, <1>3, <2>1, <2>2, IllegalFails, WordFacts DEF Reference!ImmArm
  <1>5. CASE op # "None"
    <2>1. Current = [kind |-> "OpImm", op |-> op, rd |-> WordAtPc.rd, rs1 |-> WordAtPc.rs1,
                     imm |-> ImmOf(op, WordAtPc)]
      BY <1>5, WordFacts, DecodeOpImm
    <2>2. LegalImm(f3, f7) BY <1>5, WordFacts, SameOps
    <2>3. Compute(WordAtPc.rd, Alu(op, a, Wrap(ImmOf(op, WordAtPc))))
      BY <2>1, KindActs DEF OpImm
    <2>4. Wrap(imm) \in Word BY <1>1, WrapType
    <2>5. Alu(op, a, Wrap(ImmOf(op, WordAtPc))) = ImmTable(f3, f7, a, Wrap(imm), sh)
      <3>1. CASE op \in {"Sll", "Srl", "Sra"}
        <4>1. ShiftAmount(Wrap(WordAtPc.rs2)) = sh BY WordFacts, ShiftOfImmediate
        <4>2. ImmOf(op, WordAtPc) = WordAtPc.rs2 BY <3>1 DEF ImmOf
        <4>3. Alu(op, a, Wrap(WordAtPc.rs2)) = ImmTable(f3, f7, a, Wrap(imm), sh)
          <5>1. (f3 = 1 /\ f7 = 0) \/ (f3 = 5 /\ f7 \in {0, 32}) BY <3>1 DEF ImmOpOf
          <5>2. CASE f3 = 1 /\ f7 = 0 BY <4>1, <5>2 DEF ImmOpOf, Alu, ImmTable, Shl
          <5>3. CASE f3 = 5 /\ f7 = 0 BY <4>1, <5>3 DEF ImmOpOf, Alu, ImmTable, Shr
          <5>4. CASE f3 = 5 /\ f7 = 32 BY <4>1, <5>4 DEF ImmOpOf, Alu, ImmTable, Sar
          <5> QED BY <5>1, <5>2, <5>3, <5>4
        <4> QED BY <4>2, <4>3
      <3>2. CASE op \notin {"Sll", "Srl", "Sra"}
        <4>1. ImmOf(op, WordAtPc) = imm BY <1>1, <3>2 DEF ImmOf
        <4>2. Alu(op, a, Wrap(imm)) = ImmTable(f3, f7, a, Wrap(imm), sh)
          <5>1. f3 \in 0 .. 7 /\ f7 \in 0 .. 127 /\ a \in Word BY WordFacts
          <5>2. op \in {"Sll", "Srl", "Sra"} => sh = ShiftAmount(Wrap(imm)) BY <3>2
          <5> HIDE DEF f3, f7, a, imm, sh
          <5> QED BY <1>5, <2>4, <5>1, <5>2, SameImm DEF op
        <4> QED BY <4>1, <4>2
      <3> QED BY <3>1, <3>2
    <2>6. Reference!Give(ImmTable(f3, f7, a, Wrap(imm), sh)) BY <2>3, <2>5, Gives DEF Fetching
    <2>7. Reference!ImmTable(f3, f7, a, Wrap(imm), sh) = ImmTable(f3, f7, a, Wrap(imm), sh)
      BY SameArithmetic
    <2>8. Reference!Wrap(Reference!RefImmI(WordAtPc)) = Wrap(imm) BY <1>1, SameWords
    <2> QED BY <1>2, <1>3, <2>2, <2>6, <2>7, <2>8, WordFacts DEF Reference!ImmArm
  <1> QED BY <1>4, <1>5

(* The register operations, those of M included (lib.rs 263-289).          *)
LEMMA RegArmTaken ==
  ASSUME Fetching, Answering, WordAtPc.op = OpReg PROVE Reference!RegArm
  <1> DEFINE f3 == WordAtPc.f3
             f7 == WordAtPc.f7
             a == R(WordAtPc.rs1)
             b == R(WordAtPc.rs2)
  <1>1. Reference!Arm(Reference!OpReg) BY SameArm, SameOpcodes
  <1>2. /\ Reference!LegalReg(f3, f7) = LegalReg(f3, f7)
        /\ Reference!RegTable(f3, f7, a, b) = RegTable(f3, f7, a, b)
    BY SameTables, SameArithmetic
  <1>3. ASSUME LegalReg(f3, f7), Compute(WordAtPc.rd, RegTable(f3, f7, a, b))
        PROVE  Reference!RegArm
    <2>1. Reference!Give(RegTable(f3, f7, a, b)) BY <1>3, Gives DEF Fetching
    <2> QED BY <1>1, <1>2, <1>3, <2>1, WordFacts DEF Reference!RegArm
  <1>4. CASE f7 = 1
    <2>1. Current = [kind |-> "Mul", op |-> MulOpOf(f3), rd |-> WordAtPc.rd,
                     rs1 |-> WordAtPc.rs1, rs2 |-> WordAtPc.rs2]
      BY <1>4, WordFacts, DecodeMul
    <2>2. Compute(WordAtPc.rd, MulDiv(MulOpOf(f3), a, b)) BY <2>1, KindActs DEF Mul
    <2>3. RegTable(f3, f7, a, b) = MulDivTable(f3, a, b) BY <1>4 DEF RegTable
    <2>4. MulDiv(MulOpOf(f3), a, b) = MulDivTable(f3, a, b) BY WordFacts, SameMulDiv
    <2>5. LegalReg(f3, f7) BY <1>4 DEF LegalReg
    <2> QED BY <1>3, <2>2, <2>3, <2>4, <2>5
  <1>5. CASE f7 # 1 /\ RegOpOf(f3, f7) = "None"
    <2>1. Current.kind = "Illegal" BY <1>5, WordFacts, DecodeOp DEF Illegal
    <2>2. ~LegalReg(f3, f7) BY <1>5, WordFacts, SameOps
    <2> QED BY <1>1, <1>2, <2>1, <2>2, IllegalFails, WordFacts DEF Reference!RegArm
  <1>6. CASE f7 # 1 /\ RegOpOf(f3, f7) # "None"
    <2>1. Current = [kind |-> "Op", op |-> RegOpOf(f3, f7), rd |-> WordAtPc.rd,
                     rs1 |-> WordAtPc.rs1, rs2 |-> WordAtPc.rs2]
      BY <1>6, WordFacts, DecodeOp
    <2>2. Compute(WordAtPc.rd, Alu(RegOpOf(f3, f7), a, b)) BY <2>1, KindActs DEF Op
    <2>3. Alu(RegOpOf(f3, f7), a, b) = RegTable(f3, f7, a, b) BY <1>6, WordFacts, SameReg
    <2>4. LegalReg(f3, f7) BY <1>6, WordFacts, SameOps
    <2> QED BY <1>3, <2>2, <2>3, <2>4
  <1> QED BY <1>4, <1>5, <1>6

(* fence, the two system words, and every word that has no arm.            *)
LEMMA RestArms ==
  ASSUME Fetching, Answering, WordAtPc.op \notin Grouped
  PROVE  Reference!FenceArm \/ Reference!SystemArm \/ Reference!OtherArm
  <1> DEFINE w == WordAtPc
  <1>1. /\ IsSystem(w, 0) = SystemWord(w, 0) /\ IsSystem(w, 1) = SystemWord(w, 1)
        /\ SystemWord(w, 0) => w.op = OpSystem
        /\ SystemWord(w, 1) => w.op = OpSystem
        /\ ~(SystemWord(w, 0) /\ SystemWord(w, 1))
    BY WordFacts DEF IsSystem, SystemWord, RType
  <1>2. /\ Reference!SystemWord(w, 0) = SystemWord(w, 0)
        /\ Reference!SystemWord(w, 1) = SystemWord(w, 1)
    BY SameTables
  <1>3. Current = IF w.op = OpFence /\ w.f3 = 0 THEN [kind |-> "Fence"]
                  ELSE IF IsSystem(w, 0) THEN [kind |-> "Ecall"]
                  ELSE IF IsSystem(w, 1) THEN [kind |-> "Ebreak"]
                  ELSE Illegal
    BY WordFacts, DecodeRest
  <1>4. CASE w.op = OpFence /\ w.f3 = 0
    <2>1. Fence(Current) BY <1>3, <1>4, KindActs
    <2>2. Reference!Succeed(Reference!Step4) /\ UNCHANGED <<Shown, Flat(pages)>>
      BY <2>1, Succeeds, SameStep4 DEF Fence, Shown
    <2>3. Reference!Arm(Reference!OpFence) BY <1>4, SameArm, SameOpcodes
    <2> QED BY <1>4, <2>2, <2>3, WordFacts DEF Reference!FenceArm
  <1>5. CASE w.op = OpSystem
    <2>1. Reference!Arm(Reference!OpSystem) BY <1>5, SameArm, SameOpcodes
    <2>2. w.op # OpFence BY <1>5, OpcodeValues
    <2>3. CASE SystemWord(w, 0)
      <3>1. RaiseOnly(SystemTrap("EnvironmentCall"))
        BY <1>1, <1>3, <2>2, <2>3, KindActs DEF Ecall
      <3>2. Reason(SystemTrap("EnvironmentCall")) = "Ecall" BY DEF Reason, SystemTrap
      <3>3. Reference!Fail("Ecall") BY <3>1, <3>2, FailsOnly
      <3> QED BY <1>1, <1>2, <2>1, <2>3, <3>3, WordFacts DEF Reference!SystemArm
    <2>4. CASE SystemWord(w, 1)
      <3>1. RaiseOnly(SystemTrap("Breakpoint"))
        BY <1>1, <1>3, <2>2, <2>4, KindActs DEF Ebreak
      <3>2. Reason(SystemTrap("Breakpoint")) = "Ebreak" BY DEF Reason, SystemTrap
      <3>3. Reference!Fail("Ebreak") BY <3>1, <3>2, FailsOnly
      <3> QED BY <1>1, <1>2, <2>1, <2>4, <3>3, WordFacts DEF Reference!SystemArm
    <2>5. CASE ~SystemWord(w, 0) /\ ~SystemWord(w, 1)
      <3>1. Current.kind = "Illegal" BY <1>1, <1>3, <2>2, <2>5 DEF Illegal
      <3> QED BY <1>2, <2>1, <2>5, <3>1, IllegalFails, WordFacts DEF Reference!SystemArm
    <2> QED BY <2>3, <2>4, <2>5
  <1>6. CASE w.op # OpSystem /\ ~(w.op = OpFence /\ w.f3 = 0)
    <2>1. Current.kind = "Illegal" BY <1>1, <1>3, <1>6 DEF Illegal
    <2>2. Reference!FetchAnswer = "Ok" BY SameFetch DEF Fetching, Inv
    <2>3. w.op \notin {OpLui, OpAuipc, OpJal, OpJalr, OpBranch, OpLoad, OpStore, OpImmed,
                       OpReg, OpSystem}
      BY <1>6 DEF Grouped
    <2> QED BY <1>6, <2>1, <2>2, <2>3, IllegalFails, WordFacts, SameOpcodes
            DEF Reference!OtherArm
  <1> QED BY <1>4, <1>5, <1>6

(***************************************************************************)
(* The refinement.                                                         *)
(***************************************************************************)
(* Every iteration of run's loop is a step of the reference.               *)
LEMMA IterateRefines == ASSUME PageSize % 4 = 0, Inv, Iterate PROVE Reference!RefNext
  <1>1. Inv' BY StepInv
  <1>2. CASE FetchFault
    <2>1. Reference!FetchAnswer = Reason(FetchOutcome) BY SameFetch DEF Inv
    <2>2. Reference!Fail(Reason(FetchOutcome)) BY <1>2, FailsOnly DEF FetchFault
    <2>3. Reason(FetchOutcome) # "Ok"
      <3>1. pc \in Word /\ 4 \in {1, 2, 4} /\ FetchOutcome # Ok BY <1>2 DEF Inv, TypeOK, FetchFault
      <3>2. CASE pc % 4 # 0 BY <3>2 DEF FetchOutcome, Reason, Misaligned
      <3>3. CASE pc % 4 = 0
        <4>1. FetchOutcome = Access(pages, pc, 4, pc) BY <3>3 DEF FetchOutcome
        <4> QED BY <3>1, <4>1, AccessOkKind, AccessKind DEF Reason
      <3> QED BY <3>2, <3>3
    <2> QED BY <2>1, <2>2, <2>3 DEF Reference!FetchArm, Reference!RefNext
  <1>3. CASE FetchOutcome = Ok /\ Answering
    <2>1. Fetching /\ Answering BY <1>1, <1>3 DEF Fetching
    <2>2. CASE WordAtPc.op \in {OpLui, OpAuipc}
      BY <2>1, <2>2, UpperArms DEF Reference!RefNext
    <2>3. CASE WordAtPc.op = OpJal BY <2>1, <2>3, JalArmTaken DEF Reference!RefNext
    <2>4. CASE WordAtPc.op = OpJalr BY <2>1, <2>4, JalrArmTaken DEF Reference!RefNext
    <2>5. CASE WordAtPc.op = OpBranch BY <2>1, <2>5, BranchArmTaken DEF Reference!RefNext
    <2>6. CASE WordAtPc.op = OpLoad BY <2>1, <2>6, LoadArmTaken DEF Reference!RefNext
    <2>7. CASE WordAtPc.op = OpStore BY <2>1, <2>7, StoreArmTaken DEF Reference!RefNext
    <2>8. CASE WordAtPc.op = OpImmed BY <2>1, <2>8, ImmArmTaken DEF Reference!RefNext
    <2>9. CASE WordAtPc.op = OpReg BY <2>1, <2>9, RegArmTaken DEF Reference!RefNext
    <2>10. CASE WordAtPc.op \notin Grouped BY <2>1, <2>10, RestArms DEF Reference!RefNext
    <2> QED BY <2>2, <2>3, <2>4, <2>5, <2>6, <2>7, <2>8, <2>9, <2>10 DEF Grouped
  <1> QED BY <1>2, <1>3 DEF Iterate, Step, Answering

(* Calling run and running out of budget are no steps of the reference.    *)
LEMMA CallsStutter ==
  ASSUME Call \/ Exhausted \/ UNCHANGED vars PROVE UNCHANGED Reference!refVars
  <1>1. regs' = regs /\ pc' = pc /\ pages' = pages /\ res' = res
    BY DEF Call, Exhausted, vars, hartVars
  <1> QED BY <1>1 DEF Reference!refVars, Shown

(* Both start from the same machine. *)
LEMMA InitRefines == Init => Reference!RefInit
  <1> SUFFICES ASSUME Init PROVE Reference!RefInit OBVIOUS
  <1>1. Inv BY InitInv
  <1>2. Shown = regs /\ regs \in [Reg -> Word] /\ regs[0] = 0 /\ pc \in Word
    BY <1>1, ShownIsStored DEF Inv, TypeOK, ZeroRegister
  <1>3. Flat(pages) \in [Word -> Byte \cup {Reference!NoByte}]
    <2>1. \A a \in Word : Flat(pages)[a] \in Byte \cup {-1} BY <1>1, FlatAt DEF Inv, TypeOK
    <2> QED BY <2>1 DEF Flat, Reference!NoByte
  <1>4. Reason(res) = "Ok" BY DEF Init, Reason, Ok
  <1> QED BY <1>2, <1>3, <1>4, SameWords DEF Reference!RefInit

(* The primary interpreter implements the reference (lockstep.rs 216-287): *)
(* registers, pc, memory and the reason of every trap agree after every    *)
(* step of every program, on every image made of whole words, with any     *)
(* budgets.                                                                *)
THEOREM Implements == ASSUME PageSize % 4 = 0 PROVE Spec => ImplementsReference
  <1>1. Init => Reference!RefInit BY InitRefines
  <1>2. Inv /\ [Next]_vars => [Reference!RefNext]_Reference!refVars
    BY IterateRefines, CallsStutter DEF Next
  <1>3. Spec => []Inv BY Safety
  <1> QED BY <1>1, <1>2, <1>3, PTL DEF Spec, ImplementsReference, Reference!RefSpec

(***************************************************************************)
(* The harness.                                                            *)
(***************************************************************************)
(* lockstep calls run once; before that nothing has been compared.         *)
OneCall ==
  /\ calls = 0 <=> mode = "Idle"
  /\ calls = 0 => res = Ok /\ verdict = "Running"

(* What the harness's two guarantees rest on. *)
HarnessInv == Inv /\ OneCall /\ CaughtAtOnce /\ AgreedIsEqual

(* A verdict of no difference means that there is none.                    *)
LEMMA JudgedRunning ==
  ASSUME Judged = "Running"
  PROVE  Shown' = RefShown' /\ pc' = refPc' /\ Reason(res') = refOut'
  BY DEF Judged

(* Every verdict of a step. *)
LEMMA JudgedType == Judged \in {"Trap", "Pc", "Register", "Running"}
  BY DEF Judged

(* The harness's steps are steps of the primary, or none.                  *)
LEMMA HarnessSteps ==
  ASSUME [HarnessNext]_harnessVars PROVE [Next]_vars
  BY DEF HarnessNext, Begin, StepBoth, BudgetSpent, CompareMemory, Next, harnessVars

(* The primary's invariant holds in the harness too.                       *)
LEMMA HarnessKeepsInv == ASSUME Inv, [HarnessNext]_harnessVars PROVE Inv'
  BY HarnessSteps, StepInv, CallInv, ExhaustedInv, StutterInv DEF Next

(* What the comparison reads of the two machines.                          *)
comparedVars == <<regs, pc, pages, res, refX, refPc, refMem, refOut>>

(* Each step of the harness keeps its two guarantees.                      *)
LEMMA HarnessStep ==
  ASSUME HarnessInv, [HarnessNext]_harnessVars PROVE HarnessInv'
  <1> USE DEF HarnessInv
  <1>1. Inv' BY HarnessKeepsInv
  <1>2. mode \in Modes /\ calls \in Nat BY BudgetAssumption DEF Inv, TypeOK
  <1>3. CASE Begin
    <2>1. /\ calls = 0 /\ calls' = calls + 1 /\ mode' = "Running" /\ fuel' = budget'
          /\ res' = Ok /\ verdict' = "Running"
      BY <1>3 DEF Begin, Call, OneCall
    <2>2. fuel' \in Nat BY <1>1 DEF Inv, TypeOK
    <2>3. ~Compared' BY <2>1, <2>2 DEF Compared
    <2>4. OneCall' BY <1>2, <2>1 DEF OneCall
    <2> QED BY <1>1, <2>1, <2>3, <2>4 DEF CaughtAtOnce, AgreedIsEqual
  <1>4. CASE StepBoth
    <2>1. /\ verdict' = Judged /\ verdict' # "Agreed"
      BY <1>4, JudgedType DEF StepBoth
    <2>2. CaughtAtOnce' BY <2>1, JudgedRunning DEF CaughtAtOnce
    <2>3. calls' = calls /\ calls # 0 /\ mode' # "Idle"
      <3>1. Iterate /\ mode = "Running" BY <1>4 DEF StepBoth, Iterate
      <3>2. calls' = calls /\ mode' \in {"Running", "Halted"}
        BY <3>1, StepEnds DEF callVars
      <3> QED BY <3>1, <3>2 DEF OneCall
    <2>4. OneCall' BY <2>3 DEF OneCall
    <2> QED BY <1>1, <2>1, <2>2, <2>4 DEF AgreedIsEqual
  <1>5. CASE BudgetSpent
    <2>1. /\ verdict' = verdict /\ verdict = "Running" /\ mode = "Running"
          /\ mode' = "StepLimit" /\ calls' = calls /\ fuel' = fuel /\ budget' = budget
          /\ UNCHANGED comparedVars
      BY <1>5 DEF BudgetSpent, Exhausted, refState, hartVars, callVars, comparedVars
    <2>2. OneCall' BY <2>1 DEF OneCall, comparedVars
    <2>3. CaughtAtOnce' BY <2>1 DEF CaughtAtOnce, Compared, Shown, RefShown, comparedVars
    <2> QED BY <1>1, <2>1, <2>2, <2>3 DEF AgreedIsEqual
  <1>6. CASE CompareMemory
    <2>1. /\ verdict = "Running" /\ verdict' \in {"Agreed", "Memory"}
          /\ verdict' = "Agreed" => SameData
          /\ mode' = mode /\ calls' = calls /\ fuel' = fuel /\ budget' = budget
          /\ mode # "Idle" /\ UNCHANGED comparedVars
      BY <1>6 DEF CompareMemory, vars, refState, comparedVars
    <2>2. OneCall' BY <2>1 DEF OneCall
    <2>3. AgreedIsEqual'
      <3>1. Compared' = Compared BY <2>1 DEF Compared, comparedVars
      <3>2. verdict' = "Agreed" => SameData' BY <2>1 DEF SameData, comparedVars
      <3>3. SUFFICES ASSUME verdict' = "Agreed", Compared
                     PROVE  /\ Shown' = RefShown' /\ pc' = refPc' /\ Reason(res') = refOut'
                            /\ SameData'
        BY <3>1 DEF AgreedIsEqual, SameData
      <3>4. Shown = RefShown /\ pc = refPc /\ Reason(res) = refOut
        BY <2>1, <3>3 DEF CaughtAtOnce
      <3> QED BY <2>1, <3>2, <3>3, <3>4 DEF Shown, RefShown, comparedVars
    <2> QED BY <1>1, <2>1, <2>2, <2>3 DEF CaughtAtOnce
  <1>7. CASE UNCHANGED harnessVars
    BY <1>1, <1>7 DEF harnessVars, vars, OneCall, CaughtAtOnce, AgreedIsEqual, Compared,
                      Shown, RefShown
  <1> QED BY <1>3, <1>4, <1>5, <1>6, <1>7 DEF HarnessNext

(* It starts with nothing compared. *)
LEMMA HarnessStart == Build => HarnessInv
  <1> SUFFICES ASSUME Build PROVE HarnessInv OBVIOUS
  <1>1. Inv BY InitInv DEF Build
  <1>2. mode = "Idle" /\ calls = 0 /\ res = Ok /\ verdict = "Running" BY DEF Build, Init
  <1> QED BY <1>1, <1>2 DEF HarnessInv, OneCall, CaughtAtOnce, AgreedIsEqual, Compared

(* The harness's invariant holds of every comparison.                      *)
THEOREM HarnessSafety == HarnessSpec => []HarnessInv
  BY HarnessStart, HarnessStep, PTL DEF HarnessSpec

(* A difference in a register, in pc or in the outcome is reported by the  *)
(* step that leaves it (lockstep.rs 225-266, 280-287), whatever was done   *)
(* to the reference.                                                       *)
THEOREM DifferencesAreCaught == HarnessSpec => []CaughtAtOnce
  <1>1. HarnessInv => CaughtAtOnce BY DEF HarnessInv
  <1> QED BY <1>1, HarnessSafety, PTL

(* What the harness is content with is equal (lockstep.rs 216-278).        *)
THEOREM ContentMeansEqual == HarnessSpec => []AgreedIsEqual
  <1>1. HarnessInv => AgreedIsEqual BY DEF HarnessInv
  <1> QED BY <1>1, HarnessSafety, PTL

(***************************************************************************)
(* Two reference interpreters in one state take the same step.             *)
(***************************************************************************)
(* The harness's reference is where the primary is. *)
Mirror == refX = Shown /\ refPc = pc /\ refMem = Flat(pages)

(* And it has answered alike. *)
Answered == Mirror /\ refOut = Reason(res)

(* Both are instances of the same tables. *)
LEMMA BothTables ==
  ASSUME NEW w, NEW f3, NEW f7, NEW a, NEW b, NEW sh
  PROVE  /\ Ref!Wrap(a) = Reference!Wrap(a) /\ Ref!Signed(a) = Reference!Signed(a)
         /\ Ref!SignExtend(a, b) = Reference!SignExtend(a, b)
         /\ Ref!HalfMod = Reference!HalfMod
         /\ Ref!RefImmI(w) = Reference!RefImmI(w) /\ Ref!RefImmS(w) = Reference!RefImmS(w)
         /\ Ref!RefImmB(w) = Reference!RefImmB(w) /\ Ref!RefImmU(w) = Reference!RefImmU(w)
         /\ Ref!RefImmJ(w) = Reference!RefImmJ(w)
         /\ Ref!SystemWord(w, a) = Reference!SystemWord(w, a)
         /\ Ref!LegalImm(f3, f7) = Reference!LegalImm(f3, f7)
         /\ Ref!LegalReg(f3, f7) = Reference!LegalReg(f3, f7)
         /\ Ref!LegalBranch(f3) = Reference!LegalBranch(f3)
         /\ Ref!LegalLoad(f3) = Reference!LegalLoad(f3)
         /\ Ref!LegalStore(f3) = Reference!LegalStore(f3)
         /\ Ref!ImmTable(f3, f7, a, b, sh) = Reference!ImmTable(f3, f7, a, b, sh)
         /\ Ref!RegTable(f3, f7, a, b) = Reference!RegTable(f3, f7, a, b)
         /\ Ref!Take(f3, a, b) = Reference!Take(f3, a, b)
  <1> USE DEF Ref!Wrap, Reference!Wrap, Ref!WordMod, Reference!WordMod, Ref!Signed,
              Reference!Signed, Ref!SignExtend, Reference!SignExtend, Ref!Truth,
              Reference!Truth, Ref!HalfMod, Reference!HalfMod
  <1>1. /\ Ref!Wrap(a) = Reference!Wrap(a) /\ Ref!Signed(a) = Reference!Signed(a)
        /\ Ref!SignExtend(a, b) = Reference!SignExtend(a, b)
        /\ Ref!HalfMod = Reference!HalfMod
    OBVIOUS
  <1>2. /\ Ref!RefImmI(w) = Reference!RefImmI(w) /\ Ref!RefImmS(w) = Reference!RefImmS(w)
        /\ Ref!RefImmB(w) = Reference!RefImmB(w) /\ Ref!RefImmU(w) = Reference!RefImmU(w)
        /\ Ref!RefImmJ(w) = Reference!RefImmJ(w)
    BY DEF Ref!RefImmI, Reference!RefImmI, Ref!RefImmS, Reference!RefImmS, Ref!RefImmB,
           Reference!RefImmB, Ref!RefImmU, Reference!RefImmU, Ref!RefImmJ,
           Reference!RefImmJ, Ref!TopBit, Reference!TopBit, Ref!SignedF7,
           Reference!SignedF7
  <1>3. /\ Ref!SystemWord(w, a) = Reference!SystemWord(w, a)
        /\ Ref!LegalImm(f3, f7) = Reference!LegalImm(f3, f7)
        /\ Ref!LegalReg(f3, f7) = Reference!LegalReg(f3, f7)
        /\ Ref!LegalBranch(f3) = Reference!LegalBranch(f3)
        /\ Ref!LegalLoad(f3) = Reference!LegalLoad(f3)
        /\ Ref!LegalStore(f3) = Reference!LegalStore(f3)
    BY DEF Ref!SystemWord, Reference!SystemWord, Ref!RType, Reference!RType, Ref!OpSystem,
           Reference!OpSystem, Ref!LegalImm, Reference!LegalImm, Ref!LegalReg,
           Reference!LegalReg, Ref!LegalBranch, Reference!LegalBranch, Ref!LegalLoad,
           Reference!LegalLoad, Ref!LegalStore, Reference!LegalStore
  <1>4. Ref!ImmTable(f3, f7, a, b, sh) = Reference!ImmTable(f3, f7, a, b, sh)
    BY DEF Ref!ImmTable, Reference!ImmTable, Ref!Shl, Reference!Shl, Ref!Shr,
           Reference!Shr, Ref!Sar, Reference!Sar
  <1>5. Ref!MulDivTable(f3, a, b) = Reference!MulDivTable(f3, a, b)
    BY DEF Ref!MulDivTable, Reference!MulDivTable
  <1>6. Ref!RegTable(f3, f7, a, b) = Reference!RegTable(f3, f7, a, b)
    BY <1>5 DEF Ref!RegTable, Reference!RegTable, Ref!Shl, Reference!Shl, Ref!Shr,
           Reference!Shr, Ref!Sar, Reference!Sar
  <1>7. Ref!Take(f3, a, b) = Reference!Take(f3, a, b) BY DEF Ref!Take, Reference!Take
  <1> QED BY <1>1, <1>2, <1>3, <1>4, <1>6, <1>7

(* What both see of their memories. *)
LEMMA BothMemories ==
  ASSUME Mirror, NEW addr, NEW width, NEW value
  PROVE  /\ Ref!Check(addr, width) = Reference!Check(addr, width)
         /\ Ref!LoadedWord(addr, width) = Reference!LoadedWord(addr, width)
         /\ Ref!Stored(addr, value, width) = Reference!Stored(addr, value, width)
  <1> USE DEF Ref!Wrap, Reference!Wrap, Ref!WordMod, Reference!WordMod, Ref!At,
              Reference!At, Ref!NoByte, Reference!NoByte
  <1>0. refMem = Flat(pages) BY DEF Mirror
  <1>1. Ref!Check(addr, width) = Reference!Check(addr, width)
    BY <1>0 DEF Ref!Check, Reference!Check
  <1>2. Ref!LoadedWord(addr, width) = Reference!LoadedWord(addr, width)
    BY <1>0 DEF Ref!LoadedWord, Reference!LoadedWord
  <1>3. Ref!Stored(addr, value, width) = Reference!Stored(addr, value, width)
    BY <1>0 DEF Ref!Stored, Reference!Stored, Ref!Word, Reference!Word, Ref!ByteAt,
                Reference!ByteAt, Ref!HalfMod, Reference!HalfMod
  <1> QED BY <1>1, <1>2, <1>3

(* What both see of the word at pc. *)
LEMMA BothViews ==
  ASSUME Mirror
  PROVE  /\ Ref!FetchAnswer = Reference!FetchAnswer /\ Ref!W = Reference!W
         /\ Ref!Va = Reference!Va /\ Ref!Vb = Reference!Vb /\ Ref!Step4 = Reference!Step4
         /\ Ref!RefWidth = Reference!RefWidth
  <1>1. refX = Shown /\ refPc = pc BY DEF Mirror
  <1>2. Ref!FetchAnswer = Reference!FetchAnswer /\ Ref!W = Reference!W
    BY <1>1, BothMemories DEF Ref!FetchAnswer, Reference!FetchAnswer, Ref!W, Reference!W
  <1>3. Ref!Va = Reference!Va /\ Ref!Vb = Reference!Vb
    BY <1>1, <1>2 DEF Ref!Va, Reference!Va, Ref!Vb, Reference!Vb, Ref!Get, Reference!Get
  <1>4. Ref!Step4 = Reference!Step4
    BY <1>1, BothTables DEF Ref!Step4, Reference!Step4
  <1>5. Ref!RefWidth = Reference!RefWidth BY <1>2 DEF Ref!RefWidth, Reference!RefWidth
  <1> QED BY <1>2, <1>3, <1>4, <1>5

(* The ways a step can end. *)
LEMMA BothFail ==
  ASSUME Mirror, NEW trap, Ref!Fail(trap), Reference!Fail(trap) PROVE Answered'
  BY DEF Mirror, Answered, Ref!Fail, Reference!Fail

(* Falling through or jumping, with nothing written. *)
LEMMA BothSucceed ==
  ASSUME Mirror, NEW next, Ref!Succeed(next), Reference!Succeed(next),
         refX' = Shown', refMem' = Flat(pages)'
  PROVE  Answered'
  BY DEF Mirror, Answered, Ref!Succeed, Reference!Succeed

(* Writing a register. *)
LEMMA BothSet ==
  ASSUME Mirror, NEW i, NEW v, Ref!Set(i, v), Reference!Set(i, v) PROVE refX' = Shown'
  BY DEF Mirror, Ref!Set, Reference!Set

(* Writing rd. *)
LEMMA BothGive ==
  ASSUME Mirror, NEW v, Ref!Give(v), Reference!Give(v) PROVE Answered'
  <1>1. refX' = Shown' BY BothSet, BothViews DEF Ref!Give, Reference!Give
  <1>2. refMem' = Flat(pages)' BY DEF Mirror, Ref!Give, Reference!Give
  <1> QED BY <1>1, <1>2, BothSucceed, BothViews DEF Ref!Give, Reference!Give

(* A jump. *)
LEMMA BothGoto ==
  ASSUME Mirror, NEW target, Ref!Goto(target), Reference!Goto(target) PROVE Answered'
  <1>1. CASE target % 4 # 0 BY <1>1, BothFail DEF Ref!Goto, Reference!Goto
  <1>2. CASE target % 4 = 0
    <2>1. /\ Ref!Set(Ref!W.rd, Ref!Step4) /\ Ref!Succeed(target) /\ refMem' = refMem
          /\ Reference!Set(Reference!W.rd, Reference!Step4) /\ Reference!Succeed(target)
          /\ Flat(pages)' = Flat(pages)
      BY <1>2 DEF Ref!Goto, Reference!Goto
    <2>2. refX' = Shown' BY <2>1, BothSet, BothViews
    <2> QED BY <2>1, <2>2, BothSucceed DEF Mirror
  <1>3. target % 4 = 0 \/ target % 4 # 0 OBVIOUS
  <1> QED BY <1>1, <1>2, <1>3

(* The opcodes with an arm of their own, whatever funct3 is. *)
Chosen == Grouped \cup {OpSystem}

(* The harness's reference: the fetch and the opcode choose the arm.       *)
LEMMA RefChooses ==
  ASSUME Ref!RefNext
  PROVE  /\ Ref!FetchAnswer # "Ok" => Ref!FetchArm
         /\ Ref!FetchAnswer = "Ok" =>
              /\ Ref!W.op = OpLui => Ref!LuiArm
              /\ Ref!W.op = OpAuipc => Ref!AuipcArm
              /\ Ref!W.op = OpJal => Ref!JalArm
              /\ Ref!W.op = OpJalr => Ref!JalrArm
              /\ Ref!W.op = OpBranch => Ref!BranchArm
              /\ Ref!W.op = OpLoad => Ref!LoadArm
              /\ Ref!W.op = OpStore => Ref!StoreArm
              /\ Ref!W.op = OpImmed => Ref!ImmArm
              /\ Ref!W.op = OpReg => Ref!RegArm
              /\ Ref!W.op = OpSystem => Ref!SystemArm
              /\ Ref!W.op = OpFence /\ Ref!W.f3 = 0 => Ref!FenceArm
              /\ Ref!W.op \notin Chosen /\ ~(Ref!W.op = OpFence /\ Ref!W.f3 = 0) =>
                   Ref!OtherArm
  <1> USE OpcodeValues DEF Ref!Arm
  <1>1. Ref!FetchArm => Ref!FetchAnswer # "Ok" BY DEF Ref!FetchArm
  <1>2. Ref!LuiArm => Ref!FetchAnswer = "Ok" /\ Ref!W.op = OpLui
    BY DEF Ref!LuiArm, Ref!OpLui
  <1>3. Ref!AuipcArm => Ref!FetchAnswer = "Ok" /\ Ref!W.op = OpAuipc
    BY DEF Ref!AuipcArm, Ref!OpAuipc
  <1>4. Ref!JalArm => Ref!FetchAnswer = "Ok" /\ Ref!W.op = OpJal
    BY DEF Ref!JalArm, Ref!OpJal
  <1>5. Ref!JalrArm => Ref!FetchAnswer = "Ok" /\ Ref!W.op = OpJalr
    BY DEF Ref!JalrArm, Ref!OpJalr
  <1>6. Ref!BranchArm => Ref!FetchAnswer = "Ok" /\ Ref!W.op = OpBranch
    BY DEF Ref!BranchArm, Ref!OpBranch
  <1>7. Ref!LoadArm => Ref!FetchAnswer = "Ok" /\ Ref!W.op = OpLoad
    BY DEF Ref!LoadArm, Ref!OpLoad
  <1>8. Ref!StoreArm => Ref!FetchAnswer = "Ok" /\ Ref!W.op = OpStore
    BY DEF Ref!StoreArm, Ref!OpStore
  <1>9. Ref!ImmArm => Ref!FetchAnswer = "Ok" /\ Ref!W.op = OpImmed
    BY DEF Ref!ImmArm, Ref!OpImmed
  <1>10. Ref!RegArm => Ref!FetchAnswer = "Ok" /\ Ref!W.op = OpReg
    BY DEF Ref!RegArm, Ref!OpReg
  <1>11. Ref!SystemArm => Ref!FetchAnswer = "Ok" /\ Ref!W.op = OpSystem
    BY DEF Ref!SystemArm, Ref!OpSystem
  <1>12. Ref!FenceArm => Ref!FetchAnswer = "Ok" /\ Ref!W.op = OpFence /\ Ref!W.f3 = 0
    BY DEF Ref!FenceArm, Ref!OpFence
  <1>13. Ref!OtherArm => /\ Ref!FetchAnswer = "Ok" /\ Ref!W.op \notin Chosen
                      /\ ~(Ref!W.op = OpFence /\ Ref!W.f3 = 0)
    BY DEF Chosen, Grouped, Ref!OtherArm, Ref!OpLui, Ref!OpAuipc, Ref!OpJal, Ref!OpJalr, Ref!OpBranch, Ref!OpLoad, Ref!OpStore, Ref!OpImmed, Ref!OpReg, Ref!OpSystem, Ref!OpFence
  <1> QED BY <1>1, <1>2, <1>3, <1>4, <1>5, <1>6, <1>7, <1>8, <1>9, <1>10, <1>11, <1>12, <1>13 DEF Ref!RefNext, Chosen, Grouped

(* The primary's image as a reference: the same. *)
LEMMA ReferenceChooses ==
  ASSUME Reference!RefNext
  PROVE  /\ Reference!FetchAnswer # "Ok" => Reference!FetchArm
         /\ Reference!FetchAnswer = "Ok" =>
              /\ Reference!W.op = OpLui => Reference!LuiArm
              /\ Reference!W.op = OpAuipc => Reference!AuipcArm
              /\ Reference!W.op = OpJal => Reference!JalArm
              /\ Reference!W.op = OpJalr => Reference!JalrArm
              /\ Reference!W.op = OpBranch => Reference!BranchArm
              /\ Reference!W.op = OpLoad => Reference!LoadArm
              /\ Reference!W.op = OpStore => Reference!StoreArm
              /\ Reference!W.op = OpImmed => Reference!ImmArm
              /\ Reference!W.op = OpReg => Reference!RegArm
              /\ Reference!W.op = OpSystem => Reference!SystemArm
              /\ Reference!W.op = OpFence /\ Reference!W.f3 = 0 => Reference!FenceArm
              /\ Reference!W.op \notin Chosen /\ ~(Reference!W.op = OpFence /\ Reference!W.f3 = 0) =>
                   Reference!OtherArm
  <1> USE OpcodeValues DEF Reference!Arm
  <1>1. Reference!FetchArm => Reference!FetchAnswer # "Ok" BY DEF Reference!FetchArm
  <1>2. Reference!LuiArm => Reference!FetchAnswer = "Ok" /\ Reference!W.op = OpLui
    BY DEF Reference!LuiArm, Reference!OpLui
  <1>3. Reference!AuipcArm => Reference!FetchAnswer = "Ok" /\ Reference!W.op = OpAuipc
    BY DEF Reference!AuipcArm, Reference!OpAuipc
  <1>4. Reference!JalArm => Reference!FetchAnswer = "Ok" /\ Reference!W.op = OpJal
    BY DEF Reference!JalArm, Reference!OpJal
  <1>5. Reference!JalrArm => Reference!FetchAnswer = "Ok" /\ Reference!W.op = OpJalr
    BY DEF Reference!JalrArm, Reference!OpJalr
  <1>6. Reference!BranchArm => Reference!FetchAnswer = "Ok" /\ Reference!W.op = OpBranch
    BY DEF Reference!BranchArm, Reference!OpBranch
  <1>7. Reference!LoadArm => Reference!FetchAnswer = "Ok" /\ Reference!W.op = OpLoad
    BY DEF Reference!LoadArm, Reference!OpLoad
  <1>8. Reference!StoreArm => Reference!FetchAnswer = "Ok" /\ Reference!W.op = OpStore
    BY DEF Reference!StoreArm, Reference!OpStore
  <1>9. Reference!ImmArm => Reference!FetchAnswer = "Ok" /\ Reference!W.op = OpImmed
    BY DEF Reference!ImmArm, Reference!OpImmed
  <1>10. Reference!RegArm => Reference!FetchAnswer = "Ok" /\ Reference!W.op = OpReg
    BY DEF Reference!RegArm, Reference!OpReg
  <1>11. Reference!SystemArm => Reference!FetchAnswer = "Ok" /\ Reference!W.op = OpSystem
    BY DEF Reference!SystemArm, Reference!OpSystem
  <1>12. Reference!FenceArm => Reference!FetchAnswer = "Ok" /\ Reference!W.op = OpFence /\ Reference!W.f3 = 0
    BY DEF Reference!FenceArm, Reference!OpFence
  <1>13. Reference!OtherArm => /\ Reference!FetchAnswer = "Ok" /\ Reference!W.op \notin Chosen
                      /\ ~(Reference!W.op = OpFence /\ Reference!W.f3 = 0)
    BY DEF Chosen, Grouped, Reference!OtherArm, Reference!OpLui, Reference!OpAuipc, Reference!OpJal, Reference!OpJalr, Reference!OpBranch, Reference!OpLoad, Reference!OpStore, Reference!OpImmed, Reference!OpReg, Reference!OpSystem, Reference!OpFence
  <1> QED BY <1>1, <1>2, <1>3, <1>4, <1>5, <1>6, <1>7, <1>8, <1>9, <1>10, <1>11, <1>12, <1>13 DEF Reference!RefNext, Chosen, Grouped

(* The arms, one group at a time. *)
LEMMA BothCompute ==
  ASSUME Mirror,
         \/ Ref!LuiArm /\ Reference!LuiArm
         \/ Ref!AuipcArm /\ Reference!AuipcArm
         \/ Ref!ImmArm /\ Reference!ImmArm
         \/ Ref!RegArm /\ Reference!RegArm
  PROVE  Answered'
  <1> DEFINE w == Reference!W
  <1>1. refPc = pc BY DEF Mirror
  <1>2. CASE Ref!LuiArm /\ Reference!LuiArm
    <2>1. Ref!Wrap(Ref!RefImmU(Ref!W) * UpperUnit)
            = Reference!Wrap(Reference!RefImmU(w) * UpperUnit)
      BY BothTables, BothViews
    <2> QED BY <1>2, <2>1, BothGive DEF Ref!LuiArm, Reference!LuiArm
  <1>3. CASE Ref!AuipcArm /\ Reference!AuipcArm
    <2>1. Ref!Wrap(refPc + Ref!RefImmU(Ref!W) * UpperUnit)
            = Reference!Wrap(pc + Reference!RefImmU(w) * UpperUnit)
      BY <1>1, BothTables, BothViews
    <2> QED BY <1>3, <2>1, BothGive DEF Ref!AuipcArm, Reference!AuipcArm
  <1>4. CASE Ref!ImmArm /\ Reference!ImmArm
    <2>1. Ref!W = w /\ Ref!LegalImm(w.f3, w.f7) = Reference!LegalImm(w.f3, w.f7)
      BY BothTables, BothViews
    <2>2. Ref!ImmTable(w.f3, w.f7, Ref!Va, Ref!Wrap(Ref!RefImmI(w)), w.rs2 % XLen)
            = Reference!ImmTable(w.f3, w.f7, Reference!Va,
                                 Reference!Wrap(Reference!RefImmI(w)), w.rs2 % XLen)
      BY BothTables, BothViews
    <2> QED BY <1>4, <2>1, <2>2, BothGive, BothFail DEF Ref!ImmArm, Reference!ImmArm
  <1>5. CASE Ref!RegArm /\ Reference!RegArm
    <2>1. Ref!W = w /\ Ref!LegalReg(w.f3, w.f7) = Reference!LegalReg(w.f3, w.f7)
      BY BothTables, BothViews
    <2>2. Ref!RegTable(w.f3, w.f7, Ref!Va, Ref!Vb)
            = Reference!RegTable(w.f3, w.f7, Reference!Va, Reference!Vb)
      BY BothTables, BothViews
    <2> QED BY <1>5, <2>1, <2>2, BothGive, BothFail DEF Ref!RegArm, Reference!RegArm
  <1> QED BY <1>2, <1>3, <1>4, <1>5

(* Jumps. *)
LEMMA BothJump ==
  ASSUME Mirror, \/ Ref!JalArm /\ Reference!JalArm
                 \/ Ref!JalrArm /\ Reference!JalrArm
  PROVE  Answered'
  <1> DEFINE w == Reference!W
             sum == Reference!Wrap(Reference!Signed(Reference!Va) + Reference!RefImmI(w))
  <1>1. refPc = pc /\ Ref!W = w BY BothViews DEF Mirror
  <1>2. CASE Ref!JalArm /\ Reference!JalArm
    <2>1. Ref!Wrap(Ref!Signed(refPc) + Ref!RefImmJ(w))
            = Reference!Wrap(Reference!Signed(pc) + Reference!RefImmJ(w))
      BY <1>1, BothTables
    <2> QED BY <1>1, <1>2, <2>1, BothGoto DEF Ref!JalArm, Reference!JalArm
  <1>3. CASE Ref!JalrArm /\ Reference!JalrArm
    <2>1. Ref!Wrap(Ref!Signed(Ref!Va) + Ref!RefImmI(w)) = sum BY BothTables, BothViews
    <2>2. CASE w.f3 # 0 BY <1>1, <1>3, <2>2, BothFail DEF Ref!JalrArm, Reference!JalrArm
    <2>3. CASE w.f3 = 0
      <3>1. Ref!Goto(2 * (sum \div 2)) BY <1>1, <1>3, <2>1, <2>3 DEF Ref!JalrArm
      <3>2. Reference!Goto(2 * (sum \div 2)) BY <1>3, <2>3 DEF Reference!JalrArm
      <3> QED BY <3>1, <3>2, BothGoto
    <2> QED BY <2>2, <2>3
  <1> QED BY <1>2, <1>3

(* Branches. *)
LEMMA BothBranch ==
  ASSUME Mirror, Ref!BranchArm, Reference!BranchArm PROVE Answered'
  <1> DEFINE w == Reference!W
             target == Reference!Wrap(Reference!Signed(pc) + Reference!RefImmB(w))
             taken == Reference!Take(w.f3, Reference!Va, Reference!Vb)
             legal == Reference!LegalBranch(w.f3)
  <1>1. refPc = pc /\ refX = Shown /\ refMem = Flat(pages) /\ Ref!W = w
    BY BothViews DEF Mirror
  <1>2. /\ Ref!Wrap(Ref!Signed(refPc) + Ref!RefImmB(w)) = target
        /\ Ref!Take(w.f3, Ref!Va, Ref!Vb) = taken /\ Ref!LegalBranch(w.f3) = legal
        /\ Ref!Step4 = Reference!Step4
    BY <1>1, BothTables, BothViews
  <1> HIDE DEF target, taken, legal
  <1>3. CASE ~legal
    <2>1. Ref!Fail("Illegal") BY <1>1, <1>2, <1>3 DEF Ref!BranchArm
    <2>2. Reference!Fail("Illegal") BY <1>3 DEF Reference!BranchArm, legal
    <2> QED BY <2>1, <2>2, BothFail
  <1>4. CASE legal /\ ~taken
    <2>1. Ref!Succeed(Ref!Step4) /\ refX' = refX /\ refMem' = refMem
      BY <1>1, <1>2, <1>4 DEF Ref!BranchArm
    <2>2. Reference!Succeed(Reference!Step4) /\ Shown' = Shown /\ Flat(pages)' = Flat(pages)
      BY <1>4 DEF Reference!BranchArm, legal, taken
    <2> QED BY <1>1, <1>2, <2>1, <2>2, BothSucceed
  <1>5. CASE legal /\ taken /\ target % 4 # 0
    <2>1. Ref!Fail("Misaligned") BY <1>1, <1>2, <1>5 DEF Ref!BranchArm
    <2>2. Reference!Fail("Misaligned") BY <1>5 DEF Reference!BranchArm, legal, taken, target
    <2> QED BY <2>1, <2>2, BothFail
  <1>6. CASE legal /\ taken /\ target % 4 = 0
    <2>1. Ref!Succeed(target) /\ refX' = refX /\ refMem' = refMem
      BY <1>1, <1>2, <1>6 DEF Ref!BranchArm
    <2>2. Reference!Succeed(target) /\ Shown' = Shown /\ Flat(pages)' = Flat(pages)
      BY <1>6 DEF Reference!BranchArm, legal, taken, target
    <2> QED BY <1>1, <1>2, <2>1, <2>2, BothSucceed
  <1> QED BY <1>3, <1>4, <1>5, <1>6

(* Loads and stores. *)
LEMMA BothData ==
  ASSUME Mirror, \/ Ref!LoadArm /\ Reference!LoadArm
                 \/ Ref!StoreArm /\ Reference!StoreArm
  PROVE  Answered'
  <1> DEFINE w == Reference!W
             width == Reference!RefWidth
  <1>1. refX = Shown /\ refMem = Flat(pages) /\ Ref!W = w /\ Ref!RefWidth = width
        /\ Ref!Step4 = Reference!Step4 /\ Ref!Vb = Reference!Vb
    BY BothViews DEF Mirror
  <1>2. CASE Ref!LoadArm /\ Reference!LoadArm
    <2> DEFINE addr == Reference!Wrap(Reference!Signed(Reference!Va) + Reference!RefImmI(w))
               raw == Reference!LoadedWord(addr, width)
    <2>1. /\ Ref!Wrap(Ref!Signed(Ref!Va) + Ref!RefImmI(w)) = addr
          /\ Ref!LegalLoad(w.f3) = Reference!LegalLoad(w.f3)
      BY BothTables, BothViews
    <2>2. /\ Ref!Check(addr, width) = Reference!Check(addr, width)
          /\ Ref!LoadedWord(addr, width) = raw
      BY BothMemories
    <2>3. /\ Ref!Wrap(Ref!SignExtend(raw, Base)) = Reference!Wrap(Reference!SignExtend(raw, Base))
          /\ Ref!Wrap(Ref!SignExtend(raw, Ref!HalfMod))
               = Reference!Wrap(Reference!SignExtend(raw, Reference!HalfMod))
      BY BothTables
    <2> DEFINE value == CASE w.f3 = 0 -> Reference!Wrap(Reference!SignExtend(raw, Base))
                          [] w.f3 = 1 -> Reference!Wrap(Reference!SignExtend(raw, Reference!HalfMod))
                          [] OTHER -> raw
    <2>4. IF ~Reference!LegalLoad(w.f3) THEN Ref!Fail("Illegal")
          ELSE IF Reference!Check(addr, width) # "Ok"
            THEN Ref!Fail(Reference!Check(addr, width))
          ELSE Ref!Give(value)
      BY <1>1, <1>2, <2>1, <2>2, <2>3, Zenon DEF Ref!LoadArm
    <2>5. IF ~Reference!LegalLoad(w.f3) THEN Reference!Fail("Illegal")
          ELSE IF Reference!Check(addr, width) # "Ok"
            THEN Reference!Fail(Reference!Check(addr, width))
          ELSE Reference!Give(value)
      BY <1>2, Zenon DEF Reference!LoadArm
    <2> HIDE DEF addr, raw, value, width, w
    <2> QED BY <2>4, <2>5, BothFail, BothGive
  <1>3. CASE Ref!StoreArm /\ Reference!StoreArm
    <2> DEFINE addr == Reference!Wrap(Reference!Signed(Reference!Va) + Reference!RefImmS(w))
               after == Reference!Stored(addr, Reference!Vb, width)
    <2>1. /\ Ref!Wrap(Ref!Signed(Ref!Va) + Ref!RefImmS(w)) = addr
          /\ Ref!LegalStore(w.f3) = Reference!LegalStore(w.f3)
      BY BothTables, BothViews
    <2>2. /\ Ref!Check(addr, width) = Reference!Check(addr, width)
          /\ Ref!Stored(addr, Reference!Vb, width) = after
      BY BothMemories
    <2>4. IF ~Reference!LegalStore(w.f3) THEN Ref!Fail("Illegal")
          ELSE IF Reference!Check(addr, width) # "Ok"
            THEN Ref!Fail(Reference!Check(addr, width))
          ELSE refMem' = after /\ Ref!Succeed(Reference!Step4) /\ refX' = refX
      BY <1>1, <1>3, <2>1, <2>2, Zenon DEF Ref!StoreArm
    <2>5. IF ~Reference!LegalStore(w.f3) THEN Reference!Fail("Illegal")
          ELSE IF Reference!Check(addr, width) # "Ok"
            THEN Reference!Fail(Reference!Check(addr, width))
          ELSE /\ Flat(pages)' = after /\ Reference!Succeed(Reference!Step4)
               /\ Shown' = Shown
      BY <1>3, Zenon DEF Reference!StoreArm
    <2> HIDE DEF addr, after, width, w
    <2> QED BY <1>1, <2>4, <2>5, BothFail, BothSucceed
  <1> QED BY <1>2, <1>3

(* Fence, the system words, the rest, and a fetch that fails.              *)
LEMMA BothRest ==
  ASSUME Mirror, \/ Ref!FenceArm /\ Reference!FenceArm
                 \/ Ref!SystemArm /\ Reference!SystemArm
                 \/ Ref!OtherArm /\ Reference!OtherArm
                 \/ Ref!FetchArm /\ Reference!FetchArm
  PROVE  Answered'
  <1> DEFINE w == Reference!W
  <1>1. /\ refX = Shown /\ refMem = Flat(pages) /\ Ref!W = w
        /\ Ref!Step4 = Reference!Step4 /\ Ref!FetchAnswer = Reference!FetchAnswer
    BY BothViews DEF Mirror
  <1>2. CASE Ref!FenceArm /\ Reference!FenceArm
    BY <1>1, <1>2, BothSucceed DEF Ref!FenceArm, Reference!FenceArm
  <1>3. CASE Ref!SystemArm /\ Reference!SystemArm
    <2>1. /\ Ref!SystemWord(w, 0) = Reference!SystemWord(w, 0)
          /\ Ref!SystemWord(w, 1) = Reference!SystemWord(w, 1)
      BY BothTables
    <2> DEFINE trap == CASE Reference!SystemWord(w, 0) -> "Ecall"
                         [] Reference!SystemWord(w, 1) -> "Ebreak"
                         [] OTHER -> "Illegal"
    <2>2. Ref!Fail(trap) /\ Reference!Fail(trap)
      BY <1>1, <1>3, <2>1, Zenon DEF Ref!SystemArm, Reference!SystemArm
    <2> HIDE DEF trap
    <2> QED BY <2>2, BothFail
  <1>4. CASE Ref!OtherArm /\ Reference!OtherArm
    BY <1>4, BothFail DEF Ref!OtherArm, Reference!OtherArm
  <1>5. CASE Ref!FetchArm /\ Reference!FetchArm
    BY <1>1, <1>5, BothFail DEF Ref!FetchArm, Reference!FetchArm
  <1> QED BY <1>2, <1>3, <1>4, <1>5

(* The reference is deterministic: from one state, one step.               *)
LEMMA OneStep ==
  ASSUME Mirror, Ref!RefNext, Reference!RefNext PROVE Answered'
  <1> DEFINE w == Reference!W
  <1>1. Ref!W = w /\ Ref!FetchAnswer = Reference!FetchAnswer BY BothViews
  <1>2. CASE Reference!FetchAnswer # "Ok"
    BY <1>1, <1>2, RefChooses, ReferenceChooses, BothRest
  <1>3. CASE Reference!FetchAnswer = "Ok"
    <2>1. CASE w.op \in {OpLui, OpAuipc, OpImmed, OpReg}
      BY <1>1, <1>3, <2>1, RefChooses, ReferenceChooses, BothCompute
    <2>2. CASE w.op \in {OpJal, OpJalr}
      BY <1>1, <1>3, <2>2, RefChooses, ReferenceChooses, BothJump
    <2>3. CASE w.op = OpBranch
      BY <1>1, <1>3, <2>3, RefChooses, ReferenceChooses, BothBranch
    <2>4. CASE w.op \in {OpLoad, OpStore}
      BY <1>1, <1>3, <2>4, RefChooses, ReferenceChooses, BothData
    <2>5. CASE w.op = OpSystem \/ w.op \notin Chosen
      BY <1>1, <1>3, <2>5, RefChooses, ReferenceChooses, BothRest
    <2> QED BY <2>1, <2>2, <2>3, <2>4, <2>5 DEF Chosen, Grouped
  <1> QED BY <1>2, <1>3

(***************************************************************************)
(* No false alarm.                                                         *)
(***************************************************************************)
(* Where the reference was not disturbed, it is where the primary is.      *)
BuiltAlike == Untouched => Mirror /\ verdict \in {"Running", "Agreed"}

(* The comparison of registers does not see the reading of x0 as zero.     *)
LEMMA MirrorShown == ASSUME Inv, Mirror PROVE RefShown = Shown
  <1>1. Shown = regs /\ regs \in [Reg -> Word] /\ regs[0] = 0
    BY ShownIsStored DEF Inv, TypeOK, ZeroRegister
  <1> QED BY <1>1 DEF Mirror, RefShown

(* Step by step, neither interpreter leaves the other behind.              *)
LEMMA AlikeStep ==
  ASSUME PageSize % 4 = 0, Inv, BuiltAlike, [HarnessNext]_harnessVars
  PROVE  BuiltAlike'
  <1>1. Inv' BY HarnessKeepsInv
  <1>2. SUFFICES ASSUME disturbance'.what = "nothing"
                 PROVE  Mirror' /\ verdict' \in {"Running", "Agreed"}
    BY DEF BuiltAlike, Untouched
  <1>3. disturbance' = disturbance
    BY DEF HarnessNext, Begin, StepBoth, BudgetSpent, CompareMemory, harnessVars
  <1>4. Mirror /\ verdict \in {"Running", "Agreed"} BY <1>2, <1>3 DEF BuiltAlike, Untouched
  <1>5. ASSUME UNCHANGED <<regs, pc, pages, refX, refPc, refMem>> PROVE Mirror'
    BY <1>4, <1>5 DEF Mirror, Shown
  <1>6. CASE Begin \/ BudgetSpent
    <2>1. UNCHANGED <<regs, pc, pages, refX, refPc, refMem>> /\ verdict' = verdict
      BY <1>6 DEF Begin, BudgetSpent, Call, Exhausted, hartVars, refState
    <2> QED BY <1>4, <1>5, <2>1
  <1>7. CASE StepBoth
    <2>1. Reference!RefNext /\ Ref!RefNext /\ verdict' = Judged
      BY <1>7, IterateRefines DEF StepBoth
    <2>2. Answered' BY <1>4, <2>1, OneStep
    <2>3. Mirror' /\ refOut' = Reason(res') /\ refPc' = pc' BY <2>2 DEF Answered, Mirror
    <2>4. RefShown' = Shown'
      <3>1. Shown' = regs' /\ regs' \in [Reg -> Word] /\ regs'[0] = 0
        BY <1>1 DEF Inv, TypeOK, ZeroRegister, Shown, Reg
      <3> QED BY <2>3, <3>1 DEF Mirror, RefShown
    <2>5. Judged = "Running" BY <2>3, <2>4 DEF Judged
    <2> QED BY <2>1, <2>3, <2>5
  <1>8. CASE CompareMemory
    <2>1. UNCHANGED <<regs, pc, pages, refX, refPc, refMem>>
      BY <1>8 DEF CompareMemory, vars, refState
    <2>2. SameData BY <1>4 DEF SameData, Mirror
    <2>3. verdict' = "Agreed" BY <1>8, <2>2 DEF CompareMemory
    <2> QED BY <1>5, <2>1, <2>3
  <1>9. CASE UNCHANGED harnessVars
    <2>1. UNCHANGED <<regs, pc, pages, refX, refPc, refMem>> /\ verdict' = verdict
      BY <1>9 DEF harnessVars, vars
    <2> QED BY <1>4, <1>5, <2>1
  <1> QED BY <1>6, <1>7, <1>8, <1>9 DEF HarnessNext

(* An undisturbed pair is built alike. *)
LEMMA AlikeStart == Build => BuiltAlike
  <1> SUFFICES ASSUME Build, Untouched PROVE Mirror /\ verdict = "Running"
    BY DEF BuiltAlike
  <1>1. PICK d \in Disturbances : Disturb(d) BY DEF Build
  <1>2. d.what = "nothing" BY <1>1 DEF Disturb, Untouched
  <1>3. refX = regs /\ refPc = pc /\ refMem = Flat(pages) BY <1>1, <1>2 DEF Disturb
  <1>4. Shown = regs BY InitInv, ShownIsStored DEF Build, Inv
  <1> QED BY <1>3, <1>4 DEF Mirror, Build

(* Two interpreters built alike are never found to differ (lockstep.rs     *)
(* 216-287), on any program, image and budget.                             *)
THEOREM LockstepIsSilent ==
  ASSUME PageSize % 4 = 0 PROVE HarnessSpec => []NoFalseAlarm
  <1>1. Build => Inv /\ BuiltAlike BY InitInv, AlikeStart DEF Build
  <1>2. Inv /\ BuiltAlike /\ [HarnessNext]_harnessVars => Inv' /\ BuiltAlike'
    BY HarnessKeepsInv, AlikeStep
  <1>3. Inv /\ BuiltAlike => NoFalseAlarm
    BY MirrorShown DEF BuiltAlike, NoFalseAlarm, Mirror
  <1> QED BY <1>1, <1>2, <1>3, PTL DEF HarnessSpec


(***************************************************************************)
(* The host: the invariant between calls that change the machine.          *)
(***************************************************************************)
(* A trap that is not a missing page of the host's is still due.           *)
HostStands == res # Ok /\ ~PageFault => TrapDue(res)

(* Bringing in a page keeps the machine a machine. *)
LEMMA ProvideInv == ASSUME Inv, Provide PROVE Inv'
  <1>1. {PageOf(res.addr)} \subseteq PageNo BY HostAssumption DEF Provide, PageFault
  <1>2. IsMemory(pages') BY <1>1, AllocatedFacts DEF Provide, Touched, Inv, TypeOK
  <1>3. TypeOK' BY <1>2 DEF Provide, Inv, TypeOK, IsMemory, Outcome, callVars
  <1> QED BY <1>3 DEF Provide, Inv, ZeroRegister, PcAligned, Accounts, callVars

(* So does answering the guest: any register number, any word. *)
LEMMA ServeInv == ASSUME Inv, NEW a \in Answers, Serve(a) PROVE Inv'
  <1>1. a.index \in Nat /\ a.value \in Word BY HostAssumption
  <1>2. a.index % 32 \in Reg BY <1>1 DEF Reg
  <1>3. regs' \in [Reg -> Word] /\ regs'[0] = 0 BY <1>1, <1>2, SetRegType DEF Serve, Inv
  <1>4. Next4 \in Word
    <2>1. pc + 4 \in Int BY WordInt DEF Inv, TypeOK
    <2> QED BY <2>1, WrapType DEF Next4
  <1>5. TypeOK' BY <1>3, <1>4 DEF Serve, Inv, TypeOK, IsMemory, Outcome, callVars
  <1>6. PcAligned'
    <2>1. ASSUME steps > 0 PROVE Next4 % 4 = 0 BY <2>1, Next4Facts DEF Inv, PcAligned
    <2> QED BY <2>1 DEF Serve, PcAligned
  <1> QED BY <1>3, <1>5, <1>6 DEF Serve, Inv, ZeroRegister, Accounts, callVars

(* The invariant survives whatever the host does. *)
LEMMA HostKeepsInv == ASSUME Inv, [HostNext]_vars PROVE Inv'
  BY ProvideInv, ServeInv, StepInv, CallInv, ExhaustedInv, StutterInv DEF HostNext, Next

(* And so does the claim that a reported trap is due. *)
LEMMA HostStandsStep ==
  ASSUME PageSize % 4 = 0, Inv, HostStands, [HostNext]_vars PROVE HostStands'
  <1>1. CASE Iterate
    <2>1. CASE res' = Ok BY <2>1 DEF HostStands
    <2>2. CASE res' # Ok /\ UNCHANGED hartVars /\ \A t : TrapDue(t) <=> t = res'
      <3>1. PICK t : t = res' OBVIOUS
      <3>2. TrapDue(t)' BY <2>2, <3>1, TrapDueKept DEF hartVars
      <3>3. TrapDue(res)' BY <3>1, <3>2 DEF TrapDue, ExecTrap
      <3> QED BY <3>3 DEF HostStands
    <2> QED BY <1>1, <2>1, <2>2, StepVerdict
  <1>2. ASSUME UNCHANGED <<hartVars, res>> PROVE HostStands'
    <2>1. PageFault' <=> PageFault BY <1>2 DEF PageFault
    <2>2. ASSUME res # Ok, ~PageFault PROVE TrapDue(res)'
      <3>1. PICK t : t = res /\ TrapDue(t) BY <2>2 DEF HostStands
      <3>2. TrapDue(t)' /\ res' = t BY <1>2, <3>1, TrapDueKept DEF hartVars
      <3> QED BY <3>2 DEF TrapDue, ExecTrap
    <2> QED BY <1>2, <2>1, <2>2 DEF HostStands
  <1>3. CASE Call \/ Exhausted \/ UNCHANGED vars
    <2>1. UNCHANGED <<hartVars, res>> BY <1>3 DEF Call, Exhausted, vars, hartVars
    <2> QED BY <1>2, <2>1
  <1>4. CASE Provide BY <1>4 DEF Provide, PageFault, HostStands
  <1>5. CASE \E a \in Answers : Serve(a) BY <1>5 DEF Serve, HostStands
  <1> QED BY <1>1, <1>3, <1>4, <1>5 DEF HostNext, Next

(***************************************************************************)
(* The memory with the host's pages in it.                                 *)
(***************************************************************************)
Provided == Allocated(pages, Backing)

(* Its bytes are the guest's, and zeros where a page is still to come.     *)
LEMMA FlatProvided ==
  ASSUME IsMemory(pages), NEW a \in Word
  PROVE  Flat(Provided)[a] = IF Flat(pages)[a] # -1 THEN Flat(pages)[a]
                             ELSE IF PageOf(a) \in Backing THEN 0 ELSE -1
  BY HostAssumption, FlatAllocated DEF Provided

(* The same after a step. *)
LEMMA FlatProvidedNext ==
  ASSUME IsMemory(pages'), NEW a \in Word
  PROVE  Flat(Provided')[a] = IF Flat(pages')[a] # -1 THEN Flat(pages')[a]
                              ELSE IF PageOf(a) \in Backing THEN 0 ELSE -1
  BY HostAssumption, FlatAllocated DEF Provided

(* The same bytes before and after a step, the same bytes with the pages.  *)
LEMMA ProvidedKept ==
  ASSUME IsMemory(pages), IsMemory(pages'), Flat(pages') = Flat(pages)
  PROVE  Flat(Provided') = Flat(Provided)
  <1>1. \A a \in Word : Flat(Provided')[a] = Flat(Provided)[a]
    BY FlatProvided, FlatProvidedNext
  <1> QED BY <1>1 DEF Flat

(* A page brought in was there all along. *)
LEMMA ProvideUnseen ==
  ASSUME Inv, Provide PROVE Flat(Provided') = Flat(Provided)
  <1>1. PageOf(res.addr) \in Backing /\ pages' = Allocated(pages, {PageOf(res.addr)})
    BY DEF Provide, PageFault, Touched
  <1>2. IsMemory(pages) /\ IsMemory(pages') BY ProvideInv DEF Inv, TypeOK, IsMemory
  <1>3. ASSUME NEW a \in Word PROVE Flat(Provided')[a] = Flat(Provided)[a]
    <2>1. Flat(pages')[a] = IF Flat(pages)[a] # -1 THEN Flat(pages)[a]
                            ELSE IF PageOf(a) \in {PageOf(res.addr)} THEN 0 ELSE -1
      BY <1>1, <1>2, HostAssumption, FlatAllocated
    <2> QED BY <1>1, <1>2, <2>1, FlatProvided, FlatProvidedNext
  <1> QED BY <1>3 DEF Flat

(* Where the host has no page for a faulting access, or none faults, the   *)
(* whole memory answers as the guest's does.                               *)
LEMMA WholeMemory ==
  ASSUME PageSize % 4 = 0, IsMemory(pages), NEW addr \in Word, NEW width \in {1, 2, 4},
         Reference!Check(addr, width) = "Fault" => PageOf(addr) \notin Backing
  PROVE  /\ Whole!Check(addr, width) = Reference!Check(addr, width)
         /\ Reference!Check(addr, width) = "Ok" =>
              Whole!LoadedWord(addr, width) = Reference!LoadedWord(addr, width)
  <1>1. CASE addr % width # 0
    BY <1>1 DEF Whole!Check, Reference!Check
  <1>2. CASE addr % width = 0
    <2>1. ASSUME NEW i \in 0 .. width - 1
          PROVE  /\ Whole!At(addr, i) = Cell(addr, i) /\ Reference!At(addr, i) = Cell(addr, i)
                 /\ Cell(addr, i) \in Word /\ PageOf(Cell(addr, i)) = PageOf(addr)
      <3>1. addr \in Int /\ i \in Int BY WordInt
      <3>2. Whole!At(addr, i) = Cell(addr, i)
        BY DEF Whole!At, Whole!Wrap, Whole!WordMod, Cell, Wrap, WordMod
      <3>3. Reference!At(addr, i) = Cell(addr, i) BY SameWords DEF Reference!At, Cell
      <3> QED BY <1>2, <3>1, <3>2, <3>3, CellType, AlignedCells
    <2> DEFINE all == \A i \in 0 .. width - 1 : Flat(pages)[Cell(addr, i)] # -1
               any == \A i \in 0 .. width - 1 : Flat(Provided)[Cell(addr, i)] # -1
    <2>2. Reference!Check(addr, width) = IF all THEN "Ok" ELSE "Fault"
      BY <1>2, <2>1 DEF Reference!Check, Reference!NoByte
    <2>3. Whole!Check(addr, width) = IF any THEN "Ok" ELSE "Fault"
      BY <1>2, <2>1 DEF Whole!Check, Whole!NoByte, Provided
    <2>4. all \/ PageOf(addr) \notin Backing BY <2>2
    <2>5. \A i \in 0 .. width - 1 : Flat(Provided)[Cell(addr, i)] = Flat(pages)[Cell(addr, i)]
      BY <2>1, <2>4, FlatProvided
    <2>6. Whole!LoadedWord(addr, width) = Reference!LoadedWord(addr, width)
      <3> DEFINE b(i) == IF i < width THEN Flat(Provided)[Whole!At(addr, i)] ELSE 0
                 c(i) == IF i < width THEN Flat(pages)[Reference!At(addr, i)] ELSE 0
      <3>1. \A i \in {0, 1, 2, 3} : b(i) = c(i)
        <4>1. \A i \in {0, 1, 2, 3} : i < width => i \in 0 .. width - 1 OBVIOUS
        <4> QED BY <2>1, <2>5, <4>1
      <3>2. /\ Whole!LoadedWord(addr, width) = b(0) + Base * (b(1) + Base * (b(2) + Base * b(3)))
            /\ Reference!LoadedWord(addr, width)
                 = c(0) + Base * (c(1) + Base * (c(2) + Base * c(3)))
        BY DEF Whole!LoadedWord, Reference!LoadedWord, Provided
      <3> HIDE DEF b, c
      <3> QED BY <3>1, <3>2
    <2> QED BY <2>2, <2>3, <2>5, <2>6
  <1> QED BY <1>1, <1>2, SMT DEF Reference!Check

(* A store that the guest's memory takes leaves the whole memory with the  *)
(* same bytes in it.                                                       *)
LEMMA WholeStored ==
  ASSUME IsMemory(pages), IsMemory(pages'), NEW addr \in Word, NEW value \in Word,
         NEW width \in {1, 2, 4}, Flat(pages') = Reference!Stored(addr, value, width)
  PROVE  Flat(Provided') = Whole!Stored(addr, value, width)
  <1>1. ASSUME NEW a \in Word
        PROVE  Flat(Provided')[a] = IF Wrap(a - addr) < width
                                    THEN ByteAt(value, Wrap(a - addr)) ELSE Flat(Provided)[a]
    <2> DEFINE d == Wrap(a - addr)
    <2>1. Flat(pages')[a] = IF d < width THEN ByteAt(value, d) ELSE Flat(pages)[a]
      BY SameWords DEF Reference!Stored
    <2>2. CASE d < width
      <3>1. a - addr \in Int BY WordInt
      <3>2. d \in Word BY <3>1, WrapType
      <3>3. d \in 0 .. 3 BY <2>2, <3>2, WordInt DEF Word
      <3>4. ByteAt(value, d) \in Byte BY <3>3, ByteAtType
      <3>5. ByteAt(value, d) # -1 BY <3>4, BaseAssumption DEF Byte
      <3> QED BY <2>1, <2>2, <3>5, FlatProvidedNext
    <2>3. CASE ~(d < width) BY <2>1, <2>3, FlatProvided, FlatProvidedNext
    <2> QED BY <2>2, <2>3
  <1>2. Flat(Provided') = [a \in Word |-> Flat(Provided')[a]] BY DEF Flat
  <1>3. Whole!Stored(addr, value, width)
          = [a \in Word |-> IF Wrap(a - addr) < width THEN ByteAt(value, Wrap(a - addr))
                            ELSE Flat(Provided)[a]]
    BY DEF Whole!Stored, Whole!Word, Whole!WordMod, Whole!Wrap, Whole!ByteAt, Whole!HalfMod,
           Word, WordMod, Wrap, ByteAt, HalfMod, Provided
  <1> QED BY <1>1, <1>2, <1>3

(* The tables are the same. *)
LEMMA WholeTables ==
  ASSUME NEW w, NEW f3, NEW f7, NEW a, NEW b, NEW sh
  PROVE  /\ Whole!Wrap(a) = Reference!Wrap(a) /\ Whole!Signed(a) = Reference!Signed(a)
         /\ Whole!SignExtend(a, b) = Reference!SignExtend(a, b)
         /\ Whole!HalfMod = Reference!HalfMod
         /\ Whole!RefImmI(w) = Reference!RefImmI(w) /\ Whole!RefImmS(w) = Reference!RefImmS(w)
         /\ Whole!RefImmB(w) = Reference!RefImmB(w) /\ Whole!RefImmU(w) = Reference!RefImmU(w)
         /\ Whole!RefImmJ(w) = Reference!RefImmJ(w)
         /\ Whole!SystemWord(w, a) = Reference!SystemWord(w, a)
         /\ Whole!LegalImm(f3, f7) = Reference!LegalImm(f3, f7)
         /\ Whole!LegalReg(f3, f7) = Reference!LegalReg(f3, f7)
         /\ Whole!LegalBranch(f3) = Reference!LegalBranch(f3)
         /\ Whole!LegalLoad(f3) = Reference!LegalLoad(f3)
         /\ Whole!LegalStore(f3) = Reference!LegalStore(f3)
         /\ Whole!ImmTable(f3, f7, a, b, sh) = Reference!ImmTable(f3, f7, a, b, sh)
         /\ Whole!RegTable(f3, f7, a, b) = Reference!RegTable(f3, f7, a, b)
         /\ Whole!Take(f3, a, b) = Reference!Take(f3, a, b)
  <1> USE DEF Whole!Wrap, Reference!Wrap, Whole!WordMod, Reference!WordMod, Whole!Signed,
              Reference!Signed, Whole!SignExtend, Reference!SignExtend, Whole!Truth,
              Reference!Truth, Whole!HalfMod, Reference!HalfMod
  <1>1. /\ Whole!Wrap(a) = Reference!Wrap(a) /\ Whole!Signed(a) = Reference!Signed(a)
        /\ Whole!SignExtend(a, b) = Reference!SignExtend(a, b)
        /\ Whole!HalfMod = Reference!HalfMod
    OBVIOUS
  <1>2. /\ Whole!RefImmI(w) = Reference!RefImmI(w) /\ Whole!RefImmS(w) = Reference!RefImmS(w)
        /\ Whole!RefImmB(w) = Reference!RefImmB(w) /\ Whole!RefImmU(w) = Reference!RefImmU(w)
        /\ Whole!RefImmJ(w) = Reference!RefImmJ(w)
    BY DEF Whole!RefImmI, Reference!RefImmI, Whole!RefImmS, Reference!RefImmS, Whole!RefImmB,
           Reference!RefImmB, Whole!RefImmU, Reference!RefImmU, Whole!RefImmJ,
           Reference!RefImmJ, Whole!TopBit, Reference!TopBit, Whole!SignedF7,
           Reference!SignedF7
  <1>3. /\ Whole!SystemWord(w, a) = Reference!SystemWord(w, a)
        /\ Whole!LegalImm(f3, f7) = Reference!LegalImm(f3, f7)
        /\ Whole!LegalReg(f3, f7) = Reference!LegalReg(f3, f7)
        /\ Whole!LegalBranch(f3) = Reference!LegalBranch(f3)
        /\ Whole!LegalLoad(f3) = Reference!LegalLoad(f3)
        /\ Whole!LegalStore(f3) = Reference!LegalStore(f3)
    BY DEF Whole!SystemWord, Reference!SystemWord, Whole!RType, Reference!RType, Whole!OpSystem,
           Reference!OpSystem, Whole!LegalImm, Reference!LegalImm, Whole!LegalReg,
           Reference!LegalReg, Whole!LegalBranch, Reference!LegalBranch, Whole!LegalLoad,
           Reference!LegalLoad, Whole!LegalStore, Reference!LegalStore
  <1>4. Whole!ImmTable(f3, f7, a, b, sh) = Reference!ImmTable(f3, f7, a, b, sh)
    BY DEF Whole!ImmTable, Reference!ImmTable, Whole!Shl, Reference!Shl, Whole!Shr,
           Reference!Shr, Whole!Sar, Reference!Sar
  <1>5. Whole!MulDivTable(f3, a, b) = Reference!MulDivTable(f3, a, b)
    BY DEF Whole!MulDivTable, Reference!MulDivTable
  <1>6. Whole!RegTable(f3, f7, a, b) = Reference!RegTable(f3, f7, a, b)
    BY <1>5 DEF Whole!RegTable, Reference!RegTable, Whole!Shl, Reference!Shl, Whole!Shr,
           Reference!Shr, Whole!Sar, Reference!Sar
  <1>7. Whole!Take(f3, a, b) = Reference!Take(f3, a, b) BY DEF Whole!Take, Reference!Take
  <1> QED BY <1>1, <1>2, <1>3, <1>4, <1>6, <1>7

(***************************************************************************)
(* A step that the host has no part in.                                    *)
(***************************************************************************)
(* A word was fetched, and the step on it does not miss a page of the      *)
(* host's.                                                                 *)
Unaided == PageSize % 4 = 0 /\ Fetching /\ ~PageFault'

(* The whole memory holds the word that was fetched. *)
LEMMA WholeViews ==
  ASSUME Unaided
  PROVE  /\ Reference!FetchAnswer = "Ok" /\ Whole!FetchAnswer = "Ok"
         /\ Whole!W = Reference!W /\ Whole!Va = Reference!Va /\ Whole!Vb = Reference!Vb
         /\ Whole!Step4 = Reference!Step4 /\ Whole!RefWidth = Reference!RefWidth
  <1>1. PageSize % 4 = 0 /\ pc \in Word /\ IsMemory(pages) /\ 4 \in {1, 2, 4} /\ TypeOK
    BY DEF Unaided, Fetching, Inv, TypeOK
  <1>2. Reference!FetchAnswer = "Ok" BY <1>1, SameFetch DEF Unaided, Fetching
  <1>3. pc % 4 = 0 /\ Reference!Check(pc, 4) = "Ok" BY <1>2 DEF Reference!FetchAnswer
  <1>4. /\ Whole!Check(pc, 4) = Reference!Check(pc, 4)
        /\ Whole!LoadedWord(pc, 4) = Reference!LoadedWord(pc, 4)
    BY <1>1, <1>3, WholeMemory
  <1>5. Whole!FetchAnswer = "Ok" BY <1>3, <1>4 DEF Whole!FetchAnswer
  <1>6. Whole!W = Reference!W BY <1>4 DEF Whole!W, Reference!W
  <1>7. Whole!Va = Reference!Va /\ Whole!Vb = Reference!Vb
    BY <1>6 DEF Whole!Va, Reference!Va, Whole!Vb, Reference!Vb, Whole!Get, Reference!Get
  <1>8. Whole!Step4 = Reference!Step4 BY WholeTables DEF Whole!Step4, Reference!Step4
  <1>9. Whole!RefWidth = Reference!RefWidth BY <1>6 DEF Whole!RefWidth, Reference!RefWidth
  <1> QED BY <1>2, <1>5, <1>6, <1>7, <1>8, <1>9

(* Both table's arms are chosen by the same opcode. *)
LEMMA WholeArm == ASSUME Unaided, NEW op, Reference!Arm(op) PROVE Whole!Arm(op)
  BY WholeViews DEF Whole!Arm, Reference!Arm

(* The memory is typed before and after. *)
LEMMA UnaidedTypes ==
  ASSUME Unaided PROVE IsMemory(pages) /\ IsMemory(pages')
  BY DEF Unaided, Fetching, Inv, TypeOK, IsMemory

(* The ways a step can end. *)
LEMMA WholeFail ==
  ASSUME IsMemory(pages), IsMemory(pages'), ~PageFault', NEW trap, Reference!Fail(trap)
  PROVE  Whole!Fail(trap)
  <1>1. Flat(Provided') = Flat(Provided) BY ProvidedKept DEF Reference!Fail
  <1> QED BY <1>1 DEF Reference!Fail, Whole!Fail, Provided

(* A retired instruction. *)
LEMMA WholeSucceed ==
  ASSUME ~PageFault', NEW next, Reference!Succeed(next) PROVE Whole!Succeed(next)
  BY DEF Reference!Succeed, Whole!Succeed

(* Writing a register. *)
LEMMA WholeSet == ASSUME NEW i, NEW v, Reference!Set(i, v) PROVE Whole!Set(i, v)
  BY DEF Reference!Set, Whole!Set

(* Writing rd. *)
LEMMA WholeGive == ASSUME Unaided, NEW v, Reference!Give(v) PROVE Whole!Give(v)
  <1>1. /\ Reference!Set(Whole!W.rd, v) /\ Reference!Succeed(Whole!Step4)
        /\ Flat(pages') = Flat(pages)
    BY WholeViews DEF Reference!Give
  <1>2. Flat(Provided') = Flat(Provided) BY <1>1, UnaidedTypes, ProvidedKept
  <1>3. Whole!Set(Whole!W.rd, v) /\ Whole!Succeed(Whole!Step4)
    BY <1>1, WholeSet, WholeSucceed DEF Unaided
  <1> QED BY <1>2, <1>3 DEF Whole!Give, Provided

(* A jump. *)
LEMMA WholeGoto == ASSUME Unaided, NEW target, Reference!Goto(target) PROVE Whole!Goto(target)
  <1>1. CASE target % 4 # 0
    <2>1. Reference!Fail("Misaligned") BY <1>1 DEF Reference!Goto
    <2>2. Whole!Fail("Misaligned") BY <2>1, UnaidedTypes, WholeFail DEF Unaided
    <2> QED BY <1>1, <2>2 DEF Whole!Goto
  <1>2. CASE target % 4 = 0
    <2>1. /\ Reference!Set(Whole!W.rd, Whole!Step4) /\ Reference!Succeed(target)
          /\ Flat(pages') = Flat(pages)
      BY <1>2, WholeViews DEF Reference!Goto
    <2>2. Flat(Provided') = Flat(Provided) BY <2>1, UnaidedTypes, ProvidedKept
    <2>3. Whole!Set(Whole!W.rd, Whole!Step4) /\ Whole!Succeed(target)
      BY <2>1, WholeSet, WholeSucceed DEF Unaided
    <2> QED BY <1>2, <2>2, <2>3 DEF Whole!Goto, Provided
  <1>3. target % 4 = 0 \/ target % 4 # 0 OBVIOUS
  <1> QED BY <1>1, <1>2, <1>3

(***************************************************************************)
(* Arm by arm, the guest's step is a step over the whole memory.           *)
(***************************************************************************)
(* The opcodes are the same. *)
LEMMA WholeOpcodes ==
  /\ Whole!OpLui = OpLui /\ Whole!OpAuipc = OpAuipc /\ Whole!OpJal = OpJal
  /\ Whole!OpJalr = OpJalr /\ Whole!OpBranch = OpBranch
  /\ Whole!OpLoad = OpLoad /\ Whole!OpStore = OpStore
  /\ Whole!OpImmed = OpImmed /\ Whole!OpReg = OpReg
  /\ Whole!OpFence = OpFence /\ Whole!OpSystem = OpSystem
  BY DEF Whole!OpLui, Whole!OpAuipc, Whole!OpJal, Whole!OpJalr, Whole!OpBranch, Whole!OpLoad,
         Whole!OpStore, Whole!OpImmed, Whole!OpReg, Whole!OpFence, Whole!OpSystem,
         OpLui, OpAuipc, OpJal, OpJalr, OpBranch, OpLoad, OpStore, OpImmed, OpReg, OpFence,
         OpSystem

(* Arithmetic. *)
LEMMA WholeCompute ==
  ASSUME Unaided
  PROVE  /\ Reference!LuiArm => Whole!LuiArm
         /\ Reference!AuipcArm => Whole!AuipcArm
         /\ Reference!ImmArm => Whole!ImmArm
         /\ Reference!RegArm => Whole!RegArm
  <1> DEFINE w == Reference!W
  <1>1. ASSUME Reference!LuiArm PROVE Whole!LuiArm
    <2>1. Whole!Wrap(Whole!RefImmU(Whole!W) * UpperUnit)
            = Reference!Wrap(Reference!RefImmU(w) * UpperUnit)
      BY WholeTables, WholeViews
    <2> QED BY <1>1, <2>1, WholeGive, WholeArm, WholeOpcodes, SameOpcodes
            DEF Whole!LuiArm, Reference!LuiArm
  <1>2. ASSUME Reference!AuipcArm PROVE Whole!AuipcArm
    <2>1. Whole!Wrap(pc + Whole!RefImmU(Whole!W) * UpperUnit)
            = Reference!Wrap(pc + Reference!RefImmU(w) * UpperUnit)
      BY WholeTables, WholeViews
    <2> QED BY <1>2, <2>1, WholeGive, WholeArm, WholeOpcodes, SameOpcodes
            DEF Whole!AuipcArm, Reference!AuipcArm
  <1>3. Reference!Fail("Illegal") => Whole!Fail("Illegal")
    BY UnaidedTypes, WholeFail DEF Unaided
  <1>4. ASSUME Reference!ImmArm PROVE Whole!ImmArm
    <2>1. Whole!W = w /\ Whole!LegalImm(w.f3, w.f7) = Reference!LegalImm(w.f3, w.f7)
      BY WholeTables, WholeViews
    <2>2. Whole!ImmTable(w.f3, w.f7, Whole!Va, Whole!Wrap(Whole!RefImmI(w)), w.rs2 % XLen)
            = Reference!ImmTable(w.f3, w.f7, Reference!Va,
                                 Reference!Wrap(Reference!RefImmI(w)), w.rs2 % XLen)
      BY WholeTables, WholeViews
    <2> QED BY <1>3, <1>4, <2>1, <2>2, WholeGive, WholeArm, WholeOpcodes, SameOpcodes
            DEF Whole!ImmArm, Reference!ImmArm
  <1>5. ASSUME Reference!RegArm PROVE Whole!RegArm
    <2>1. Whole!W = w /\ Whole!LegalReg(w.f3, w.f7) = Reference!LegalReg(w.f3, w.f7)
      BY WholeTables, WholeViews
    <2>2. Whole!RegTable(w.f3, w.f7, Whole!Va, Whole!Vb)
            = Reference!RegTable(w.f3, w.f7, Reference!Va, Reference!Vb)
      BY WholeTables, WholeViews
    <2> QED BY <1>3, <1>5, <2>1, <2>2, WholeGive, WholeArm, WholeOpcodes, SameOpcodes
            DEF Whole!RegArm, Reference!RegArm
  <1> QED BY <1>1, <1>2, <1>4, <1>5

(* Jumps. *)
LEMMA WholeJump ==
  ASSUME Unaided
  PROVE  /\ Reference!JalArm => Whole!JalArm
         /\ Reference!JalrArm => Whole!JalrArm
  <1> DEFINE w == Reference!W
             sum == Reference!Wrap(Reference!Signed(Reference!Va) + Reference!RefImmI(w))
  <1>1. Whole!W = w BY WholeViews
  <1>2. ASSUME Reference!JalArm PROVE Whole!JalArm
    <2>1. Whole!Wrap(Whole!Signed(pc) + Whole!RefImmJ(w))
            = Reference!Wrap(Reference!Signed(pc) + Reference!RefImmJ(w))
      BY WholeTables
    <2> QED BY <1>1, <1>2, <2>1, WholeGoto, WholeArm, WholeOpcodes, SameOpcodes
            DEF Whole!JalArm, Reference!JalArm
  <1>3. ASSUME Reference!JalrArm PROVE Whole!JalrArm
    <2>1. Whole!Wrap(Whole!Signed(Whole!Va) + Whole!RefImmI(w)) = sum
      BY WholeTables, WholeViews
    <2>2. Whole!Arm(Whole!OpJalr)
      BY <1>3, WholeArm, WholeOpcodes, SameOpcodes DEF Reference!JalrArm
    <2>3. CASE w.f3 # 0
      <3>1. Reference!Fail("Illegal") BY <1>3, <2>3 DEF Reference!JalrArm
      <3>2. Whole!Fail("Illegal") BY <3>1, UnaidedTypes, WholeFail DEF Unaided
      <3> QED BY <1>1, <2>2, <2>3, <3>2 DEF Whole!JalrArm
    <2>4. CASE w.f3 = 0
      <3>1. Reference!Goto(2 * (sum \div 2)) BY <1>3, <2>4 DEF Reference!JalrArm
      <3>2. Whole!Goto(2 * (sum \div 2)) BY <3>1, WholeGoto
      <3> QED BY <1>1, <2>1, <2>2, <2>4, <3>2 DEF Whole!JalrArm
    <2> QED BY <2>3, <2>4
  <1> QED BY <1>2, <1>3

(* Branches. *)
LEMMA WholeBranch == ASSUME Unaided, Reference!BranchArm PROVE Whole!BranchArm
  <1> DEFINE w == Reference!W
             target == Reference!Wrap(Reference!Signed(pc) + Reference!RefImmB(w))
             taken == Reference!Take(w.f3, Reference!Va, Reference!Vb)
             legal == Reference!LegalBranch(w.f3)
  <1>1. Whole!W = w BY WholeViews
  <1>2. /\ Whole!Wrap(Whole!Signed(pc) + Whole!RefImmB(w)) = target
        /\ Whole!Take(w.f3, Whole!Va, Whole!Vb) = taken /\ Whole!LegalBranch(w.f3) = legal
    BY WholeTables, WholeViews
  <1>3. Whole!Arm(Whole!OpBranch)
    BY WholeArm, WholeOpcodes, SameOpcodes DEF Reference!BranchArm
  <1>4. ASSUME Shown' = Shown, Flat(pages') = Flat(pages)
        PROVE  Shown' = Shown /\ Flat(Allocated(pages', Backing)) = Flat(Allocated(pages, Backing))
    BY <1>4, UnaidedTypes, ProvidedKept DEF Provided
  <1>5. CASE ~legal
    <2>1. Reference!Fail("Illegal") BY <1>5 DEF Reference!BranchArm
    <2>2. Whole!Fail("Illegal") BY <2>1, UnaidedTypes, WholeFail DEF Unaided
    <2> QED BY <1>1, <1>2, <1>3, <1>5, <2>2 DEF Whole!BranchArm
  <1>6. CASE legal /\ ~taken
    <2>1. /\ Reference!Succeed(Whole!Step4) /\ Shown' = Shown /\ Flat(pages') = Flat(pages)
      BY <1>6, WholeViews DEF Reference!BranchArm
    <2>2. Whole!Succeed(Whole!Step4) BY <2>1, WholeSucceed DEF Unaided
    <2> QED BY <1>1, <1>2, <1>3, <1>4, <1>6, <2>1, <2>2 DEF Whole!BranchArm
  <1>7. CASE legal /\ taken /\ target % 4 # 0
    <2>1. Reference!Fail("Misaligned") BY <1>7 DEF Reference!BranchArm
    <2>2. Whole!Fail("Misaligned") BY <2>1, UnaidedTypes, WholeFail DEF Unaided
    <2> QED BY <1>1, <1>2, <1>3, <1>7, <2>2 DEF Whole!BranchArm
  <1>8. CASE legal /\ taken /\ target % 4 = 0
    <2>1. Reference!Succeed(target) /\ Shown' = Shown /\ Flat(pages') = Flat(pages)
      BY <1>8 DEF Reference!BranchArm
    <2>2. Whole!Succeed(target) BY <2>1, WholeSucceed DEF Unaided
    <2> QED BY <1>1, <1>2, <1>3, <1>4, <1>8, <2>1, <2>2 DEF Whole!BranchArm
  <1> QED BY <1>5, <1>6, <1>7, <1>8

(* Fence, the system words, and the rest. *)
LEMMA WholeRest ==
  ASSUME Unaided
  PROVE  /\ Reference!FenceArm => Whole!FenceArm
         /\ Reference!SystemArm => Whole!SystemArm
         /\ Reference!OtherArm => Whole!OtherArm
  <1> DEFINE w == Reference!W
  <1>1. Whole!W = w BY WholeViews
  <1>2. ASSUME Reference!FenceArm PROVE Whole!FenceArm
    <2>1. /\ w.f3 = 0 /\ Whole!Arm(Whole!OpFence)
      BY <1>2, WholeArm, WholeOpcodes, SameOpcodes DEF Reference!FenceArm
    <2>2. Reference!Succeed(Whole!Step4) /\ Shown' = Shown /\ Flat(pages') = Flat(pages)
      BY <1>2, WholeViews DEF Reference!FenceArm
    <2>3. Whole!Succeed(Whole!Step4) BY <2>2, WholeSucceed DEF Unaided
    <2>4. Flat(Provided') = Flat(Provided) BY <2>2, UnaidedTypes, ProvidedKept
    <2> QED BY <1>1, <2>1, <2>2, <2>3, <2>4 DEF Whole!FenceArm, Provided
  <1>3. ASSUME NEW trap, Reference!Fail(trap) PROVE Whole!Fail(trap)
    BY <1>3, UnaidedTypes, WholeFail DEF Unaided
  <1>4. ASSUME Reference!SystemArm PROVE Whole!SystemArm
    <2>1. /\ Whole!SystemWord(w, 0) = Reference!SystemWord(w, 0)
          /\ Whole!SystemWord(w, 1) = Reference!SystemWord(w, 1)
      BY WholeTables
    <2>2. Whole!Arm(Whole!OpSystem)
      BY <1>4, WholeArm, WholeOpcodes, SameOpcodes DEF Reference!SystemArm
    <2> DEFINE trap == CASE Reference!SystemWord(w, 0) -> "Ecall"
                         [] Reference!SystemWord(w, 1) -> "Ebreak"
                         [] OTHER -> "Illegal"
    <2>3. Reference!Fail(trap) BY <1>4, Zenon DEF Reference!SystemArm
    <2>4. Whole!Fail(trap) BY <1>3, <2>3
    <2> QED BY <1>1, <2>1, <2>2, <2>4, Zenon DEF Whole!SystemArm
  <1>5. ASSUME Reference!OtherArm PROVE Whole!OtherArm
    <2>1. Whole!Fail("Illegal") BY <1>3, <1>5 DEF Reference!OtherArm
    <2> QED BY <1>1, <1>5, <2>1, WholeViews, WholeOpcodes, SameOpcodes
            DEF Whole!OtherArm, Reference!OtherArm
  <1> QED BY <1>2, <1>4, <1>5

(* What a load or a store addresses, on both sides. *)
LEMMA DataDecoded ==
  ASSUME Fetching
  PROVE  /\ Reference!W.op = OpLoad /\ Reference!LegalLoad(Reference!W.f3) =>
              /\ Current.kind = "Load" /\ Width(Current.op) = Reference!RefWidth
              /\ EffectiveAddr(Current) \in Word
              /\ EffectiveAddr(Current)
                   = Reference!Wrap(Reference!Signed(Reference!Va)
                                      + Reference!RefImmI(Reference!W))
         /\ Reference!W.op = OpStore /\ Reference!LegalStore(Reference!W.f3) =>
              /\ Current.kind = "Store" /\ Width(Current.op) = Reference!RefWidth
              /\ EffectiveAddr(Current) \in Word
              /\ EffectiveAddr(Current)
                   = Reference!Wrap(Reference!Signed(Reference!Va)
                                      + Reference!RefImmS(Reference!W))
  <1> DEFINE f3 == WordAtPc.f3
  <1>1. Reference!W = WordAtPc BY WordFacts
  <1>2. ASSUME NEW n \in Int
        PROVE  /\ Wrap(R(WordAtPc.rs1) + n) \in Word
               /\ Reference!Wrap(Reference!Signed(Reference!Va) + n) = Wrap(R(WordAtPc.rs1) + n)
    <2>1. R(WordAtPc.rs1) + n \in Int BY WordFacts, WordInt
    <2> QED BY <2>1, WordFacts, SameSum, WrapType
  <1>3. ASSUME WordAtPc.op = OpLoad, Reference!LegalLoad(f3)
        PROVE  /\ Current.kind = "Load" /\ Width(Current.op) = Reference!RefWidth
               /\ EffectiveAddr(Current) \in Word
               /\ EffectiveAddr(Current)
                    = Reference!Wrap(Reference!Signed(Reference!Va)
                                       + Reference!RefImmI(WordAtPc))
    <2> DEFINE imm == RefImmI(WordAtPc)
    <2>1. ImmI(WordAtPc) = imm /\ Reference!RefImmI(WordAtPc) = imm /\ imm \in Int
      BY WordFacts, SameImmediates, SameTables, ImmediateType
    <2>2. LegalLoad(f3) /\ LoadOpOf(f3) # "None" BY <1>3, WordFacts, SameOps, SameTables
    <2>3. Current = [kind |-> "Load", op |-> LoadOpOf(f3), rd |-> WordAtPc.rd,
                     rs1 |-> WordAtPc.rs1, imm |-> imm]
      BY <1>3, <2>1, <2>2, WordFacts, DecodeLoad
    <2>4. EffectiveAddr(Current) = Wrap(R(WordAtPc.rs1) + imm) BY <2>3 DEF EffectiveAddr
    <2> QED BY <1>2, <2>1, <2>2, <2>3, <2>4, SameWidth
  <1>4. ASSUME WordAtPc.op = OpStore, Reference!LegalStore(f3)
        PROVE  /\ Current.kind = "Store" /\ Width(Current.op) = Reference!RefWidth
               /\ EffectiveAddr(Current) \in Word
               /\ EffectiveAddr(Current)
                    = Reference!Wrap(Reference!Signed(Reference!Va)
                                       + Reference!RefImmS(WordAtPc))
    <2> DEFINE imm == RefImmS(WordAtPc)
    <2>1. ImmS(WordAtPc) = imm /\ Reference!RefImmS(WordAtPc) = imm /\ imm \in Int
      BY WordFacts, SameImmediates, SameTables, ImmediateType
    <2>2. LegalStore(f3) /\ StoreOpOf(f3) # "None" BY <1>4, WordFacts, SameOps, SameTables
    <2>3. Current = [kind |-> "Store", op |-> StoreOpOf(f3), rs1 |-> WordAtPc.rs1,
                     rs2 |-> WordAtPc.rs2, imm |-> imm]
      BY <1>4, <2>1, <2>2, WordFacts, DecodeStore
    <2>4. EffectiveAddr(Current) = Wrap(R(WordAtPc.rs1) + imm) BY <2>3 DEF EffectiveAddr
    <2> QED BY <1>2, <2>1, <2>2, <2>3, <2>4, SameWidth
  <1> QED BY <1>1, <1>3, <1>4

(* A trap that is not a missing page of the host's says so of its page.    *)
LEMMA NotProvided ==
  ASSUME PageSize % 4 = 0, TypeOK, NEW addr \in Word, NEW width \in {1, 2, 4},
         Reference!Check(addr, width) = "Fault",
         ~PageFault', res' = Access(pages, addr, width, pc)
  PROVE  PageOf(addr) \notin Backing
  <1>1. Reason(Access(pages, addr, width, pc)) = "Fault" BY SameCheck DEF TypeOK
  <1>2. Access(pages, addr, width, pc).kind = "AccessFault" BY <1>1, AccessKind DEF Reason
  <1>3. PageOf(Access(pages, addr, width, pc).addr) = PageOf(addr) BY <1>2, FaultingPage
  <1> QED BY <1>2, <1>3 DEF PageFault

(* Loads and stores. *)
LEMMA WholeData ==
  ASSUME Unaided, Answering
  PROVE  /\ Reference!LoadArm => Whole!LoadArm
         /\ Reference!StoreArm => Whole!StoreArm
  <1> DEFINE w == Reference!W
             width == Reference!RefWidth
  <1>1. /\ Whole!W = w /\ Whole!Va = Reference!Va /\ Whole!Vb = Reference!Vb
        /\ Whole!RefWidth = width /\ Whole!Step4 = Reference!Step4
    BY WholeViews
  <1>2. ASSUME NEW trap, Reference!Fail(trap) PROVE Whole!Fail(trap)
    BY <1>2, UnaidedTypes, WholeFail DEF Unaided
  <1>3. PageSize % 4 = 0 /\ TypeOK /\ IsMemory(pages) /\ Fetching /\ ~PageFault'
    BY DEF Unaided, Fetching, Inv, TypeOK
  <1>4. width \in {1, 2, 4} BY DEF Reference!RefWidth
  <1>5. ASSUME NEW addr \in Word, addr = EffectiveAddr(Current), Width(Current.op) = width,
               Current.kind \in {"Load", "Store"}
        PROVE  /\ Whole!Check(addr, width) = Reference!Check(addr, width)
               /\ Reference!Check(addr, width) = "Ok" =>
                    Whole!LoadedWord(addr, width) = Reference!LoadedWord(addr, width)
    <2>1. DataOutcome(Current) = Access(pages, addr, width, pc) BY <1>5 DEF DataOutcome
    <2>2. ASSUME Reference!Check(addr, width) = "Fault" PROVE PageOf(addr) \notin Backing
      <3>1. Reason(Access(pages, addr, width, pc)) = "Fault" BY <1>3, <1>4, <2>2, SameCheck
      <3>2. DataOutcome(Current) # Ok BY <2>1, <3>1 DEF Reason, Ok
      <3>3. res' = DataOutcome(Current)
        <4>1. Load(Current) \/ Store(Current) BY <1>5, KindActs
        <4> QED BY <3>2, <4>1 DEF Load, Store, RaiseOnly, Raise
      <3> QED BY <1>3, <1>4, <2>1, <2>2, <3>3, NotProvided
    <2> QED BY <1>3, <1>4, <2>2, WholeMemory
  <1>6. ASSUME Reference!LoadArm PROVE Whole!LoadArm
    <2> DEFINE addr == Reference!Wrap(Reference!Signed(Reference!Va) + Reference!RefImmI(w))
               raw == Reference!LoadedWord(addr, width)
               value == CASE w.f3 = 0 -> Reference!Wrap(Reference!SignExtend(raw, Base))
                          [] w.f3 = 1 -> Reference!Wrap(Reference!SignExtend(raw, Reference!HalfMod))
                          [] OTHER -> raw
    <2>1. /\ Whole!Wrap(Whole!Signed(Whole!Va) + Whole!RefImmI(w)) = addr
          /\ Whole!LegalLoad(w.f3) = Reference!LegalLoad(w.f3)
      BY WholeTables, WholeViews
    <2>2. /\ Whole!Wrap(Whole!SignExtend(raw, Base)) = Reference!Wrap(Reference!SignExtend(raw, Base))
          /\ Whole!Wrap(Whole!SignExtend(raw, Whole!HalfMod))
               = Reference!Wrap(Reference!SignExtend(raw, Reference!HalfMod))
      BY WholeTables
    <2>3. w.op = OpLoad /\ Whole!Arm(Whole!OpLoad)
      BY <1>6, WholeArm, WholeOpcodes, SameOpcodes DEF Reference!LoadArm, Reference!Arm
    <2>4. IF ~Reference!LegalLoad(w.f3) THEN Reference!Fail("Illegal")
          ELSE IF Reference!Check(addr, width) # "Ok"
            THEN Reference!Fail(Reference!Check(addr, width))
          ELSE Reference!Give(value)
      BY <1>6, Zenon DEF Reference!LoadArm
    <2>5. ASSUME Reference!LegalLoad(w.f3)
          PROVE  /\ Whole!Check(addr, width) = Reference!Check(addr, width)
                 /\ Reference!Check(addr, width) = "Ok" => Whole!LoadedWord(addr, width) = raw
      <3>1. PICK a \in Word : a = addr /\ a = EffectiveAddr(Current)
        BY <1>3, <2>3, <2>5, DataDecoded
      <3>2. Width(Current.op) = width /\ Current.kind \in {"Load", "Store"}
        BY <1>3, <2>3, <2>5, DataDecoded
      <3> QED BY <1>5, <3>1, <3>2
    <2>6. ASSUME ~Reference!LegalLoad(w.f3) PROVE Whole!LoadArm
      <3>1. Whole!Fail("Illegal") BY <1>2, <2>4, <2>6
      <3> QED BY <1>1, <2>1, <2>3, <2>6, <3>1, Zenon DEF Whole!LoadArm
    <2>7. ASSUME Reference!LegalLoad(w.f3), Reference!Check(addr, width) # "Ok"
          PROVE  Whole!LoadArm
      <3>1. Whole!Fail(Reference!Check(addr, width)) BY <1>2, <2>4, <2>7
      <3> QED BY <1>1, <2>1, <2>3, <2>5, <2>7, <3>1, Zenon DEF Whole!LoadArm
    <2>8. ASSUME Reference!LegalLoad(w.f3), Reference!Check(addr, width) = "Ok"
          PROVE  Whole!LoadArm
      <3>1. Whole!Give(value) BY <2>4, <2>8, WholeGive
      <3>2. Whole!Check(addr, width) = "Ok" /\ Whole!LoadedWord(addr, width) = raw
        BY <2>5, <2>8
      <3> QED BY <1>1, <2>1, <2>2, <2>3, <2>8, <3>1, <3>2, Zenon DEF Whole!LoadArm
    <2> QED BY <2>6, <2>7, <2>8
  <1>7. ASSUME Reference!StoreArm PROVE Whole!StoreArm
    <2> DEFINE addr == Reference!Wrap(Reference!Signed(Reference!Va) + Reference!RefImmS(w))
    <2>1. /\ Whole!Wrap(Whole!Signed(Whole!Va) + Whole!RefImmS(w)) = addr
          /\ Whole!LegalStore(w.f3) = Reference!LegalStore(w.f3)
      BY WholeTables, WholeViews
    <2>3. w.op = OpStore /\ Whole!Arm(Whole!OpStore)
      BY <1>7, WholeArm, WholeOpcodes, SameOpcodes DEF Reference!StoreArm, Reference!Arm
    <2>4. IF ~Reference!LegalStore(w.f3) THEN Reference!Fail("Illegal")
          ELSE IF Reference!Check(addr, width) # "Ok"
            THEN Reference!Fail(Reference!Check(addr, width))
          ELSE /\ Flat(pages)' = Reference!Stored(addr, Reference!Vb, width)
               /\ Reference!Succeed(Reference!Step4) /\ Shown' = Shown
      BY <1>7, Zenon DEF Reference!StoreArm
    <2>5. ASSUME Reference!LegalStore(w.f3)
          PROVE  addr \in Word /\ Whole!Check(addr, width) = Reference!Check(addr, width)
      <3>1. PICK a \in Word : a = addr /\ a = EffectiveAddr(Current)
        BY <1>3, <2>3, <2>5, DataDecoded
      <3>2. Width(Current.op) = width /\ Current.kind \in {"Load", "Store"}
        BY <1>3, <2>3, <2>5, DataDecoded
      <3> QED BY <1>5, <3>1, <3>2
    <2>6. ASSUME ~Reference!LegalStore(w.f3) PROVE Whole!StoreArm
      <3>1. Whole!Fail("Illegal") BY <1>2, <2>4, <2>6
      <3> QED BY <1>1, <2>1, <2>3, <2>6, <3>1, Zenon DEF Whole!StoreArm
    <2>7. ASSUME Reference!LegalStore(w.f3), Reference!Check(addr, width) # "Ok"
          PROVE  Whole!StoreArm
      <3>1. Whole!Fail(Reference!Check(addr, width)) BY <1>2, <2>4, <2>7
      <3> QED BY <1>1, <2>1, <2>3, <2>5, <2>7, <3>1, Zenon DEF Whole!StoreArm
    <2>8. ASSUME Reference!LegalStore(w.f3), Reference!Check(addr, width) = "Ok"
          PROVE  Whole!StoreArm
      <3>1. Whole!Succeed(Reference!Step4) /\ Shown' = Shown
        BY <1>3, <2>4, <2>8, WholeSucceed
      <3>2. PICK a \in Word, n \in {1, 2, 4}, v \in Word :
              a = addr /\ n = width /\ v = Reference!Vb
        BY <1>3, <1>4, <2>5, <2>8, WordFacts
      <3>3. Flat(pages') = Reference!Stored(a, v, n) BY <2>4, <2>8, <3>2
      <3>4. Flat(Provided') = Whole!Stored(a, v, n) BY <3>3, UnaidedTypes, WholeStored
      <3>5. Flat(Allocated(pages', Backing)) = Whole!Stored(addr, Reference!Vb, width)
        BY <3>2, <3>4 DEF Provided
      <3> HIDE DEF addr, width, w
      <3> QED BY <1>1, <2>1, <2>3, <2>5, <2>8, <3>1, <3>5, Zenon DEF Whole!StoreArm
    <2> QED BY <2>6, <2>7, <2>8
  <1> QED BY <1>6, <1>7

(***************************************************************************)
(* The refinement: a step is one of the whole machine, or not seen at all. *)
(***************************************************************************)
(* A step that the host has no part in is one of the whole machine.        *)
LEMMA WholeStep ==
  ASSUME PageSize % 4 = 0, Inv, Iterate, ~PageFault' PROVE Whole!RefNext
  <1>1. Inv' /\ Reference!RefNext BY StepInv, IterateRefines
  <1>2. CASE FetchFault
    <2>1. pc \in Word /\ IsMemory(pages) /\ IsMemory(pages') /\ TypeOK /\ 4 \in {1, 2, 4}
      BY <1>1 DEF Inv, TypeOK, IsMemory
    <2>2. Reference!FetchAnswer = Reason(FetchOutcome) /\ RaiseOnly(FetchOutcome)
      BY <1>2, <2>1, SameFetch DEF FetchFault
    <2>3. Reference!Fail(Reference!FetchAnswer) BY <2>2, FailsOnly
    <2>4. Reference!FetchAnswer # "Ok"
      <3>1. CASE pc % 4 # 0 BY <3>1 DEF Reference!FetchAnswer
      <3>2. CASE pc % 4 = 0
        <4>1. FetchOutcome = Access(pages, pc, 4, pc) /\ FetchOutcome # Ok
          BY <1>2, <3>2 DEF FetchOutcome, FetchFault
        <4> QED BY <2>1, <2>2, <4>1, AccessOkKind, AccessKind DEF Reason
      <3> QED BY <3>1, <3>2
    <2>5. Whole!FetchAnswer = Reference!FetchAnswer
      <3>1. CASE pc % 4 # 0 BY <3>1 DEF Whole!FetchAnswer, Reference!FetchAnswer
      <3>2. CASE pc % 4 = 0
        <4>1. res' = Access(pages, pc, 4, pc)
          BY <2>2, <3>2 DEF FetchOutcome, RaiseOnly, Raise
        <4>2. Whole!Check(pc, 4) = Reference!Check(pc, 4)
          BY <2>1, <4>1, NotProvided, WholeMemory
        <4> QED BY <3>2, <4>2 DEF Whole!FetchAnswer, Reference!FetchAnswer
      <3> QED BY <3>1, <3>2
    <2>6. Whole!Fail(Whole!FetchAnswer) BY <2>1, <2>3, <2>5, WholeFail
    <2> QED BY <2>4, <2>5, <2>6 DEF Whole!FetchArm, Whole!RefNext
  <1>3. CASE FetchOutcome = Ok /\ Answering
    <2>1. Unaided BY <1>1, <1>3 DEF Unaided, Fetching
    <2>2. ~Reference!FetchArm BY <2>1, WholeViews DEF Reference!FetchArm
    <2> QED BY <1>1, <1>3, <2>1, <2>2, WholeCompute, WholeJump, WholeBranch, WholeData,
               WholeRest DEF Reference!RefNext, Whole!RefNext
  <1> QED BY <1>2, <1>3 DEF Iterate, Step, Answering

(* A step that misses a page of the host's is not seen.                    *)
LEMMA FaultUnseen ==
  ASSUME PageSize % 4 = 0, Inv, HostStands, Iterate, PageFault'
  PROVE  UNCHANGED Whole!refVars
  <1>1. res' # Ok BY DEF PageFault, Ok
  <1>2. UNCHANGED hartVars /\ \A t : TrapDue(t) <=> t = res' BY <1>1, StepVerdict
  <1>3. PageFault \/ res = Ok
    <2>1. ASSUME res # Ok, ~PageFault PROVE FALSE
      <3>1. res = res' BY <1>2, <2>1 DEF HostStands
      <3> QED BY <2>1, <3>1 DEF PageFault
    <2> QED BY <2>1
  <1>4. (IF PageFault THEN "Ok" ELSE Reason(res)) = "Ok" BY <1>3 DEF Reason, Ok
  <1> QED BY <1>2, <1>4 DEF Whole!refVars, hartVars, Shown

(* Calling run is not seen. *)
LEMMA CallsUnseen ==
  ASSUME Call \/ Exhausted \/ UNCHANGED vars PROVE UNCHANGED Whole!refVars
  <1>1. regs' = regs /\ pc' = pc /\ pages' = pages /\ res' = res
    BY DEF Call, Exhausted, vars, hartVars
  <1> QED BY <1>1 DEF Whole!refVars, Shown, PageFault

(* Bringing in a page is not seen. *)
LEMMA TouchUnseen == ASSUME Inv, Provide PROVE UNCHANGED Whole!refVars
  <1>1. Flat(Allocated(pages', Backing)) = Flat(Allocated(pages, Backing))
    BY ProvideUnseen DEF Provided
  <1>2. regs' = regs /\ pc' = pc /\ res' = res BY DEF Provide
  <1> QED BY <1>1, <1>2 DEF Whole!refVars, Shown, PageFault

(* Answering the guest is the edit it stands for. *)
LEMMA ServeSeen ==
  ASSUME Inv, NEW a \in Answers, Serve(a)
  PROVE  Whole!Edited(a.index % 32, a.value, Next4)
  <1>1. Inv' BY ServeInv
  <1>2. /\ res.kind \in {"EnvironmentCall", "Breakpoint", "IllegalInstruction"} /\ res' = Ok
        /\ pages' = pages /\ pc' = Next4 /\ SetReg(a.index % 32, a.value)
    BY DEF Serve
  <1>3. ~PageFault /\ Reason(res) # "Ok" BY <1>2 DEF PageFault, Reason
  <1>4. ~PageFault' /\ Reason(res') = "Ok" BY <1>2 DEF PageFault, Reason, Ok
  <1>5. Whole!Set(a.index % 32, a.value) BY <1>1, <1>2, SameSet, WholeSet
  <1> QED BY <1>2, <1>3, <1>4, <1>5 DEF Whole!Edited

(* The whole machine starts where the guest does. *)
LEMMA WholeStart == Init => Whole!RefInit
  <1> SUFFICES ASSUME Init PROVE Whole!RefInit OBVIOUS
  <1>1. Inv BY InitInv
  <1>2. Shown = regs /\ regs \in [Reg -> Word] /\ regs[0] = 0 /\ pc \in Word
    BY <1>1, ShownIsStored DEF Inv, TypeOK, ZeroRegister
  <1>3. Flat(Provided) \in [Word -> Byte \cup {-1}]
    <2>1. IsMemory(Provided)
      BY <1>1, HostAssumption, AllocatedFacts DEF Provided, Inv, TypeOK
    <2>2. \A a \in Word : Flat(Provided)[a] \in Byte \cup {-1} BY <2>1, FlatAt
    <2> QED BY <2>2 DEF Flat
  <1>4. ~PageFault /\ Reason(res) = "Ok" BY DEF Init, Reason, Ok, PageFault
  <1>5. Whole!Word = Word /\ Whole!Byte = Byte /\ Whole!Reg = Reg /\ Whole!NoByte = -1
    BY DEF Whole!Word, Whole!WordMod, Whole!Byte, Whole!Reg, Whole!NoByte, Word, WordMod,
           Byte, Reg
  <1> QED BY <1>2, <1>3, <1>4, <1>5 DEF Whole!RefInit, Provided

(* A guest cannot tell whether its pages were there from the start or were *)
(* brought in one fault at a time (mem.rs 36-41, 54-93, hart.rs 49-55,     *)
(* 71-95, exec.rs 150-178): for every set of pages the host provides,      *)
(* every answer it gives, every image and budget.                          *)
THEOREM FaultsAreHidden ==
  ASSUME PageSize % 4 = 0 PROVE HostSpec => FaultsAreInvisible
  <1> DEFINE HostInv == Inv /\ HostStands
             Seen == Whole!RefNext \/ \E a \in Answers : Whole!Edited(a.index % 32, a.value, Next4)
  <1>1. Init => HostInv
    <2>1. Init => HostStands BY DEF Init, HostStands
    <2> QED BY <2>1, InitInv
  <1>2. HostInv /\ [HostNext]_vars => HostInv'
    BY HostKeepsInv, HostStandsStep
  <1>3. HostInv /\ [HostNext]_vars => [Seen]_Whole!refVars
    <2> SUFFICES ASSUME HostInv, [HostNext]_vars PROVE Seen \/ UNCHANGED Whole!refVars
      OBVIOUS
    <2>1. CASE Iterate BY <2>1, WholeStep, FaultUnseen
    <2>2. CASE Call \/ Exhausted \/ UNCHANGED vars BY <2>2, CallsUnseen
    <2>3. CASE Provide BY <2>3, TouchUnseen
    <2>4. CASE \E a \in Answers : Serve(a) BY <2>4, ServeSeen
    <2> QED BY <2>1, <2>2, <2>3, <2>4 DEF HostNext, Next
  <1>4. Init => Whole!RefInit BY WholeStart
  <1> QED BY <1>1, <1>2, <1>3, <1>4, PTL DEF HostSpec, FaultsAreInvisible

(***************************************************************************)
(* What a call of run has left, and that it goes down.                     *)
(***************************************************************************)
(* Inside a call a step returns, or spends one unit of the fuel that only  *)
(* the call itself sets.                                                   *)
Spends ==
  mode = "Running" => /\ UNCHANGED callVars
                      /\ \/ mode' # "Running" /\ fuel' = fuel
                         \/ mode' = "Running" /\ fuel' \in Nat /\ fuel' < fuel

(* A call of run comes to an end whatever the guest computes and whatever  *)
(* a host does between calls: each step inside it returns or leaves less   *)
(* of the budget (hart.rs 71-96).                                          *)
THEOREM CallsRunOut == HostSpec => [][Spends]_vars
  <1>1. Inv /\ [HostNext]_vars => [Spends]_vars
    <2> SUFFICES ASSUME Inv, HostNext PROVE Spends \/ UNCHANGED vars OBVIOUS
    <2>1. fuel \in Nat BY DEF Inv, TypeOK
    <2>2. CASE Iterate
      <3>1. mode = "Running" => fuel > 0 BY <2>1, <2>2 DEF Iterate
      <3>2. mode = "Running" BY <2>2 DEF Iterate
      <3> QED BY <2>1, <2>2, <3>1, <3>2, StepEnds DEF Spends
    <2>3. CASE Exhausted BY <2>3 DEF Exhausted, Spends, callVars
    <2>4. CASE Call BY <2>4 DEF Call, Spends
    <2>5. CASE Provide BY <2>5 DEF Provide, Spends
    <2>6. CASE \E a \in Answers : Serve(a) BY <2>6 DEF Serve, Spends
    <2> QED BY <2>2, <2>3, <2>4, <2>5, <2>6 DEF HostNext, Next
  <1>2. Inv /\ [HostNext]_vars => Inv' BY HostKeepsInv
  <1>3. Init => Inv BY InitInv
  <1> QED BY <1>1, <1>2, <1>3, PTL DEF HostSpec
=============================================================================
