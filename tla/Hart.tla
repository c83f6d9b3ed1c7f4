-------------------------------- MODULE Hart --------------------------------
(***************************************************************************)
(* The primary interpreter: hart.rs and the executor of exec.rs, driven    *)
(* through `run` by a caller that may call it again after it returns.      *)
(*                                                                         *)
(* One action is one iteration of run's loop, that is one call of step:    *)
(* fetch, decode, execute.  The interpreter is sequential, so nothing can  *)
(* interleave with a step; what can go wrong is inside one (state changed  *)
(* before a trap is raised) and along a sequence of them.                  *)
(***************************************************************************)
EXTENDS HartMemory, Alu, Decode

CONSTANTS
  FieldsOf(_),  \* the fields of an instruction word
  UpperUnit,    \* the weight of an upper immediate: 4096 in the program
  Images,       \* the machines a caller may start from
  Budgets,      \* the step budgets a caller may pass to run
  MaxCalls      \* bound on the number of calls of run

ASSUME EncodingAssumption ==
  /\ \A word \in Word : FieldsOf(word) \in Fields
  /\ UpperUnit \in Nat

(* A machine before the first call: Hart::new, then set_reg, write_slice   *)
(* and assignments to the public pc by the caller or the loader.           *)
ASSUME ImagesAssumption ==
  \A m \in Images : /\ m.regs \in [Reg -> Word]
                    /\ m.regs[0] = 0
                    /\ m.pc \in Word
                    /\ IsMemory(m.pages)

ASSUME BudgetAssumption == Budgets \subseteq Nat /\ MaxCalls \in Nat

VARIABLES
  regs,    \* the register file, x0 included
  pc,
  steps,   \* instructions retired
  res,     \* what the last step answered
  mode,    \* "Idle" before any call, "Running" inside run, else its answer
  fuel,    \* iterations left in the current run
  calls,   \* calls of run so far
  budget,  \* history: max_steps of the current run
  start    \* history: steps when the current run was called

hartVars == <<regs, pc, pages, steps>>
callVars == <<calls, budget, start>>
vars == <<regs, pc, pages, steps, res, mode, fuel, calls, budget, start>>

(***************************************************************************)
(* Traps.                                                                  *)
(***************************************************************************)
IllegalInstruction(word) == [kind |-> "IllegalInstruction", pc |-> pc, word |-> word]

SystemTrap(kind) == [kind |-> kind, pc |-> pc]

Outcome ==
  {Ok} \cup [kind : {"IllegalInstruction"}, pc : Word, word : Word]
       \cup [kind : {"MisalignedAccess"}, pc : Word, addr : Word, width : {1, 2, 4}]
       \cup [kind : {"AccessFault"}, pc : Word, addr : Word]
       \cup [kind : {"EnvironmentCall", "Breakpoint"}, pc : Word]

(***************************************************************************)
(* Registers.                                                              *)
(***************************************************************************)
R(i) == IF i = 0 THEN 0 ELSE regs[i]

(* Mutant: set_reg without its guard. *)
SetRegUnguarded(i, value) == regs' = [regs EXCEPT ![i] = value]

SetReg(i, value) == regs' = IF i = 0 THEN regs ELSE [regs EXCEPT ![i] = value]

(***************************************************************************)
(* How a step ends.                                                        *)
(***************************************************************************)

(* An instruction completes: step answers Ok and run's loop goes round.    *)
Retire(next) ==
  /\ pc' = next
  /\ steps' = steps + 1
  /\ res' = Ok
  /\ fuel' = fuel - 1
  /\ UNCHANGED <<mode, callVars>>

(* Mutant: step counts before it knows whether the instruction retires.    *)
RaiseCounted(trap) ==
  /\ res' = trap
  /\ mode' = "Halted"
  /\ steps' = steps + 1
  /\ UNCHANGED <<pc, fuel, callVars>>

(* Mutant: run counts retired instructions, not iterations, and drops the error. *)
RaiseSwallowed(trap) == res' = trap /\ UNCHANGED <<mode, pc, steps, fuel, callVars>>

(* step answers a trap and run returns Halted with it. *)
Raise(trap) ==
  /\ res' = trap
  /\ mode' = "Halted"
  /\ UNCHANGED <<pc, steps, fuel, callVars>>

RaiseOnly(trap) == Raise(trap) /\ UNCHANGED <<regs, pages>>

(* Mutant: pc + 4 that does not wrap. *)
Next4Unwrapped == pc + 4

Next4 == Wrap(pc + 4)

(* An instruction whose only effect besides pc is on rd. *)
Compute(rd, value) == SetReg(rd, value) /\ Retire(Next4) /\ UNCHANGED pages

(***************************************************************************)
(* execute: one action per arm, on the decoded instruction i.              *)
(***************************************************************************)
Lui(i) == i.kind = "Lui" /\ Compute(i.rd, Wrap(i.imm * UpperUnit))

Auipc(i) == i.kind = "Auipc" /\ Compute(i.rd, Wrap(pc + i.imm * UpperUnit))

(* Mutant: the target is not checked. *)
JumpToUnchecked(rd, target) == SetReg(rd, Next4) /\ Retire(target) /\ UNCHANGED pages

(* Mutant: the trap reports the jump's own address. *)
JumpToBlamingPc(rd, target) ==
  \/ target % 4 # 0 /\ RaiseOnly(Misaligned(pc, pc, 4))
  \/ target % 4 = 0 /\ SetReg(rd, Next4) /\ Retire(target) /\ UNCHANGED pages

(* Mutant: rd is written before the target is checked. *)
JumpToLinkingFirst(rd, target) ==
  /\ SetReg(rd, Next4) /\ UNCHANGED pages
  /\ \/ target % 4 # 0 /\ Raise(Misaligned(pc, target, 4))
     \/ target % 4 = 0 /\ Retire(target)

(* A misaligned target traps before rd is written. *)
JumpTo(rd, target) ==
  \/ /\ target % 4 # 0
     /\ RaiseOnly(Misaligned(pc, target, 4))
  \/ /\ target % 4 = 0
     /\ SetReg(rd, Next4)
     /\ Retire(target)
     /\ UNCHANGED pages

PcRelative(i) == Wrap(pc + i.imm)

Jal(i) == i.kind = "Jal" /\ JumpTo(i.rd, PcRelative(i))

(* Where jalr, loads and stores point. *)
EffectiveAddr(i) == Wrap(R(i.rs1) + i.imm)

(* `& !1` clears the low bit of the target. *)
JalrTarget(i) == EffectiveAddr(i) - (EffectiveAddr(i) % 2)

(* Mutant: the target is computed after rd is written. *)
JalrLinkingFirst(i) ==
  /\ i.kind = "Jalr"
  /\ LET base == IF i.rs1 = i.rd /\ i.rd # 0 THEN Next4 ELSE R(i.rs1)
     IN JumpTo(i.rd, 2 * (Wrap(base + i.imm) \div 2))

Jalr(i) == i.kind = "Jalr" /\ JumpTo(i.rd, JalrTarget(i))

Taken(i) == BranchTaken(i.op, R(i.rs1), R(i.rs2))

Branch(i) ==
  /\ i.kind = "Branch"
  /\ \/ /\ Taken(i) /\ PcRelative(i) % 4 # 0
        /\ RaiseOnly(Misaligned(pc, PcRelative(i), 4))
     \/ /\ Taken(i) /\ PcRelative(i) % 4 = 0
        /\ Retire(PcRelative(i))
        /\ UNCHANGED <<regs, pages>>
     \/ /\ ~Taken(i)
        /\ Retire(Next4)
        /\ UNCHANGED <<regs, pages>>

Width(op) == CASE op \in {"B", "Bu"} -> 1 [] op \in {"H", "Hu"} -> 2 [] OTHER -> 4

DataOutcome(i) == Access(pages, EffectiveAddr(i), Width(i.op), pc)

Extended(op, raw) ==
  CASE op = "B" -> Wrap(SignExtend(raw, Base))
    [] op = "H" -> Wrap(SignExtend(raw, HalfMod))
    [] OTHER -> raw

(* Mutant: rd is cleared before the load, and stays so when it faults.     *)
LoadClearing(i) ==
  /\ i.kind = "Load"
  /\ \/ /\ DataOutcome(i) # Ok
        /\ SetReg(i.rd, 0) /\ UNCHANGED pages
        /\ Raise(DataOutcome(i))
     \/ /\ DataOutcome(i) = Ok
        /\ Compute(i.rd, Extended(i.op, Loaded(pages, EffectiveAddr(i), Width(i.op))))

Load(i) ==
  /\ i.kind = "Load"
  /\ \/ /\ DataOutcome(i) # Ok
        /\ RaiseOnly(DataOutcome(i))
     \/ /\ DataOutcome(i) = Ok
        /\ Compute(i.rd, Extended(i.op, Loaded(pages, EffectiveAddr(i), Width(i.op))))

(* write stores the bytes it reaches, whether or not it then faults. *)
Store(i) ==
  /\ i.kind = "Store"
  /\ pages' = Written(pages, EffectiveAddr(i), R(i.rs2), Width(i.op))
  /\ UNCHANGED regs
  /\ \/ DataOutcome(i) # Ok /\ Raise(DataOutcome(i))
     \/ DataOutcome(i) = Ok /\ Retire(Next4)

OpImm(i) == i.kind = "OpImm" /\ Compute(i.rd, Alu(i.op, R(i.rs1), Wrap(i.imm)))

Op(i) == i.kind = "Op" /\ Compute(i.rd, Alu(i.op, R(i.rs1), R(i.rs2)))

Mul(i) == i.kind = "Mul" /\ Compute(i.rd, MulDiv(i.op, R(i.rs1), R(i.rs2)))

Fence(i) == i.kind = "Fence" /\ Retire(Next4) /\ UNCHANGED <<regs, pages>>

Ecall(i) == i.kind = "Ecall" /\ RaiseOnly(SystemTrap("EnvironmentCall"))

(* Mutant: pc is moved past the ebreak, as past any other instruction.     *)
EbreakSkipping(i) ==
  /\ i.kind = "Ebreak"
  /\ res' = SystemTrap("Breakpoint") /\ mode' = "Halted" /\ pc' = Next4
  /\ UNCHANGED <<regs, pages, steps, fuel, callVars>>

Ebreak(i) == i.kind = "Ebreak" /\ RaiseOnly(SystemTrap("Breakpoint"))

Execute(i) ==
  \/ Lui(i) \/ Auipc(i) \/ Jal(i) \/ Jalr(i) \/ Branch(i) \/ Load(i) \/ Store(i)
  \/ OpImm(i) \/ Op(i) \/ Mul(i) \/ Fence(i) \/ Ecall(i) \/ Ebreak(i)

(***************************************************************************)
(* step: fetch, decode, execute.                                           *)
(***************************************************************************)
FetchOutcome == IF pc % 4 # 0 THEN Misaligned(pc, pc, 4) ELSE Access(pages, pc, 4, pc)

Fetched == Loaded(pages, pc, 4)

Current == Decode(FieldsOf(Fetched))

FetchFault == FetchOutcome # Ok /\ RaiseOnly(FetchOutcome)

IllegalWord == Current = Illegal /\ RaiseOnly(IllegalInstruction(Fetched))

Step ==
  \/ FetchFault
  \/ /\ FetchOutcome = Ok
     /\ IllegalWord \/ \E i \in {Current} : Execute(i)

(***************************************************************************)
(* run(max_steps).                                                         *)
(***************************************************************************)
Call ==
  /\ mode # "Running"
  /\ calls < MaxCalls
  /\ \E n \in Budgets : fuel' = n /\ budget' = n
  /\ mode' = "Running"
  /\ calls' = calls + 1
  /\ start' = steps
  /\ UNCHANGED <<hartVars, res>>

(* The loop is exhausted: run returns StepLimit. *)
Exhausted ==
  /\ mode = "Running"
  /\ fuel = 0
  /\ mode' = "StepLimit"
  /\ UNCHANGED <<hartVars, res, fuel, callVars>>

Init ==
  /\ \E m \in Images : regs = m.regs /\ pc = m.pc /\ pages = m.pages
  /\ steps = 0 /\ start = 0
  /\ res = Ok
  /\ mode = "Idle"
  /\ fuel = 0 /\ budget = 0
  /\ calls = 0

(* The body of the loop. *)
Iterate == mode = "Running" /\ fuel > 0 /\ Step

Next == Call \/ Iterate \/ Exhausted

(* run never blocks: inside a call the loop always goes on.  Nothing       *)
(* obliges the caller to call.                                             *)
Fairness == WF_vars(Iterate \/ Exhausted)

Spec == Init /\ [][Next]_vars
=============================================================================
