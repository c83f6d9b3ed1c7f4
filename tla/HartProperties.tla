--------------------------- MODULE HartProperties ---------------------------
(***************************************************************************)
(* What the primary interpreter promises, stated of Hart.                  *)
(***************************************************************************)
EXTENDS Hart

(* The next step executes an instruction of this kind. *)
Executing(kind) == mode = "Running" /\ fuel > 0 /\ FetchOutcome = Ok /\ Current.kind = kind

Modes == {"Idle", "Running", "StepLimit", "Halted"}

(* The types of the variables: in particular every address, register and   *)
(* byte stays in range under wrapping arithmetic, and a trap is a Trap.    *)
TypeOK ==
  /\ regs \in [Reg -> Word]
  /\ pc \in Word
  /\ IsMemory(pages)
  /\ steps \in Nat
  /\ res \in Outcome
  /\ mode \in Modes
  /\ fuel \in Nat
  /\ calls \in 0 .. MaxCalls
  /\ budget \in Nat
  /\ start \in Nat

(* The stored x0 is never anything but zero: set_reg's guard holds on its  *)
(* own, without the second guard of reg (hart.rs 38-55).                   *)
ZeroRegister == regs[0] = 0

(* No retired instruction leaves pc misaligned, whatever jump or branch    *)
(* chain led there: a misaligned pc can only be the caller's               *)
(* (exec.rs 109-149, hart.rs 72).                                          *)
PcAligned == steps > 0 => pc % 4 = 0

(* A trap report is true of the machine it leaves behind: the faulting     *)
(* address is unmapped, the misaligned one misaligned, and the word at pc  *)
(* is the one that does not decode or is the system instruction            *)
(* (trap.rs 7-24, and every place that builds a Trap).                     *)
TrapTruthful ==
  res # Ok =>
    /\ res.pc = pc
    /\ CASE res.kind = "MisalignedAccess" ->
              /\ res.addr % res.width # 0
              /\ res.addr = pc \/ Current.kind \in {"Jal", "Jalr", "Branch", "Load", "Store"}
         [] res.kind = "AccessFault" -> ~Mapped(pages, res.addr)
         [] res.kind = "IllegalInstruction" ->
              res.word = Fetched /\ Current = Illegal
         [] res.kind = "EnvironmentCall" -> Current.kind = "Ecall"
         [] res.kind = "Breakpoint" -> Current.kind = "Ebreak"

(* run's accounting: each iteration retires one instruction or ends the    *)
(* call; StepLimit means exactly max_steps instructions retired and Halted *)
(* means fewer, so a trap due on the instruction after the budget is not   *)
(* reported by this call (hart.rs 82, 86-95).                              *)
BudgetExact ==
  /\ mode # "Idle" => steps + fuel = start + budget
  /\ mode = "StepLimit" => steps = start + budget
  /\ mode = "Halted" => steps < start + budget /\ res # Ok

(* Traps are precise: the step that raises one changes no register, no     *)
(* byte of memory, not pc and not the count, so a multi-byte store that    *)
(* faults has stored nothing and a jump that traps has linked nothing      *)
(* (exec.rs 109-149, mem.rs 84-93, hart.rs 79-82).                         *)
TrapPrecise == [][mode = "Running" /\ mode' = "Halted" => UNCHANGED hartVars]_vars

(* A trap is final: no later call of run, with any budget, moves the hart  *)
(* or answers another trap (hart.rs 86-95; traps are never skipped).       *)
TrapIsFinal == [][res # Ok => UNCHANGED <<hartVars, res>>]_vars

(* Guest code never maps or unmaps a page, and changes no byte other than  *)
(* the ones its store instruction addresses (mem.rs 43-52, 61-68, 84-93).  *)
StoreConfined ==
  [][/\ DOMAIN pages' = DOMAIN pages
     /\ \A a \in Word :
          Mapped(pages, a) /\ ByteIn(pages', a) # ByteIn(pages, a) =>
            /\ Executing("Store")
            /\ \E k \in 0 .. Width(Current.op) - 1 : a = Cell(EffectiveAddr(Current), k)]_vars

(* How many values an access of this width distinguishes. *)
Capacity(width) == CASE width = 1 -> Base [] width = 2 -> HalfMod [] OTHER -> WordMod

(* A store that retires is read back by a load of the same width, even     *)
(* where the store overwrites the instruction being executed               *)
(* (mem.rs 70-93, exec.rs 168-178).                                        *)
StoreReadBack ==
  [][Executing("Store") /\ DataOutcome(Current) = Ok =>
       Loaded(pages', EffectiveAddr(Current), Width(Current.op))
         = R(Current.rs2) % Capacity(Width(Current.op))]_vars

(* Every call of run returns, whatever the guest does: an endless guest    *)
(* runs out of budget (hart.rs 86-95).                                     *)
CallReturns == (mode = "Running") ~> (mode # "Running")

(***************************************************************************)
(* What the documentation comments say and the code does not do.           *)
(***************************************************************************)
(* hart.rs 11, of Stop::Halted: "`ecall` or `ebreak`".                     *)
HaltedIsTheGuestsDoing ==
  mode = "Halted" => res.kind \in {"EnvironmentCall", "Breakpoint"}

(* mem.rs 4: "pages are allocated on first write".                         *)
FirstWriteAllocates ==
  [][Executing("Store") /\ EffectiveAddr(Current) % Width(Current.op) = 0 =>
       Mapped(pages', EffectiveAddr(Current))]_vars

(* trap.rs 10, of MisalignedAccess: "A load or store whose address is not  *)
(* naturally aligned".                                                     *)
MisalignedIsLoadOrStore ==
  res.kind = "MisalignedAccess" => pc % 4 = 0 /\ Current.kind \in {"Load", "Store"}
=============================================================================
