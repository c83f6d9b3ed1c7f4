------------------------------ MODULE Harness ------------------------------
(***************************************************************************)
(* The lockstep harness, tests/lockstep.rs: two interpreters with states   *)
(* of their own, built alike, stepped in turn and compared.  The reference *)
(* may have been disturbed first, as trapping_steps_still_compare_..       *)
(* disturbs it, to see what the comparison notices.                        *)
(***************************************************************************)
EXTENDS Lockstep

CONSTANTS
  Disturbances,  \* what may be done to the reference before the first step
  DataAddrs      \* the addresses of the data page

VARIABLES
  refX, refPc, refMem, refOut,  \* the reference
  disturbance,                  \* what was done to it
  verdict                       \* "Running", "Agreed", or what diverged

harnessVars == <<vars, refX, refPc, refMem, refOut, disturbance, verdict>>

refState == <<refX, refPc, refMem, refOut>>

Ref == INSTANCE RefHart WITH x <- refX, pc <- refPc, mem <- refMem, out <- refOut

(* regs() of the reference. *)
RefShown == [refX EXCEPT ![0] = 0]

(* What is done to the reference of a pair just built: nothing, or, as in  *)
(* the test, a register set or pc moved.  A byte overwritten through       *)
(* write_bytes is this module's addition: no test disturbs the memory.     *)
Disturb(d) ==
  /\ disturbance = d
  /\ refX = IF d.what = "register" THEN [regs EXCEPT ![d.at] = d.value] ELSE regs
  /\ refPc = IF d.what = "pc" THEN Wrap(pc + d.value) ELSE pc
  /\ refMem = IF d.what = "byte" THEN [Flat(pages) EXCEPT ![d.at] = d.value] ELSE Flat(pages)

Build ==
  /\ Init
  /\ \E d \in Disturbances : Disturb(d)
  /\ refOut = "Ok" /\ verdict = "Running"

(* lockstep(pair, budget) *)
Begin == Call /\ calls = 0 /\ UNCHANGED <<refState, disturbance, verdict>>

(* Mutant: a step that traps ends the comparison before pc and registers.  *)
JudgedEarly ==
  CASE Reason(res') # refOut' -> "Trap"
    [] Reason(res') = refOut' /\ res' # Ok -> "Running"
    [] Reason(res') = refOut' /\ res' = Ok /\ pc' # refPc' -> "Pc"
    [] Reason(res') = refOut' /\ res' = Ok /\ pc' = refPc' /\ Shown' # RefShown' -> "Register"
    [] OTHER -> "Running"

(* What is found different after a step, in the order it is looked for.    *)
Judged ==
  CASE Reason(res') # refOut' -> "Trap"
    [] Reason(res') = refOut' /\ pc' # refPc' -> "Pc"
    [] Reason(res') = refOut' /\ pc' = refPc' /\ Shown' # RefShown' -> "Register"
    [] OTHER -> "Running"

StepBoth ==
  /\ verdict = "Running"
  /\ Iterate /\ Ref!RefNext
  /\ verdict' = Judged
  /\ UNCHANGED disturbance

BudgetSpent == verdict = "Running" /\ Exhausted /\ UNCHANGED <<refState, disturbance, verdict>>

(* Mutant: only the first byte of every word is compared. *)
SameDataByWords == \A a \in DataAddrs : a % 4 = 0 => refMem[a] = Flat(pages)[a]

(* read(addr, 1, 0).ok() against peek(addr), byte by byte. *)
SameData == \A a \in DataAddrs : refMem[a] = Flat(pages)[a]

CompareMemory ==
  /\ verdict = "Running" /\ mode \in {"Halted", "StepLimit"}
  /\ verdict' = IF SameData THEN "Agreed" ELSE "Memory"
  /\ UNCHANGED <<vars, refState, disturbance>>

HarnessNext == Begin \/ StepBoth \/ BudgetSpent \/ CompareMemory

HarnessSpec == Build /\ [][HarnessNext]_harnessVars

(***************************************************************************)
(* Properties.                                                             *)
(***************************************************************************)
Untouched == disturbance.what = "nothing"

(* At least one step has been compared. *)
Compared == mode # "Idle" /\ (fuel < budget \/ res # Ok)

(* Two interpreters built alike are never found to differ, whatever the    *)
(* program and the budget: no step of either leaves the other behind in a  *)
(* register, pc, the reason of a trap or a byte (lockstep.rs 216-287).     *)
NoFalseAlarm ==
  Untouched => /\ verdict \in {"Running", "Agreed"}
               /\ Flat(pages) = refMem /\ Shown = RefShown /\ pc = refPc

(* A difference in a register, in pc or in the outcome is reported by the  *)
(* step that leaves it, trapping steps included: the harness never goes on *)
(* over one (lockstep.rs 225-266, 280-287).                                *)
CaughtAtOnce ==
  verdict = "Running" /\ Compared => Shown = RefShown /\ pc = refPc /\ Reason(res) = refOut

(* When the harness is content, what it compared is equal at the end, and  *)
(* so are the answers of the last step (lockstep.rs 216-278).              *)
AgreedIsEqual ==
  verdict = "Agreed" /\ Compared =>
    /\ Shown = RefShown /\ pc = refPc /\ Reason(res) = refOut
    /\ \A a \in DataAddrs : refMem[a] = Flat(pages)[a]

=============================================================================
