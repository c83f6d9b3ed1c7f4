-------------------------------- MODULE Host --------------------------------
(***************************************************************************)
(* A host that embeds the hart and calls run again after a trap: it brings *)
(* in a page a guest missed (touch), or serves the guest through set_reg   *)
(* and the public pc.  The library's interface is the program's; what a    *)
(* host does with it is this module's choice.                              *)
(***************************************************************************)
EXTENDS Lockstep

CONSTANTS
  Backing,  \* the pages the host is willing to provide
  Answers   \* the register index and the value it answers a guest with

ASSUME HostAssumption ==
  /\ Backing \subseteq PageNo
  /\ \A a \in Answers : a.index \in Nat /\ a.value \in Word

(* The last answer is a fault on a page the host provides. *)
PageFault == res.kind = "AccessFault" /\ PageOf(res.addr) \in Backing

(* mem.touch(addr) of the address the trap reports. *)
Provide ==
  /\ mode = "Halted" /\ PageFault
  /\ pages' = Touched(pages, res.addr)
  /\ UNCHANGED <<regs, pc, steps, res, mode, fuel, callVars>>

(* set_reg(index, value), an index of which only five bits count, and the  *)
(* instruction stepped over.                                               *)
Serve(a) ==
  /\ mode = "Halted" /\ res.kind \in {"EnvironmentCall", "Breakpoint", "IllegalInstruction"}
  /\ SetReg(a.index % 32, a.value)
  /\ pc' = Next4
  /\ res' = Ok
  /\ UNCHANGED <<pages, steps, mode, fuel, callVars>>

HostNext == Next \/ Provide \/ \E a \in Answers : Serve(a)

(* The host may stop; a call of run goes on. *)
HostSpec == Init /\ [][HostNext]_vars /\ Fairness

(***************************************************************************)
(* The reference, with all the pages from the start and no faults on them. *)
(***************************************************************************)
Whole ==
  INSTANCE RefHart WITH x <- Shown, mem <- Flat(Allocated(pages, Backing)),
                        out <- IF PageFault THEN "Ok" ELSE Reason(res)

(* A guest cannot tell whether its pages were there from the start or were *)
(* brought in one fault at a time: every trap can be resumed, the faulting *)
(* instruction starts over as if it had never been tried, and the run is   *)
(* one of the reference interpreter over the whole memory                  *)
(* (mem.rs 36-41, 54-93, hart.rs 49-55, 71-95, exec.rs 150-178).           *)
FaultsAreInvisible ==
  /\ Whole!RefInit
  /\ [][Whole!RefNext \/ \E a \in Answers : Whole!Edited(a.index % 32, a.value, Next4)]_Whole!refVars
=============================================================================
