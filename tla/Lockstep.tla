------------------------------ MODULE Lockstep ------------------------------
(***************************************************************************)
(* The two interpreters side by side, as tests/lockstep.rs compares them:  *)
(* every step of the primary is a step of the reference, or none, on the   *)
(* same registers, the same pc and the same mapped bytes.  Both start over *)
(* whole pages, as `build` makes sure.                                     *)
(***************************************************************************)
EXTENDS HartProperties

(* same_trap: the reasons for stopping, without their addresses. *)
Reason(outcome) ==
  CASE outcome.kind = "Ok" -> "Ok"
    [] outcome.kind = "IllegalInstruction" -> "Illegal"
    [] outcome.kind = "MisalignedAccess" -> "Misaligned"
    [] outcome.kind = "AccessFault" -> "Fault"
    [] outcome.kind = "EnvironmentCall" -> "Ecall"
    [] OTHER -> "Ebreak"

(* regs(): the register file with x0 read as zero. *)
Shown == [regs EXCEPT ![0] = 0]

Reference ==
  INSTANCE RefHart WITH x <- Shown, mem <- Flat(pages), out <- Reason(res)

(* The primary interpreter implements the reference: registers, pc, memory *)
(* and the reason for every trap agree after every step, on every program  *)
(* and across any slicing of the run into calls (lockstep.rs 216-287).     *)
ImplementsReference == Reference!RefSpec
=============================================================================
