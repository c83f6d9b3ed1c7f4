------------------------------ MODULE RefHart ------------------------------
(***************************************************************************)
(* The reference interpreter, hartbeat-ref/src/lib.rs: one flat table over *)
(* the fields of the word at pc, no decoded instruction, a memory that is  *)
(* a map from addresses to bytes, and stores that check every byte before  *)
(* they write any.  It has no run loop; what a step answers is RefTrap.    *)
(*                                                                         *)
(* It is the specification that Hart implements (the claim lockstep.rs     *)
(* tests): Hart refines it under the mapping of module Lockstep.           *)
(***************************************************************************)
EXTENDS RefTables, RefMemory

CONSTANTS
  FieldsOf(_),  \* the fields of an instruction word
  UpperUnit     \* the weight of an upper immediate: 4096 in the program

VARIABLES
  x,    \* the registers
  pc,
  out   \* what the last step answered: "Ok" or a RefTrap

refVars == <<x, pc, mem, out>>

RefTrap == {"Illegal", "Misaligned", "Fault", "Ecall", "Ebreak"}

Get(i) == IF i = 0 THEN 0 ELSE x[i]

Set(i, v) == x' = IF i = 0 THEN x ELSE [x EXCEPT ![i] = v]

W == FieldsOf(LoadedWord(pc, 4))

Va == Get(W.rs1)
Vb == Get(W.rs2)
Step4 == Wrap(pc + 4)

(***************************************************************************)
(* One step.                                                               *)
(***************************************************************************)
FetchAnswer == IF pc % 4 # 0 THEN "Misaligned" ELSE Check(pc, 4)

Fail(trap) == out' = trap /\ UNCHANGED <<x, pc, mem>>

Succeed(next) == out' = "Ok" /\ pc' = next

Give(value) == Set(W.rd, value) /\ Succeed(Step4) /\ UNCHANGED mem

FetchArm == FetchAnswer # "Ok" /\ Fail(FetchAnswer)

Arm(opcode) == FetchAnswer = "Ok" /\ W.op = opcode

LuiArm == Arm(OpLui) /\ Give(Wrap(RefImmU(W) * UpperUnit))

AuipcArm == Arm(OpAuipc) /\ Give(Wrap(pc + RefImmU(W) * UpperUnit))

Goto(target) ==
  IF target % 4 # 0 THEN Fail("Misaligned")
  ELSE Set(W.rd, Step4) /\ Succeed(target) /\ UNCHANGED mem

JalArm == Arm(OpJal) /\ Goto(Wrap(Signed(pc) + RefImmJ(W)))

JalrArm ==
  /\ Arm(OpJalr)
  /\ IF W.f3 # 0 THEN Fail("Illegal")
     ELSE LET sum == Wrap(Signed(Va) + RefImmI(W)) IN Goto(2 * (sum \div 2))

BranchArm ==
  LET target == Wrap(Signed(pc) + RefImmB(W))
  IN /\ Arm(OpBranch)
     /\ CASE ~LegalBranch(W.f3) -> Fail("Illegal")
          [] LegalBranch(W.f3) /\ ~Take(W.f3, Va, Vb) ->
               Succeed(Step4) /\ UNCHANGED <<x, mem>>
          [] LegalBranch(W.f3) /\ Take(W.f3, Va, Vb) ->
               IF target % 4 # 0 THEN Fail("Misaligned")
               ELSE Succeed(target) /\ UNCHANGED <<x, mem>>

RefWidth == CASE W.f3 \in {0, 4} -> 1 [] W.f3 \in {1, 5} -> 2 [] OTHER -> 4

LoadArm ==
  LET addr == Wrap(Signed(Va) + RefImmI(W))
      raw == LoadedWord(addr, RefWidth)
  IN /\ Arm(OpLoad)
     /\ IF ~LegalLoad(W.f3) THEN Fail("Illegal")
        ELSE IF Check(addr, RefWidth) # "Ok" THEN Fail(Check(addr, RefWidth))
        ELSE Give(CASE W.f3 = 0 -> Wrap(SignExtend(raw, Base))
                    [] W.f3 = 1 -> Wrap(SignExtend(raw, HalfMod))
                    [] OTHER -> raw)

StoreArm ==
  LET addr == Wrap(Signed(Va) + RefImmS(W))
  IN /\ Arm(OpStore)
     /\ IF ~LegalStore(W.f3) THEN Fail("Illegal")
        ELSE IF Check(addr, RefWidth) # "Ok" THEN Fail(Check(addr, RefWidth))
        ELSE mem' = Stored(addr, Vb, RefWidth) /\ Succeed(Step4) /\ UNCHANGED x

ImmArm ==
  /\ Arm(OpImmed)
  /\ IF LegalImm(W.f3, W.f7)
     THEN Give(ImmTable(W.f3, W.f7, Va, Wrap(RefImmI(W)), W.rs2 % XLen))
     ELSE Fail("Illegal")

RegArm ==
  /\ Arm(OpReg)
  /\ IF LegalReg(W.f3, W.f7) THEN Give(RegTable(W.f3, W.f7, Va, Vb)) ELSE Fail("Illegal")

FenceArm == Arm(OpFence) /\ W.f3 = 0 /\ Succeed(Step4) /\ UNCHANGED <<x, mem>>

SystemArm ==
  /\ Arm(OpSystem)
  /\ Fail(CASE SystemWord(W, 0) -> "Ecall" [] SystemWord(W, 1) -> "Ebreak" [] OTHER -> "Illegal")

OtherArm ==
  /\ FetchAnswer = "Ok"
  /\ W.op \notin {OpLui, OpAuipc, OpJal, OpJalr, OpBranch, OpLoad, OpStore, OpImmed, OpReg,
                  OpSystem}
  /\ ~(W.op = OpFence /\ W.f3 = 0)
  /\ Fail("Illegal")

(* x, pc and the bytes are the caller's to choose before the first step. *)
RefInit ==
  /\ x \in [Reg -> Word] /\ x[0] = 0
  /\ pc \in Word
  /\ mem \in [Word -> Byte \cup {NoByte}]
  /\ out = "Ok"

RefNext ==
  \/ FetchArm \/ LuiArm \/ AuipcArm \/ JalArm \/ JalrArm \/ BranchArm \/ LoadArm
  \/ StoreArm \/ ImmArm \/ RegArm \/ FenceArm \/ SystemArm \/ OtherArm

(* A caller that has seen a trap writes x and pc, which are public.        *)
Edited(i, v, target) ==
  /\ out # "Ok" /\ out' = "Ok"
  /\ Set(i, v)
  /\ pc' = target
  /\ UNCHANGED mem

RefSpec == RefInit /\ [][RefNext]_refVars
=============================================================================
