------------------------------ MODULE MCHarness ------------------------------
(***************************************************************************)
(* The harness on pairs of instructions that write registers, memory and   *)
(* pc or trap, with the reference left alone or disturbed in a register,   *)
(* in pc, in a byte of data or in a byte of the program.                   *)
(***************************************************************************)
EXTENDS Harness, MCHart

HarnessCodes == {0, 1, 2, 4, 5, 6, 7, 8, 9, 11, 13, 15, 19, 21, 24, 25, 26, 28, 30, 32, 53, 57, 60}

HarnessImages == AtBottom(Registers(20, 200, 3), HarnessCodes) \cup BadEntry

HarnessBudgets == {0, 1, 3}

Change(what, at, value) == [what |-> what, at |-> at, value |-> value]

MCDisturbances ==
  { Change("nothing", 0, 0), Change("register", 1, 1), Change("register", 2, 3),
    Change("pc", 0, 4), Change("byte", 21, 3), Change("byte", 4, 2) }

MCDataAddrs == 16 .. 31
=============================================================================
