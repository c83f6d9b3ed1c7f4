------------------------------- MODULE MCHost -------------------------------
(***************************************************************************)
(* Two instructions of the catalogue, from loads and stores that miss a    *)
(* page, jumps into one and traps a host serves, with the data page, or    *)
(* the page the program runs on into, missing at first.                    *)
(***************************************************************************)
EXTENDS Host, MCHart

HostCodes == {1, 2, 0, 3, 7, 8, 10, 12, 19, 20, 21, 25, 28, 29, 32, 33, 24}

(* The data page is there, or it is not. *)
Sparse(r) ==
  LET program(a, b) == 0 :> CodePage(<<a, b, 2, 1>>)
  IN {Machine(r, 0, program(a, b)) : a, b \in HostCodes}
       \cup {Machine(r, 0, program(a, b) @@ 1 :> DataPage) : a, b \in HostCodes}

(* The program ends at the top of the address space; page 0 is missing. *)
RunningOff(r) == {Machine(r, 248, 15 :> CodePage(<<1, 3, a, b>>)) : a, b \in HostCodes}

HostImages == Sparse(Registers(20, 200, 3)) \cup RunningOff(Registers(252, 128, 64))

(* Page 7, which some programs store to, is not provided. *)
MCBacking == {0, 1, 5, 12}

MCAnswers == {[index |-> 34, value |-> 20], [index |-> 32, value |-> 7]}

HostBudgets == {1, 6}
=============================================================================
