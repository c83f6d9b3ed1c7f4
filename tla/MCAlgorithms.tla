---------------------------- MODULE MCAlgorithms ----------------------------
(***************************************************************************)
(* The two guests of algorithms.rs, one after the other: sort on every     *)
(* array of four values out of five, two of them negative as i32, and      *)
(* control on every seed of eight bits.  They share nothing, so every      *)
(* array goes with one seed and every seed with one array.  The walk of    *)
(* seed 85 wraps to zero, as that of 1431655765 does in words of 32 bits,  *)
(* and the walk of 27 wraps on.                                            *)
(***************************************************************************)
EXTENDS SortGuest, ControlGuest, MCWords

MCInputs == [Index -> {0, 1, 127, 128, 255}]
MCSeeds == Word

guestVars == <<sortVars, controlVars>>

Init ==
  /\ SortInit /\ ControlInit
  /\ seed = 1 \/ input = [p \in Index |-> 0]

RunSort == SortNext /\ UNCHANGED controlVars
RunControl == phase = "Done" /\ ControlNext /\ UNCHANGED sortVars

Next == RunSort \/ RunControl

(* Each guest is one thread that waits for nothing. *)
Spec == Init /\ [][Next]_guestVars /\ WF_guestVars(Next)

(* Both guests come to their ebreak, on every array and for every seed,    *)
(* those whose walk never reaches one included (algorithms.rs 44-64,       *)
(* 68-113).                                                                *)
Finishes == <>(phase = "Done" /\ stage = "Done")
=============================================================================
