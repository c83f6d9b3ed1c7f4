----------------------------- MODULE HartMemory -----------------------------
(***************************************************************************)
(* The memory a hart owns, the public field `mem` of hart.rs: the loader   *)
(* and the caller fill it, the hart runs on it.                            *)
(***************************************************************************)
EXTENDS Memory

VARIABLE pages  \* the page table of the memory
=============================================================================
