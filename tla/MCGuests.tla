------------------------------ MODULE MCGuests ------------------------------
(***************************************************************************)
(* memops on every seed, muldiv and arith on every pair of values around   *)
(* the edges, each in one or two calls of run, in an address space of 256  *)
(* bytes: program at 0, input at 176, output at 192, stack below 256.      *)
(***************************************************************************)
EXTENDS Guests, MCWords

InputWords == {0, 1, 2, 5, 127, 128, 129, 254, 255}

MCImages ==
  {Prepared(MemopsAt, <<a, 0>>) : a \in Word}
    \cup {Prepared(p, <<a, b>>) : p \in {MuldivAt, ArithAt}, a, b \in InputWords}
    \cup {Prepared(PanickingAt, <<0, 0>>)}

MCBudgets == {17, 80}
=============================================================================
