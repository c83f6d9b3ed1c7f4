----------------------------- MODULE RefMemory -----------------------------
(***************************************************************************)
(* The memory of the reference interpreter: a hash map from addresses to   *)
(* bytes.  A byte exists once it was given; nothing else comes with it.    *)
(***************************************************************************)
EXTENDS Words, Sequences

VARIABLE mem   \* the byte map: what `get` answers for every address

(* None, for an address the map does not have. *)
NoByte == -1

At(addr, i) == Wrap(addr + i)

(* The answer load and store share: both ask for every byte. *)
Check(addr, width) ==
  IF addr % width # 0 THEN "Misaligned"
  ELSE IF \A i \in 0 .. width - 1 : mem[At(addr, i)] # NoByte THEN "Ok"
  ELSE "Fault"

LoadedWord(addr, width) ==
  LET b(i) == IF i < width THEN mem[At(addr, i)] ELSE 0
  IN b(0) + Base * (b(1) + Base * (b(2) + Base * b(3)))

Stored(addr, value, width) ==
  [c \in Word |-> IF Wrap(c - addr) < width THEN ByteAt(value, Wrap(c - addr))
                        ELSE mem[c]]

(* write_bytes: the bytes of data, each under its own wrapped address.     *)
Inserted(addr, data) ==
  [c \in Word |-> IF Wrap(c - addr) < Len(data) THEN data[Wrap(c - addr) + 1] ELSE mem[c]]
=============================================================================
