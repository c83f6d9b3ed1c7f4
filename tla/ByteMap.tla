------------------------------ MODULE ByteMap ------------------------------
(***************************************************************************)
(* What a memory promises whoever uses it: a map from addresses to bytes   *)
(* with holes.  A slice brings bytes into being, a read of a hole is a     *)
(* fault and not a zero, and a write stores all of its bytes or none.      *)
(*                                                                         *)
(* Both interpreters' memories implement it; all they differ in is Grain,  *)
(* what else comes into being with a byte (mem.rs 13: "Nothing depends on  *)
(* the value beyond allocation granularity").                              *)
(***************************************************************************)
EXTENDS Words, Sequences

CONSTANTS
  Requests,  \* what may be asked of the memory
  Grain(_)   \* the addresses that come into being with an address

VARIABLES
  bytes,     \* the byte at every address, or Hole
  request,   \* the last request
  answer     \* what it was answered

Hole == -1

Span(addr, size) == {Wrap(addr + i) : i \in 0 .. size - 1}

Nothing == [kind |-> "Ok", value |-> 0]

(* Bytes come into being at these addresses: zero unless the request says. *)
Exist(span, given(_)) ==
  bytes' = [a \in Word |->
              IF a \in span THEN given(a)
              ELSE IF bytes[a] = Hole /\ \E s \in span : a \in Grain(s) THEN 0
              ELSE bytes[a]]

Touch(r) ==
  /\ r.op = "touch"
  /\ Exist({r.addr}, LAMBDA a : IF bytes[a] = Hole THEN 0 ELSE bytes[a])
  /\ answer' = Nothing

Place(r) ==
  /\ r.op = "place"
  /\ Exist(Span(r.addr, Len(r.data)), LAMBDA a : r.data[Wrap(a - r.addr) + 1])
  /\ answer' = Nothing

(* The one check of an access: aligned first, then nowhere a hole. *)
Verdict(r) ==
  CASE r.addr % r.width # 0 -> "Misaligned"
    [] r.addr % r.width = 0 /\ (\E a \in Span(r.addr, r.width) : bytes[a] = Hole) -> "Fault"
    [] OTHER -> "Ok"

(* The little-endian digit of each byte of a value. *)
Digit(v, i) == CASE i = 0 -> v % Base
                 [] i = 1 -> (v \div Base) % Base
                 [] i = 2 -> (v \div HalfMod) % Base
                 [] OTHER -> v \div (HalfMod * Base)

Refuse(r) ==
  /\ r.op \in {"read", "write"} /\ Verdict(r) # "Ok"
  /\ answer' = [kind |-> Verdict(r), value |-> 0]
  /\ UNCHANGED bytes

(* The value read is the one whose digits are the bytes, zero above them.  *)
Read(r) ==
  /\ r.op = "read" /\ Verdict(r) = "Ok"
  /\ answer'.kind = "Ok" /\ answer'.value \in Word
  /\ \A i \in 0 .. 3 :
       Digit(answer'.value, i) = IF i < r.width THEN bytes[Wrap(r.addr + i)] ELSE 0
  /\ UNCHANGED bytes

Write(r) ==
  /\ r.op = "write" /\ Verdict(r) = "Ok"
  /\ answer' = Nothing
  /\ bytes' = [a \in Word |-> IF a \in Span(r.addr, r.width)
                              THEN Digit(r.value, Wrap(a - r.addr)) ELSE bytes[a]]

Init ==
  /\ bytes = [a \in Word |-> Hole]
  /\ answer = Nothing

Serve(r) == request' = r /\ (Touch(r) \/ Place(r) \/ Refuse(r) \/ Read(r) \/ Write(r))

Next == \E r \in Requests : Serve(r)

Spec == Init /\ [][Next]_<<bytes, request, answer>>
=============================================================================
