---------------------------- MODULE PagedMemory ----------------------------
(***************************************************************************)
(* The memory of mem.rs behind its public interface: touch and             *)
(* write_slice for the host, read and write for the hart.                  *)
(***************************************************************************)
EXTENDS Memory

CONSTANT Requests   \* the calls a host or a hart may make

(* Addresses and values are u32, the widths are those of lb, lh and lw,    *)
(* and no slice is longer than the address space.                          *)
ASSUME RequestsAssumption ==
  \A r \in Requests :
    /\ r.op \in {"touch", "place", "read", "write"} /\ r.addr \in Word
    /\ r.op = "place" => r.data \in Seq(Byte) /\ Len(r.data) <= WordMod
    /\ r.op \in {"read", "write"} => r.width \in {1, 2, 4}
    /\ r.op = "write" => r.value \in Word

VARIABLES
  pages,     \* the page table
  request,   \* the last call
  answer     \* what it answered: a trap or Ok, and the value read

memoryVars == <<pages, request, answer>>

None == [op |-> "none"]

Reply(trap, value) == answer' = [trap |-> trap, value |-> value]

Touch(r) == r.op = "touch" /\ pages' = Touched(pages, r.addr) /\ Reply(Ok, 0)

WriteSlice(r) == r.op = "place" /\ pages' = Placed(pages, r.addr, r.data) /\ Reply(Ok, 0)

(* A caller that is not a hart passes 0 for the pc of a trap. *)
Checked(r) == Access(pages, r.addr, r.width, 0)

Read(r) ==
  /\ r.op = "read"
  /\ Reply(Checked(r), IF Checked(r) = Ok THEN Loaded(pages, r.addr, r.width) ELSE 0)
  /\ UNCHANGED pages

Write(r) ==
  /\ r.op = "write"
  /\ pages' = Written(pages, r.addr, r.value, r.width)
  /\ Reply(Checked(r), 0)

Serve(r) == request' = r /\ (Touch(r) \/ WriteSlice(r) \/ Read(r) \/ Write(r))

(* Memory::new() *)
Init ==
  /\ pages = << >>
  /\ request = None
  /\ answer = [trap |-> Ok, value |-> 0]

Next == \E r \in Requests : Serve(r)

Spec == Init /\ [][Next]_memoryVars

(***************************************************************************)
(* What it implements: a byte map that grows by whole pages.               *)
(***************************************************************************)
SamePage(a) == {c \in Word : PageOf(c) = PageOf(a)}

Kind(trap) == CASE trap.kind = "MisalignedAccess" -> "Misaligned"
                [] trap.kind = "AccessFault" -> "Fault"
                [] OTHER -> "Ok"

Abstract ==
  INSTANCE ByteMap WITH bytes <- Flat(pages), Grain <- SamePage,
                        answer <- [kind |-> Kind(answer.trap), value |-> answer.value]

(* The pages are a byte map: slices land where they should and wrap at the *)
(* top of the address space, a fresh page is zero and an old one is kept,  *)
(* reads fault rather than invent a zero, and a write that faults has      *)
(* stored nothing (mem.rs 36-93).                                          *)
ImplementsByteMap == Abstract!Spec
=============================================================================
