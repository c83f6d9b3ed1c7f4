----------------------------- MODULE MemoryPair -----------------------------
(***************************************************************************)
(* The memories of the two interpreters serving the same requests, as they *)
(* do under `build` and the steps of the lockstep harness.  They differ in *)
(* one thing: the primary allocates pages and the reference bytes.         *)
(***************************************************************************)
EXTENDS PagedMemory, RefMemory

CONSTANT MaxRequests   \* bound on the requests of a behaviour

VARIABLES
  refRequest, \* the last request made of the reference
  refAnswer,  \* what it answered
  served,     \* requests so far
  agreed,     \* history: both gave the same answer to every request
  whole       \* history: every slice so far was made of whole pages

pairVars == <<pages, mem, request, answer, refRequest, refAnswer, served, agreed, whole>>

RefReply(kind, value) == refAnswer' = [kind |-> kind, value |-> value]

WriteBytes(r) == r.op = "place" /\ mem' = Inserted(r.addr, r.data) /\ RefReply("Ok", 0)

RefLoad(r) ==
  LET kind == Check(r.addr, r.width)
  IN /\ r.op = "read"
     /\ RefReply(kind, IF kind = "Ok" THEN LoadedWord(r.addr, r.width) ELSE 0)
     /\ UNCHANGED mem

(* Mutant: bytes are inserted as they are checked, so a store that faults  *)
(* leaves the ones before the hole.                                        *)
RefStoreUnchecked(r) ==
  LET reached == {i \in 0 .. r.width - 1 : \A j \in 0 .. i : mem[At(r.addr, j)] # NoByte}
  IN /\ r.op = "write"
     /\ RefReply(Check(r.addr, r.width), 0)
     /\ mem' = [c \in Word |->
                  IF r.addr % r.width = 0 /\ Wrap(c - r.addr) \in reached
                  THEN ByteAt(r.value, Wrap(c - r.addr)) ELSE mem[c]]

RefStore(r) ==
  LET kind == Check(r.addr, r.width)
  IN /\ r.op = "write"
     /\ RefReply(kind, 0)
     /\ mem' = IF kind = "Ok" THEN Stored(r.addr, r.value, r.width) ELSE mem

(* The reference has nothing that allocates without a byte to store.       *)
RefServe(r) ==
  \/ r.op = "touch" /\ UNCHANGED <<mem, refRequest, refAnswer>>
  \/ refRequest' = r /\ (WriteBytes(r) \/ RefLoad(r) \/ RefStore(r))

WholePages(r) ==
  r.op = "place" => r.addr % PageSize = 0 /\ Len(r.data) % PageSize = 0

Same == request.op # "touch" => refAnswer = [kind |-> Kind(answer.trap), value |-> answer.value]

PairInit ==
  /\ Init
  /\ mem = [a \in Word |-> NoByte]
  /\ refRequest = None /\ refAnswer = [kind |-> "Ok", value |-> 0]
  /\ served = 0 /\ agreed = TRUE /\ whole = TRUE

Both(r) ==
  /\ served < MaxRequests
  /\ Serve(r) /\ RefServe(r)
  /\ served' = served + 1
  /\ agreed' = (agreed /\ Same')
  /\ whole' = (whole /\ r.op # "touch" /\ WholePages(r))

PairNext == \E r \in Requests : Both(r)

PairSpec == PairInit /\ [][PairNext]_pairVars

(***************************************************************************)
(* Properties.                                                             *)
(***************************************************************************)
One(a) == {a}

RefAbstract ==
  INSTANCE ByteMap WITH bytes <- mem, Grain <- One, request <- refRequest,
                        answer <- refAnswer

(* The reference's map implements the same promise with the grain of one   *)
(* byte: its store checks every byte before it writes any (lib.rs 53-120). *)
RefImplementsByteMap == RefAbstract!Spec

(* While the answers agree, so do the memories: the primary holds every    *)
(* byte of the reference, and what it holds besides is allocation          *)
(* granularity, still zero.  And filling whole pages, the precaution of    *)
(* `build`, is enough for the two never to differ, in any answer to any    *)
(* later request and in no byte (mem.rs 13; lockstep.rs 187-193).          *)
OnlyGranularity ==
  /\ agreed => \A a \in Word :
                 IF mem[a] # NoByte THEN Mapped(pages, a) /\ ByteIn(pages, a) = mem[a]
                 ELSE Flat(pages)[a] \in {NoByte, 0}
  /\ whole => agreed /\ Flat(pages) = mem
=============================================================================
