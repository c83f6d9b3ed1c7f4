# HartBeat in TLA+

HartBeat is two independent RV32IM interpreters and the tests that hold one
against the other. This directory specifies both, the loader and the program
around the primary one, the harness and the guests, and checks them with TLC.
With TLAPS it proves, for every program and at the program's own sizes, that the
two interpreters are one machine, and what that takes: the invariants of the hart,
the two memories, the two decoders, the arithmetic, the loader, the program from its
arguments to its exit code, the harness, a host that resumes after faults, and the
loops of two guests; and that none of them can go on for ever.

## 1. The system

| Component | Source | State | Operations |
|---|---|---|---|
| Hart | `hartbeat/src/hart.rs` | 32 registers, `pc`, memory, step count | `new`, `reg`, `set_reg`, `regs`, `steps`, `step`, `run` |
| Executor | `hartbeat/src/exec.rs` | none of its own; works on the hart | `execute` (13 arms), `alu`, `muldiv`, `branch_taken` |
| Decoder | `hartbeat/src/decode.rs` | none | `decode`, immediates |
| Memory | `hartbeat/src/mem.rs` | page number -> page | `read`, `write` (guest); `touch`, `write_slice`, `mapped_pages` (host) |
| Traps | `hartbeat/src/trap.rs` | none | five reasons to stop, with addresses |
| Reference | `hartbeat-ref/src/lib.rs` | registers, `pc`, address -> byte | `step`, `load`, `store`, `get`, `set`, `write_bytes` |
| Loader | `hartbeat/src/elf.rs` | none; fills the memory | `load` |
| Command line | `hartbeat/src/bin/hartbeat.rs` | one hart | load, run, dump, exit code |
| Lockstep harness | `hartbeat/tests/lockstep.rs`, `tests/common` | a pair of harts | `build`, `lockstep`, `compare_memory` |
| Guests | `guests/src` | an input page, an output page | `sort`, `control`, `arith`, `memops`, `muldiv`, the runtime that starts them |
| Tests, tools, CI | `hartbeat/tests`, `tools/`, `.github/` | - | vectors, mutation runner |

A caller fills memory (`write_slice`, or `elf::load`), sets `pc` and registers,
and calls `run(max_steps)`. `run` calls `step`; `step` fetches through
`Memory::read`, calls `decode`, then `execute`, which reads and writes registers
and memory and moves `pc`. A trap travels back through `?` as the value of
`step`, and `run` returns `Stop::Halted` with it; the caller may repair what was
wrong and call `run` again. The `hartbeat` program is one such caller: it loads
a file, calls `run` once and turns the answer into an exit code. The harness is
another, of `step`, with the reference beside it. Everything is one thread and
nothing is persistent. So the hard behaviours are not interleavings. They are:

* *inside a step*: state changed before a trap is raised (a store that faults
  half way, a jump that links and then traps), a register read after it is
  written, an address that wraps;
* *along a sequence of steps*: an invariant several sites must keep (x0, the
  alignment of `pc`), programs that overwrite themselves;
* *along a sequence of calls*: the budget, a second `run` after a trap or after
  `StepLimit`, an endless guest, an instruction retried after its page was
  brought in;
* *in partial results*: a file refused half way through its segments, a harness
  that stops at a difference or walks past one;
* *in granularity*: one memory comes into being by pages, the other by bytes;
* *in the data*: immediates reassembled from scattered bits, reserved encodings,
  division and shift corner cases.

`PROJECT.json` lists each hazard at its line, with the properties that cover it.

What makes each component correct:

* **hart / execute**: registers and addresses stay words; stored x0 is zero;
  `pc` stays aligned; traps are precise, true and final; the budget is exact;
  every call returns.
* **memory**: a guest never maps a page, changes only what its store addresses,
  and reads back what it stored; both memories implement one byte map.
* **decode**: no bit of an accepted word is ignored; both decoders agree.
* **alu, muldiv**: the laws of division, products, shifts and orders.
* **both interpreters**: the primary implements the reference.
* **loader**: memory is the image of the segments read so far and nothing else,
  a file is accepted only whole, and only `Truncated` leaves anything behind.
* **command line**: a run happens only on a well-formed command line and a whole
  image; the exit code is true of the instruction the guest stands at.
* **harness**: no false alarm, and what it compares is equal when it agrees.
* **guests**: the algorithms' loops have their textbook invariants in wrapping
  arithmetic, and machine code that finishes has the outputs its tests derive.

## 2. The modules

```
Words - Memory - HartMemory - Loader ------------- CommandLine    (MCLoader, MCCommandLine)
  |                 |                                  |
  +------ Alu ------+-- Hart -- HartProperties --------+
  |                 |                |
Encoding - Decode --+                +-- Guests    (MCGuests)
  |                                  +-- Lockstep -- Host, Harness
  |                                                |  (INSTANCE RefHart)
  |                                                +-- MCHart, MCHost, MCHarness
  +---- RefTables -- RefHart -- RefMemory
            +-- DecodeProperties -- Operators -- MCOperators   (with Alu)

Memory --- PagedMemory --- MemoryPair --- MCMemory    (with RefMemory; both INSTANCE ByteMap)
Words ---- SortGuest, ControlGuest        (MCAlgorithms, one after the other)

Alu, DecodeProperties -- InstructionProofs -+- OperatorProofs    (with Operators)
                                            +- GuestProofs       (with SortGuest, ControlGuest)
                                            +- MemoryProofs -+- PagedMemoryProofs  (with MemoryPair)
                                                             +- HartProofs         (with HartProperties)
                                                                  +- LockstepProofs  (with Harness, Host)
                                                                  +- ProgramProofs   (with CommandLine)
```

| Module | What it models |
|---|---|
| `Words` | u32 arithmetic: wrapping, casts to i32, bytes of a word. |
| `Memory` | The page table; what `read`, `write`, `touch` and `write_slice` answer and leave. |
| `HartMemory` | The memory of a hart as a variable, which the loader fills and the hart runs on. |
| `ByteMap` | The abstract memory: a map from addresses to bytes, with holes. |
| `PagedMemory`, `RefMemory` | The primary's memory behind its interface; the reference's byte map. |
| `MemoryPair` | Both memories serving the same requests. |
| `Encoding` | An instruction word as the record of its six fields; the encoders of `tests/common`. |
| `Decode` | `decode` and its immediates, at full 32-bit width. |
| `Alu` | `alu`, `muldiv`, `branch_taken`. |
| `Hart` | `step`, `execute` and `run` as a state machine. |
| `RefTables`, `RefHart` | The reference interpreter: its tables, and its `step` with one action per arm of its `match`. |
| `Lockstep` | The refinement mapping from `Hart` to `RefHart`. |
| `Harness` | `build`, `lockstep` and `compare_memory`, over two interpreters of separate state. |
| `Host` | A caller that resumes the hart after traps. |
| `Loader` | `elf::load`, one step for each program header. |
| `CommandLine` | `main`: arguments, file, loader, `run`, exit code. |
| `SortGuest`, `ControlGuest` | The algorithms of two guests, one action for each iteration. |
| `Guests` | Three guests, a panicking one and the runtime as machine code on `Hart`. |
| `HartProperties`, `DecodeProperties` | What is claimed. |
| `Operators` | The laws of the pure functions, over a walk through operands and code words. |
| `InstructionProofs` | Lemmas on words, arithmetic and the decoders; the well-founded orders of the descent theorems. |
| `MemoryProofs` | Lemmas on the page table. |
| `HartProofs`, `LockstepProofs`, `PagedMemoryProofs`, `ProgramProofs`, `GuestProofs`, `OperatorProofs` | The theorems. |
| `MCWords` and the other `MC` modules | The instances TLC checks. |

### State and actions of `Hart`

`regs`, `pc`, `pages` and `steps` are the fields of `struct Hart`. `res` is the
answer of the last `step`. `mode` says whether control is with the caller (`Idle`
before the first call, then the `Stop` of the last one) or inside `run`
(`Running`), `fuel` is how much of `0..max_steps` is left, and `calls` bounds the
calls. `budget` and `start` are history variables: the arguments of the current
call, and `steps` when it was made.

`Call` enters `run`; `Exhausted` is the end of its loop; `Iterate` is one turn of
it, a whole `step`: fetch, decode, and one action per arm of `execute` (`Lui`,
`Auipc`, `Jal`, `Jalr`, `Branch`, `Load`, `Store`, `OpImm`, `Op`, `Mul`, `Fence`,
`Ecall`, `Ebreak`). A step is one action because nothing runs in between; what
the *order* inside a step can change is modelled where it is visible. `Written`
stores the bytes that `write` reaches before the first unmapped page, and `Store`
keeps that memory also when the store traps, since `mem.rs` does. That a
faulting store changes nothing is therefore a result, not an assumption.

A `set_reg` that ignores x0, and a `reg` that reads x0 as zero, are separate
definitions, as in the code: `ZeroRegister` is about the first alone.

### State and actions of the other modules

`PagedMemory` has the page table, the last request and its answer; an action for
each of `touch`, `write_slice`, `read` and `write`. `MemoryPair` adds the
reference's byte map, under `write_bytes`, `load` and `store`, and three history
variables: whether the answers have agreed so far, whether all slices were whole
pages, and the number of requests. The reference has no `touch`.

`Loader` keeps what the code keeps in its loop: the memory, `header` (`i`),
`loaded`, and `answer` for the value returned. Each turn of the loop is an action
(`SkipHeader`, `LoadSegment`, `RefuseTruncated`), because memory changes turn by
turn and an error returns between turns. A file is its header fields, its bytes,
and the program headers *by offset*, so that a table with `phentsize` 0 reads one
header again and again, as the code does. `before` is history. Offsets into a
file are `usize`; they are taken to have 64 bits, where no sum of the loader's
can wrap.

`CommandLine` is `main` in the order it is written: the hand-written argument
loop one token at a time, the file, the steps of `Loader`, which fill the `pages` the
hart will run on, `pc = entry`, one `Call` of `Hart`, and `Report`. A token is its text
and what it parses to.

`Harness` runs `Hart` and an instance of `RefHart` with variables of its own; in
`Lockstep`, by contrast, the reference's state is a function of the hart's.
`StepBoth` is a turn of `lockstep`'s loop, with the verdict in the order the code
compares; `Disturb` is what the test
`trapping_steps_still_compare_registers_and_pc` does to the reference, and a
byte of memory besides.

`Host` adds two actions between calls: `Provide` touches the page an
`AccessFault` named, `Serve` answers an `ecall`, an `ebreak` or an illegal word by
`set_reg` and steps over it. The interface is the library's; the host is
this project's, since the repository has none that resumes.

`SortGuest` and `ControlGuest` follow `algorithms.rs` statement by statement; in
`control` the first statement after a loop is its own action (`Walked`,
`Nested`, `Looked`). `Guests` writes `memops`, `muldiv`, the single-instruction
outputs of `arith` and the runtime's `_start` as instruction sequences, and
`Prepared` is the machine `run_guest` sets up.

An opcode is a number (55 for `0b0110111`). An instruction word is the record of
its fields, and every immediate is arithmetic on fields. `Decode` keeps the upper
immediate as its twenty bits; `Hart` multiplies by `UpperUnit` (4096).

Comments that begin "Mutant:" mark variants of a definition with a plausible
bug. No specification uses them; each shows that a property can fail.

### Constants

The program has `Base = 256` (values of a byte), `XLen = 32`, `PageSize = 4096`,
`UpperUnit = 4096`, and `FieldsOf` the bit fields of a word. They are constants
of the modules, so that proofs cover the program's values and TLC can use
small ones. `Pow2` is the table of powers of two, and `BitAnd`, `BitOr`, `BitXor`
are the bitwise operators, of which two things are assumed: that they stay within
the words, and that XOR with the top bit alone flips that bit (the reference orders
signed words by it). `Images` is the set of machines a caller may start from;
`Budgets` and `MaxCalls` are what it may ask of `run`. `CodeWords` are the
instruction words `Operators` starts from, `Backing` and `Answers` what a host
provides.

## 3. What is checked

| Run | Question | Size |
|---|---|---|
| `hart` | All safety and action properties of the primary interpreter; `Hart` implements `RefHart` | 236,918 states |
| `operators` | Laws of the arithmetic, nothing lost in decoding, both interpreters the same | 65,536 operand pairs, 121,856 words |
| `memory` | Both memories implement a byte map; granularity is all their difference | 119,596 states |
| `loader` | What is in memory, and what the answer says, for files of every fate | 21,984 states |
| `command_line` | From arguments to exit code | 7,866 states |
| `harness` | What the lockstep harness notices and when | 30,712 states |
| `host` | A guest cannot tell that its pages come one fault at a time; every call of `run` returns | 74,333 states |
| `algorithms` | The loops of two guests | 34,132 states |
| `guests` | The guests' outputs as machine code | 46,472 states |
| `halted`, `allocates`, `misaligned` | Three comments that say something else than the code does | counterexamples |

**The scaled machine.** Bytes have four values, so a word has four bytes of two
bits (`XLen` 8), the address space 256 bytes, and a page 16. A word is still four
bytes, an instruction still four, so alignment, widths 1, 2 and 4, `pc` and targets
that wrap at the top, page boundaries, sign bits, the signed overflow and shift masks
all occur. (An access by the guest is aligned before it is made, so it neither wraps nor
crosses a page; slices from the host or the loader do both.)
Nothing in either interpreter depends on the number of bits in a byte. Decoding
is the exception, and is therefore not scaled: in `MCHart` a word of the scaled
machine is an index into a catalogue of 66 full-width instruction words, and in
`MCOperators` the words are the full-width ones.

**The programs.** The catalogue has every opcode group; every legal `funct3` of
loads, stores and branches; all of the M extension; encodings one bit away from
legal ones; and targets and addresses that are misaligned, unmapped, at both
ends of the address space, in the data and over the program itself. `MCImages`
runs every pair of them at the bottom of the address space and every pair as
the *last* two words of it, continuing at zero, each followed by more
instructions, and adds entry points that cannot be fetched. Two instructions are
enough for the properties about one step in the state left by another, and stores
over the program make further ones. Budgets are 0, 1 and 4 with two calls: the
empty run, a run cut after each instruction, and one long enough to reach the
end of the program, in every order.

`MCOperators` takes all `funct7` and `funct3` values, the eleven opcodes and six
others (compressed, one bit away, all ones), and register fields that are zero,
all ones, or alternate so that no two bits of an immediate are alike.

**The properties of `hart`.** `TypeOK`; `ZeroRegister`; `PcAligned`;
`TrapTruthful` (the report is true of the machine left behind); `BudgetExact`
(`steps + fuel = start + budget`, and what each answer of `run` means);
`TrapPrecise` (the trapping step changes nothing); `TrapIsFinal` (no later call
moves the hart); `StoreConfined`; `StoreReadBack`. Deadlock is not checked: a
caller that has made its `MaxCalls` calls stops.

**The refinement.** `lockstep.rs` claims that the two interpreters have the
same registers, `pc` and kind of trap after every step. `ImplementsReference`
says so as a refinement: `Hart` with the page table flattened to a byte map
(`Flat`), x0 shown as zero (`Shown`, that is `regs()`) and traps without their
addresses (`Reason`, that is `same_trap`) implements `RefSpec`. It is stronger
than the harness: memory is compared after every step and everywhere, and calls
of `run` with any budget map to steps or stutters. The reference allocates single
bytes and the primary pages; as in `build`, the initial images map whole pages.

**The memories.** `ByteMap` says what a memory promises: a slice brings bytes into
being, a read of a hole is a fault, a write happens whole or not at all.
Its constant `Grain` is the set of addresses that come into being together: a
page for the primary (`ImplementsByteMap`), one address for the reference
(`RefImplementsByteMap`). `OnlyGranularity` relates the two states while their
answers agree (the primary holds the reference's bytes and zeros besides), and
says that the precaution of `build`, filling whole pages, keeps them equal. Sixteen addresses in four pages,
slices of 0 to 5 bytes and four requests reach every page boundary, the wrap,
a partly covered page, and an access that faults behind a slice.

**The loader.** `ImageExact` computes the image from the headers alone (the last
segment that covers an address decides) and compares it with memory after every
step, over an empty memory and one that holds a page. Every pair of 37 segments
occurs: data only, `.bss` only, both, neither, overlapping, wrapping, data longer
than memory, data past the end of the file; and three headers with another
type first. The broken files have a bad field each, or are cut inside the ELF
header, the table, and a table entry. `AlwaysAnswers` takes
weak fairness of `LoadNext`: `load` is a function that waits for nothing.

**The command line.** All argument lists of up to three of thirteen tokens, and
`--steps` twice with different numbers; seven files that finish, spin, trap,
enter outside their segment, end inside a segment, hold nothing or are of another
machine. `StartsOnTheImage` composes the two: the guest starts on `ImageExact`.
`ExitCodeTruthful` refers to the instruction at `pc`, not to how `main` got there.
`AlwaysExits` needs weak fairness of `main`'s steps alone, since the budget
bounds the guest: without `BudgetExact`'s bookkeeping it would not hold.

**The harness.** Instruction pairs of the catalogue against a reference that is left alone
or changed in a register, in `pc`, in a byte of data or in a byte of the program.
`NoFalseAlarm` repeats `ImplementsReference` for two *separate* states, so neither
can borrow from the other. `CaughtAtOnce` and `AgreedIsEqual` say how much the
harness sees: a byte changed by one interpreter alone is not noticed before the
end, where memory is compared.

**The host.** `FaultsAreInvisible` is a refinement: `Hart` under a host that
provides pages on demand implements `RefHart` over a memory that has had them
all along, a fault and its repair being stutters, a served trap an
assignment to the reference's public `x` and `pc`. It rests on precise traps and
on `TrapTruthful` (the address reported is the one missing), and would fail for a
load that clears its target before it faults. Loads, stores and fetches fault, on pages 0,
1, 5 and 12, up to three times in a program; a store to page 7, which is not
provided, stays a fault; the host's answers include a `set_reg(32, ..)`, which
is x0. `CallReturns` is checked here because a host makes calling again worth
while: its programs jump back, jump to missing pages, and trap once more after
every repair.

**The guests.** In `algorithms`, `sort` has four elements (32 in the program) of five
values, `control` every seed of eight bits with a cap of 40 (5000 in the program);
they share no state, so they run one after the other.
`MovesAreInversions` is what bounds the work of the sort, and `LoopsInClosedForm` holds
although the accumulator wraps; `Finishes` includes the seeds whose walk wraps to zero
and would stay there but for the cap. In `guests`, memops runs
on every seed, muldiv and arith on pairs of values around the edges, cut into
calls of 17 and 80 steps. The expected words are written as arithmetic on the
inputs and never use the operators of `Alu`.

**Fairness.** `HostSpec` assumes `Fairness`, `WF_vars(Iterate \/ Exhausted)`: inside a call, the
loop of `run` goes on, being a `for` loop in a running thread that waits for
nothing. Nothing is assumed about the caller; `CallReturns` needs no more. The
loader, `main` and the guests' algorithms have weak fairness of
their whole next-state relation, for the same reason: they are sequential code
that no one interrupts. The other specifications assume none.

**Disagreements with comments.** `Stop::Halted` is documented as "`ecall` or
`ebreak`", and carries every trap. The module comment of `mem.rs` says that pages
are allocated on first write, which is true of the host's `write_slice` and not
of a guest's store. `MisalignedAccess` is documented as a load or store and is
also what a misaligned jump, branch or fetch reports. Each of the three has a run.
None is a malfunction; a reader who relies on these comments would be wrong.

Seen while modelling, and not runs: the loader "refuses anything
it does not fully understand" (`elf.rs` 5), and places a segment whose file size exceeds
its memory size. The usage text (`bin/hartbeat.rs` 14) reserves exit code 2 for bad input
and an exhausted budget, and a bad argument exits with 2 as well. `lockstep.rs` 4 says that
the "whole architectural state is compared after every step"; memory is not. The
"Collatz stopping time" of `control` is that of a walk that wraps: 0xAAAAAAAB reaches
one in two steps. `mapped_pages` is "Reported by the CLI" (`mem.rs` 96), and the CLI
does not call it.

## 4. What is proved

Everything here holds for every value of the constants that meets the named
assumptions of the modules: `Base` even and at least 2, `Pow2` a table of powers of
two, bitwise operators closed on words with XOR flipping the top bit, `FieldsOf`
giving fields, `CodeWords` a set of fields, images well formed with `regs[0] = 0`,
budgets natural, requests and files typed as the code's types have them, a host's
pages existing and its answers a number and a word. Of a command line two things are
assumed: its tokens parse to numbers that are budgets (a `u64`), and `--steps` and
`--dump-regs` parse to none; of a disk, that what is on it are files. The program's own
constants meet all of them.

Three facts about sizes are hypotheses of the theorems that need them and are
named in the table: **(4)** `PageSize % 4 = 0`, **(p)** `WordMod % PageSize = 0`,
**(x)** `WordMod % XLen = 0`. The program has 4096, 2^32 / 4096 and 2^32 / 32.

| Theorem | Statement | Needs |
|---|---|---|
| `TypeCorrect`, `X0StaysZero`, `PcStaysAligned`, `BudgetIsExact` | `Spec => []P` for `TypeOK`, `ZeroRegister`, `PcAligned`, `BudgetExact` | |
| `StoresAreConfined`, `StoresReadBack` | `Spec => StoreConfined`, `StoreReadBack` | |
| `TrapsArePrecise`, `TrapsAreFinal`, `TrapsAreTrue` | `Spec => TrapPrecise`, `TrapIsFinal`, `[]TrapTruthful` | (4) |
| `Implements` | `Spec => ImplementsReference`: the hart is the reference interpreter | (4) |
| `FaultsAreHidden` | `HostSpec => FaultsAreInvisible`: nor does a guest see a host that pages | (4) |
| `DifferencesAreCaught`, `ContentMeansEqual` | `HarnessSpec => []CaughtAtOnce`, `[]AgreedIsEqual` | |
| `LockstepIsSilent` | `HarnessSpec => []NoFalseAlarm` | (4) |
| `PagesAreByteMap` | `Spec => ImplementsByteMap`, of `PagedMemory` | (4) |
| `ReferenceIsByteMap` | `PairSpec => RefImplementsByteMap` | |
| `GranularityIsAll` | `PairSpec => []OnlyGranularity` | (4), (p) |
| `MemoryIsTheImage`, `AcceptedFilesAreWhole`, `RefusalsLeaveNoTrace` | `LoadSpec => []P` for `ImageExact`, `AcceptedWhole`, `RefusalLeavesNoTrace` | |
| `ArgumentsAreObeyed`, `RunsTheImage` | `MainSpec => []ObeysCommandLine`, `[]StartsOnTheImage` | |
| `ExitCodeTellsTheTruth` | `MainSpec => []ExitCodeTruthful` | (4) |
| `PanicsNeverHalt` | `Spec => [][GoesRound]_vars`: a guest in the loop of the panic handler stays there and is never halted | |
| `MainDescends`, `LoadDescends`, `CallsRunOut`, `SortDescends`, `ControlDescends` | Every step of `main`, of `load`, of a call of `run`, of `sort` and of `control` leaves less to do | |
| `NoEndlessDescent` | The orders of these five have no endless descent | |
| `SortIsInOrder`, `SortPermutes`, `SortWork` | `SortSpec => []P` for `InOrder`, `Permuted`, `MovesAreInversions` | |
| `LoopsCountRight` | `ControlSpec => []LoopsInClosedForm` | |
| `DecodeType` | `decode` is typed on every word | |
| `DecodingIsLossless`, `DecodersNeverDisagree` | `Lossless`, `DecodersAgree`: for *every* 32-bit word what the run `operators` samples | |
| `SameArithmetic`, `HalvesFit`, `DivisionRecomposes`, `OrdersAgree` | `ArithmeticAgrees`, `ProductHalves`, `DivisionLaw`, `OrderLaw`, on every pair of words | |
| `ShiftsAgree` | `ShiftLaw` | (x) |

So each safety property of the runs `hart`, `operators`, `memory`, `loader`,
`command_line`, `harness`, `host` and `algorithms` holds at the program's own word and
page sizes, of any program, file, command line, array and number of calls. `Safety`,
`LoaderSafety`, `MainSafety`, `HarnessSafety`, `SortSafety` and `ControlSafety` state the
inductive invariants themselves.

### The arguments

**Words and instructions.** `InstructionProofs` has the arithmetic the provers lack:
division with remainder is unique, `Wrap` lands in `Word`, congruent numbers wrap
alike, bytes are digits. From these it derives the types of `alu`, `muldiv` and
`decode`, that an accepted word is the encoding of its instruction
(`DecodeLossless`), and that both decoders accept the same words with the same
immediates (`DecodersAlwaysAgree`). Claims about every power of two need induction,
and no library induction rule can be used because it takes an operator; they are
proved from a least counterexample, which exists by `LeastElement`.

**The page table.** `MemoryProofs` shows how page and offset determine an
address, what `Access` answers, that `Written` changes the addressed cells and no
others, and that the bytes of a word put together again are the word (`ReadBack`). With
(4), an aligned access lies in one page, so a faulting one stores nothing.

**The hart.** `HartProofs` shows, with a lemma for each group of actions, that

    Inv == TypeOK /\ ZeroRegister /\ PcAligned /\ Accounts

is inductive. `TypeOK` carries the rest: without `pc \in Word` a target modulo four
says nothing, and without `fuel \in Nat` the count does not close. `Accounts` is
`BudgetExact` without its claim about `res`. That claim is separate (`Trapped`)
because a host that serves a trap between calls clears `res` and leaves `mode`; `Inv` says nothing that a host may change, and so serves `Spec`,
`HarnessSpec` and `HostSpec` alike.

A trap is final because the same step from the same state raises it again, and true
because the state it describes is the state left behind. Both need that a trapping
step changes nothing, and that what a step answers is determined by the state:
`TrapDue(t)` says that `t` is the trap the next step raises, and
`TrapStands == res # Ok => TrapDue(res)` is the invariant. An instruction that
retires has no trap due, hence cannot follow a trap; one that traps leaves `TrapDue`
as it was.

**The refinement.** `Implements` takes the step arm by arm. `decode` and the
reference's `match` are related by the lemma that the decoders agree, each arm's
result by the lemmas of `ArithmeticAgrees`, and memory by what `Flat` makes of a load
and a store: the bytes a retired store writes are the ones the reference writes, and
an access faults in the one exactly when a byte is missing in the other. That
last equivalence is where (4) is needed. Traps map to the reference's refusal,
`Call` and `Exhausted` to stutters.

**The harness.** `CaughtAtOnce` and `AgreedIsEqual` are inductive together with
`Inv` and `OneCall` (the harness calls `run` once). They hold whatever is done to the
reference, and so need nothing about what it computes. `LockstepIsSilent` does. Its
invariant `BuiltAlike` says that an undisturbed reference is where the hart is
(`Mirror`), with no complaint so far. A step keeps it because the hart's step is *a*
step of the reference by the refinement, and the reference's step is determined by its
state; so the step the reference takes is the one the hart took.

**The host.** The state a resumed hart is compared with is the reference over
`Provided`, the memory with all of the host's pages in it. Where the guest meets a missing
page of the host's, the step and the repair are stutters, because the page brought in is
the page of zeros that the whole memory has there already and a precise trap leaves the
rest alone. The invariant is `Inv` and `HostStands`: a trap that is *not* such a fault is
still due. It rules out that a fault on a host's page follows a trap of another kind:
the fault looks like no trap at all, and the reference would take its answer back.

**The memories.** `Table`, the well-formed page table, suffices for
`PagesAreByteMap`; each operation maps to the one of `ByteMap` on `Flat(pages)`.
`GranularityIsAll` needs `PairInv`: while the two agree, the primary holds the
reference's bytes, and zeros or nothing where that has none; if all slices were whole pages the
two are equal. (p) says that the last page is whole, so a slice of a page that starts
on a page boundary is a page.

**The loader.** `LoaderInv` says that `header` is within the table, that every
header behind it was readable with its data in the file, that memory is the image of
those headers over the memory before (`ImageOf`, which is `ImageExact` at any cursor),
and that memory is untouched while `loaded` is zero. The step that
matters is `LoadSegment`: by `SegmentFacts`, a segment wins at the addresses it covers,
wrap and zero fill included, and leaves the others.

**The program.** `MainInv` has four parts besides the hart's own invariant.
`LineInv` is the invariant of the argument loop: up to `at`, every `--steps` had its
number, at most one token was an operand and it is `path`, and `limit` is the number of
the last `--steps` seen (`Scanned`); after the loop, the arguments asked for this file
and budget, or for no file at all. The properties read the command line as a
whole, from the positions of its tokens, and the code reads it from left to right and
skips a token here and there. The two agree because `at` never stands
on the number of an option, for which an option's own text must not parse as a number.
`PhaseInv` composes `Loader` and `Hart`: the
loader's invariant holds while the hart is new, and `ImageExact` survives from the
last header to the first instruction and no longer, since a guest may overwrite its
image. `Told` and `Trapped` relate the exit code to the last answer of `run`. That the
answer is true of the instruction the guest stands at needs `TrapStands`, as
for a hart alone, and by `DueFinishes` the trap that is due is an `ecall`'s or `ebreak`'s
exactly where the instruction is one.

**The panic loop.** `runtime.rs` 21-23 says that the step budget ends the run of a
guest that panics. `PanicsNeverHalt` is that claim: `jal x0, 0` decodes to a jump that
writes no register, its target is aligned because it was fetched, so a step retires
and the state is the same.

**Descent.** Liveness needs fairness and that a step is possible, and the prover has
rules for neither. The third ingredient, that progress cannot go on for ever, is proved: what is
left goes down with every step in an order without endless descent. For `main` it is
the phase, then the tokens, the headers or the budget left; for the guests' loops, the
stage, the outer and the inner counter. What TLC adds is that the system does not stop
half way. It is here that bounds of the code are used: the cap of the Collatz walk, `phnum`
and not the table's size in a table whose entries are all one, the fuel that no
instruction can restore.

**The guests.** `SortInv` joins `InOrder` with the types and two accounts. One counts
the occurrences of a value in the array with the key put back, the other the inversions:
a move exchanges two neighbours, which changes neither count of values and
removes exactly one inversion, shown by pairing the inversions before and after.
`ControlInv` has the accumulator as a closed form of row and column, modulo `WordMod`, and
the two bit counts as cardinalities of the bits seen so far.

### Why `PageSize % 4 = 0`

`mem.rs` line 13 says of the page size that "nothing depends on the value beyond
allocation granularity". Precise traps do: an aligned access stays inside one page only
if every width divides the page size. With pages of two bytes, `write` would store half
a word and then fault. With 4096 it cannot, and that is what the theorems show; the
comment in `hartbeat-ref/src/lib.rs` lines 103-105 ("the other implementation gets this
from its page table") has the same premise.

### Only model-checked

* `OutputsAsDerived` and `OnlyReturningFinishes` of `Guests`. They are about concrete
  programs of some forty instructions, one after the other on given inputs: a proof
  would replay the execution that TLC performs, for a layout with addresses small
  enough for an immediate, which is not the program's own. What holds for
  every guest is proved: that each instruction does what the reference says, and that a
  panicking one never halts.
* `CallReturns`, `AlwaysAnswers`, `AlwaysExits` and `Finishes` are liveness
  properties under fairness, which this prover cannot treat. That every step goes down
  is proved; that a step is always possible before the end, and is taken, is TLC's part.
* What a recursive definition computes for every input is out of reach as well.
  No claim here depends on one.

## 5. What is not modelled

* `steps` is a `u64` in the code and a natural here. It overflows after 2^64
  instructions, which no run reaches.
* `Display` and printing, and with it what `--dump-regs` turns on; reading files
  and arguments beyond what they yield; `mapped_pages`, which only a test
  calls (`elf_loader.rs` 43).
* Allocation failure. A small file may ask for 4 GB of zeros (`elf.rs` 100), and the
  program has no limit that a property could be about.
* A host with a 32-bit `usize`, where the loader's offsets could wrap.
* The guests' images. LLVM chooses registers and instructions; `Guests` takes those
  that the sources name. The six outputs of `arith` that become sequences of LLVM's
  choice (rotation, counts, reversals) have no definition here.
* The random generator of the harness, which TLC's enumeration replaces; the vectors of
  `spec_vectors.rs` and the tests around them; fixtures, CI and the mutation tool.

## 6. Plan

1. **Done**: words, memory, decoder, arithmetic, hart, reference, lockstep;
   their runs; the invariance proofs.
2. **Done**: the memories and their abstraction, the loader, the command line, the
   harness, the resuming host, the guests.
3. **Done**: the refinements, the harness's guarantees, the laws of the arithmetic and
   the decoders, the memories, the loader and the guests' loops as theorems.
4. **Done**: the program from its arguments to its exit code, the panic loop, and the
   descent of everything that must end, as theorems.
5. Left: what section 5 lists. The largest part of it is the guests' images, whose
   instructions are LLVM's.
