---------------------------- MODULE CommandLine ----------------------------
(***************************************************************************)
(* The hartbeat program, bin/hartbeat.rs: arguments, one file, the loader, *)
(* one call of run, an exit code.  It composes Loader and Hart over one    *)
(* memory.  What it prints is left out; what it exits with is not.         *)
(***************************************************************************)
EXTENDS HartProperties, Loader

CONSTANTS
  CommandLines,  \* the argument lists: sequences of tokens
  Disk,          \* the files that can be read, by path
  DefaultSteps   \* 10_000_000 in the program

(* A token is its text, and what it parses to as a u64 if it does. *)
NaN == -1
Tokens == [text : STRING, number : Nat \cup {NaN}]

(* No option parses as a number. *)
ASSUME CommandLineAssumption ==
  /\ CommandLines \subseteq Seq(Tokens)
  /\ \A line \in CommandLines : \A k \in 1 .. Len(line) :
       /\ line[k].number \in Budgets \cup {NaN}
       /\ line[k].text \in {"--steps", "--dump-regs"} => line[k].number = NaN
  /\ DefaultSteps \in Budgets

ASSUME DiskAssumption == \A p \in DOMAIN Disk : Disk[p] \in Files

VARIABLES
  args,    \* the arguments
  at,      \* the next one: `i`
  path,    \* the operand, an Option: NoPath before one is seen
  limit,   \* `steps`, the budget
  phase,   \* how far main has come
  exit     \* the exit code, NoCode before main returns

lineVars == <<args, at, path, limit>>
fileVars == <<file, header, loaded, answer, before>>
mainVars == <<vars, lineVars, phase, exit, fileVars>>

NoPath == << >>
Some(text) == <<text>>
NoFile == [len |-> 0]
NoCode == -1

Exit(code) == phase' = "Exited" /\ exit' = code

Refuse == Exit(2) /\ UNCHANGED <<vars, lineVars, fileVars>>

(***************************************************************************)
(* The arguments.                                                          *)
(***************************************************************************)
Arg == args[at].text

WantsHelp == args = << >> \/ \E k \in 1 .. Len(args) : args[k].text \in {"--help", "-h"}

Help == phase = "Parsing" /\ WantsHelp /\ Refuse

Parsing == phase = "Parsing" /\ ~WantsHelp /\ at <= Len(args)

HasNumber == at < Len(args) /\ args[at + 1].number # NaN

(* Mutant: only the first --steps counts. *)
TakeFirstSteps ==
  /\ Parsing /\ Arg = "--steps" /\ HasNumber
  /\ limit' = IF limit = DefaultSteps THEN args[at + 1].number ELSE limit
  /\ at' = at + 2
  /\ UNCHANGED <<vars, args, path, phase, exit, fileVars>>

TakeSteps ==
  /\ Parsing /\ Arg = "--steps" /\ HasNumber
  /\ limit' = args[at + 1].number
  /\ at' = at + 2
  /\ UNCHANGED <<vars, args, path, phase, exit, fileVars>>

RefuseSteps == Parsing /\ Arg = "--steps" /\ ~HasNumber /\ Refuse

(* Whether to print the registers at the end. *)
TakeDump ==
  /\ Parsing /\ Arg = "--dump-regs"
  /\ at' = at + 1
  /\ UNCHANGED <<vars, args, path, limit, phase, exit, fileVars>>

Operand == Parsing /\ Arg \notin {"--steps", "--dump-regs"}

TakePath ==
  /\ Operand /\ path = NoPath
  /\ path' = Some(Arg) /\ at' = at + 1
  /\ UNCHANGED <<vars, args, limit, phase, exit, fileVars>>

RefuseOperand == Operand /\ path # NoPath /\ Refuse

Parsed == phase = "Parsing" /\ ~WantsHelp /\ at > Len(args)

RefuseNoPath == Parsed /\ path = NoPath /\ Refuse

(***************************************************************************)
(* The file.                                                               *)
(***************************************************************************)
ReadFile ==
  /\ Parsed /\ path # NoPath /\ path[1] \in DOMAIN Disk
  /\ file' = Disk[path[1]]
  /\ phase' = "Loading"
  /\ UNCHANGED <<vars, lineVars, exit, header, loaded, answer, before>>

RefuseUnreadable == Parsed /\ path # NoPath /\ path[1] \notin DOMAIN Disk /\ Refuse

LoadStep ==
  /\ phase = "Loading" /\ LoadNext
  /\ UNCHANGED <<regs, pc, steps, res, mode, fuel, callVars, lineVars, phase, exit>>

(* Mutant: a file that fails to load is run all the same. *)
RefuseFileNot ==
  /\ phase = "Loading" /\ answer.kind \notin {"Pending", "Ok"}
  /\ phase' = "Loaded"
  /\ UNCHANGED <<vars, lineVars, exit, fileVars>>

RefuseFile == phase = "Loading" /\ answer.kind \notin {"Pending", "Ok"} /\ Refuse

EnterAt ==
  /\ phase = "Loading" /\ answer.kind = "Ok"
  /\ pc' = answer.entry
  /\ phase' = "Loaded"
  /\ UNCHANGED <<regs, pages, steps, res, mode, fuel, callVars, lineVars, exit, fileVars>>

(***************************************************************************)
(* The run, and what becomes of it.                                        *)
(***************************************************************************)
CallRun ==
  /\ phase = "Loaded"
  /\ Call /\ fuel' = limit
  /\ phase' = "Running"
  /\ UNCHANGED <<lineVars, exit, fileVars>>

Run == phase = "Running" /\ (Iterate \/ Exhausted) /\ UNCHANGED <<lineVars, phase, exit, fileVars>>

(* Mutant: any halt is a success. *)
CodeOfMode == IF mode = "Halted" THEN 0 ELSE 2

Code ==
  CASE mode = "Halted" /\ res.kind \in {"EnvironmentCall", "Breakpoint"} -> 0
    [] mode = "Halted" /\ res.kind \notin {"EnvironmentCall", "Breakpoint"} -> 1
    [] OTHER -> 2

Report ==
  /\ phase = "Running" /\ mode \in {"Halted", "StepLimit"}
  /\ Exit(Code)
  /\ UNCHANGED <<vars, lineVars, fileVars>>

MainInit ==
  /\ Init
  /\ args \in CommandLines /\ at = 1 /\ path = NoPath /\ limit = DefaultSteps
  /\ phase = "Parsing" /\ exit = NoCode
  /\ Start(NoFile) /\ before = pages

MainNext ==
  \/ Help \/ TakeSteps \/ RefuseSteps \/ TakeDump \/ TakePath \/ RefuseOperand \/ RefuseNoPath
  \/ ReadFile \/ RefuseUnreadable \/ LoadStep \/ RefuseFile \/ EnterAt
  \/ CallRun \/ Run \/ Report

(* One thread from the first argument to the exit code. *)
MainSpec == MainInit /\ [][MainNext]_mainVars /\ WF_mainVars(MainNext)

(***************************************************************************)
(* What the command line asks for, read off the arguments as a whole.      *)
(***************************************************************************)
Positions(text) == {k \in 1 .. Len(args) : args[k].text = text}

(* What is neither an option nor the number of one. *)
Operands ==
  {k \in 1 .. Len(args) : /\ args[k].text \notin {"--steps", "--dump-regs"}
                          /\ k > 1 => args[k - 1].text # "--steps"}

WellFormed ==
  /\ ~WantsHelp
  /\ \A k \in Positions("--steps") : k < Len(args) /\ args[k + 1].number # NaN
  /\ \E k \in Operands : Operands = {k}

Requested ==
  IF Positions("--steps") = {} THEN DefaultSteps
  ELSE args[Max(Positions("--steps")) + 1].number

(* A well-formed command line asks for the file its operand names. *)
AskedFor(f) ==
  WellFormed /\ \E k \in Operands : args[k].text \in DOMAIN Disk /\ f = Disk[args[k].text]

(* The file that was asked for is read and run, with the budget of the     *)
(* last --steps; main returns without reading one only for a command line  *)
(* that asks for none (bin/hartbeat.rs 26-63).                             *)
ObeysCommandLine ==
  /\ phase \in {"Loading", "Loaded", "Running"} => AskedFor(file)
  /\ mode # "Idle" => budget = Requested
  /\ phase = "Exited" =>
       AskedFor(file) \/ (exit = 2 /\ file = NoFile /\ \A f \in Files : ~AskedFor(f))

(* The guest starts at the file's entry point on the whole image of the    *)
(* file and nothing else: a load that failed half way is never run         *)
(* (bin/hartbeat.rs 65-75, elf.rs 62-113).                                 *)
StartsOnTheImage ==
  mode # "Idle" =>
    /\ answer.kind = "Ok" /\ header = file.phnum
    /\ steps = 0 /\ mode = "Running" =>
         pc = file.entry /\ (fuel = budget => ImageExact)

(* The exit code tells how the guest ended, by the instruction it stands   *)
(* at: 0 only at an ecall or ebreak reached within the budget, 1 only at   *)
(* one that cannot complete, 2 after a run only when exactly the budget    *)
(* retired (bin/hartbeat.rs 83-96, hart.rs 70-95).                         *)
ExitCodeTruthful ==
  LET finished == FetchOutcome = Ok /\ Current.kind \in {"Ecall", "Ebreak"}
  IN /\ exit = 0 => finished /\ steps < Requested
     /\ exit = 1 => ~finished /\ steps < Requested
     /\ exit = 2 /\ mode # "Idle" => steps = Requested

(* The program exits, also when the guest never would and whatever the     *)
(* file says (bin/hartbeat.rs 21-96).                                      *)
AlwaysExits == <>(phase = "Exited")

=============================================================================
