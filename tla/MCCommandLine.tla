---------------------------- MODULE MCCommandLine ----------------------------
(***************************************************************************)
(* The program on every command line of up to three tokens and on longer   *)
(* ones that say --steps twice, with a disk of guests that finish, spin,   *)
(* trap, start outside their segment, and of files that do not load.       *)
(***************************************************************************)
EXTENDS CommandLine, MCHart

NewHart == Machine(Registers(0, 0, 0), 0, << >>)

Token(text) == [text |-> text, number |-> NaN]
Number(text, n) == [text |-> text, number |-> n]

Programs == {"done", "spin", "trap", "astray", "cut", "empty", "foreign"}

Others == {Token("--steps"), Token("--dump-regs"), Number("1", 1), Number("3", 3)}

MCCommandLines ==
  LET tokens == {Token(p) : p \in Programs \cup {"missing", "--help"}} \cup Others
  IN {<< >>} \cup {<<a>> : a \in tokens} \cup {<<a, b>> : a, b \in tokens}
       \cup {<<a, b, c>> : a, b, c \in tokens}
       \cup {<<Token("--steps"), a, b, Token("--steps"), c>> :
               a, c \in {Number("0", 0), Number("1", 1), Number("3", 3)},
               b \in {Token(p) : p \in Programs}}

Header32(type, vaddr, filesz, memsz, offset) ==
  [type |-> type, offset |-> offset, vaddr |-> vaddr, filesz |-> filesz, memsz |-> memsz]

(* A file of these headers whose data are the words of these codes. *)
Executable(headers, codes, entry) ==
  LET first == 52 + 32 * Len(headers)
  IN [len |-> first + 4 * Len(codes), magic |-> TRUE, class |-> 1, data |-> 1,
      machine |-> 243, entry |-> entry, phoff |-> 52, phentsize |-> 32,
      phnum |-> Len(headers),
      headers |-> [o \in {52 + 32 * i : i \in 0 .. Len(headers) - 1} |->
                     headers[(o - 52) \div 32 + 1]],
      bytes |-> [o \in 0 .. first + 4 * Len(codes) - 1 |->
                   IF o < first THEN 0 ELSE ByteAt(codes[(o - first) \div 4 + 1], o % 4)]]

(* One segment of data from 24 on, with .bss behind it. *)
Guest(codes) == Executable(<<Header32(1, 24, 4 * Len(codes), 20, 84)>>, codes, 24)

MCDisk ==
  [p \in Programs |->
     CASE p = "done" -> Guest(<<3, 1>>)            \* addi, ebreak
       [] p = "spin" -> Guest(<<3, 7>>)            \* addi, jal back
       [] p = "trap" -> Guest(<<3, 0>>)            \* addi, an illegal word
       [] p = "astray" -> [Guest(<<3, 2>>) EXCEPT !.entry = 64]
       [] p = "cut" -> Executable(<<Header32(1, 24, 4, 8, 116), Header32(1, 40, 8, 8, 116)>>,
                                  <<1>>, 24)
       [] p = "empty" -> Executable(<<Header32(4, 24, 4, 4, 84)>>, <<1>>, 24)
       [] OTHER -> [Guest(<<1>>) EXCEPT !.machine = 62]]

CLImages == {NewHart}
CLFiles == {MCDisk[p] : p \in Programs}
CLMemories == {<< >>}
CLBudgets == {0, 1, 3, 5}
=============================================================================
