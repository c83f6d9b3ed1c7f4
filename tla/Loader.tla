------------------------------- MODULE Loader -------------------------------
(***************************************************************************)
(* The ELF loader of elf.rs.  A file is the fields the loader reads, at    *)
(* the offsets it reads them; offsets into the file are usize of 64 bits,  *)
(* which do not wrap, addresses and sizes of a segment are words.          *)
(*                                                                         *)
(* load writes each segment into the caller's memory as it comes to it,    *)
(* so there is a step for each header of the table.                        *)
(***************************************************************************)
EXTENDS HartMemory, FiniteSetsExt

CONSTANTS
  Files,     \* the files that may be handed to the loader
  Memories   \* the memories it may be asked to load into

(* What a program header says: any numbers of the right width.             *)
Headers == [type : Nat, offset : Nat, vaddr : Word, filesz : Word, memsz : Word]

(* Any bytes are a file; those at the offsets of the table read as headers. *)
ASSUME FilesAssumption ==
  \A f \in Files :
    /\ f.len \in Nat /\ f.magic \in BOOLEAN /\ f.entry \in Word
    /\ f.phoff \in Nat /\ f.phentsize \in Nat /\ f.phnum \in Nat
    /\ f.bytes \in [0 .. f.len - 1 -> Byte]
    /\ f.headers \in [DOMAIN f.headers -> Headers]
    /\ \A i \in 0 .. f.phnum - 1 :
         f.phoff + i * f.phentsize + 4 <= f.len
           => f.phoff + i * f.phentsize \in DOMAIN f.headers

ASSUME MemoriesAssumption == \A m \in Memories : IsMemory(m)

VARIABLES
  file,      \* the file being loaded
  header,    \* the index of the next program header: `i`
  loaded,    \* segments that placed something
  answer,    \* what load answered, Pending before it does
  before     \* history: the memory when load was called

loaderVars == <<file, pages, header, loaded, answer, before>>

PtLoad == 1
EmRiscv == 243
HeaderSize == 52   \* bytes of an ELF header
EntrySize == 24    \* bytes of a program header up to the last field read

Pending == [kind |-> "Pending"]
Error(kind) == [kind |-> kind]
Entry(addr) == [kind |-> "Ok", entry |-> addr]

(* bytes.get(offset .. offset + size) is Some. *)
Has(offset, size) == offset + size <= file.len

OffsetOfHeader(i) == file.phoff + i * file.phentsize

Header(i) == file.headers[OffsetOfHeader(i)]

HeaderError ==
  CASE file.len < HeaderSize \/ ~file.magic -> "NotElf"
    [] file.len >= HeaderSize /\ file.magic /\ file.class # 1 -> "Not32Bit"
    [] file.len >= HeaderSize /\ file.magic /\ file.class = 1 /\ file.data # 1 ->
         "NotLittleEndian"
    [] file.len >= HeaderSize /\ file.magic /\ file.class = 1 /\ file.data = 1
         /\ file.machine # EmRiscv -> "NotRiscV"
    [] OTHER -> "None"

Answer(result) == answer' = result /\ UNCHANGED <<file, pages, header, loaded, before>>

RefuseHeader ==
  /\ header = 0 /\ HeaderError # "None"
  /\ Answer(Error(HeaderError))

InTable == HeaderError = "None" /\ header < file.phnum

(* Every byte that load asks the file for on behalf of header i is there.  *)
Readable(i) ==
  /\ Has(OffsetOfHeader(i), 4)
  /\ Header(i).type = PtLoad =>
       /\ Has(OffsetOfHeader(i), EntrySize)
       /\ Has(Header(i).offset, Header(i).filesz)

RefuseTruncated == InTable /\ ~Readable(header) /\ Answer(Error("Truncated"))

(* Mutant: `continue` in a loop that advances only at its end. *)
SkipHeaderForever ==
  /\ InTable /\ Readable(header) /\ Header(header).type # PtLoad
  /\ UNCHANGED loaderVars

SkipHeader ==
  /\ InTable /\ Readable(header) /\ Header(header).type # PtLoad
  /\ header' = header + 1
  /\ UNCHANGED <<file, pages, loaded, answer, before>>

Data(h) == [k \in 1 .. h.filesz |-> file.bytes[h.offset + k - 1]]

Zeros(n) == [k \in 1 .. n |-> 0]

(* Mutant: the zeros are laid down from the start of the segment. *)
WithSegmentZeroedLast(mem, h) ==
  IF h.memsz > h.filesz THEN Placed(Placed(mem, h.vaddr, Data(h)), h.vaddr, Zeros(h.memsz))
  ELSE Placed(mem, h.vaddr, Data(h))

(* The memory once segment h is in it: its data, then zeros up to memsz.   *)
WithSegment(mem, h) ==
  LET withData == Placed(mem, h.vaddr, Data(h))
  IN IF h.memsz > h.filesz
     THEN Placed(withData, Wrap(h.vaddr + h.filesz), Zeros(h.memsz - h.filesz))
     ELSE withData

(* Mutant: a segment that is all .bss does not count. *)
PlacesData(h) == h.filesz > 0

(* Mutant: a segment counts as loaded even if it is empty. *)
PlacesAlways(h) == TRUE

PlacesSomething(h) == h.filesz > 0 \/ h.memsz > 0

LoadSegment ==
  /\ InTable /\ Readable(header) /\ Header(header).type = PtLoad
  /\ pages' = WithSegment(pages, Header(header))
  /\ loaded' = loaded + (IF PlacesSomething(Header(header)) THEN 1 ELSE 0)
  /\ header' = header + 1
  /\ UNCHANGED <<file, answer, before>>

Finish ==
  /\ HeaderError = "None" /\ header = file.phnum
  /\ Answer(IF loaded = 0 THEN Error("NothingToLoad") ELSE Entry(file.entry))

Start(bytes) == file = bytes /\ header = 0 /\ loaded = 0 /\ answer = Pending

LoadInit == \E bytes \in Files : Start(bytes) /\ pages \in Memories /\ before = pages

LoadNext ==
  /\ answer = Pending
  /\ RefuseHeader \/ RefuseTruncated \/ SkipHeader \/ LoadSegment \/ Finish

(* load is a function: once called, it runs on. *)
LoadSpec == LoadInit /\ [][LoadNext]_loaderVars /\ WF_loaderVars(LoadNext)

(***************************************************************************)
(* Properties.                                                             *)
(***************************************************************************)
(* The segments before header n that cover address a. *)
Covering(n, a) ==
  {i \in 0 .. n - 1 :
     LET h == Header(i)
     IN h.type = PtLoad /\ Wrap(a - h.vaddr) < Max({h.filesz, h.memsz})}

(* The byte the segments before header n put at a: the last one covering   *)
(* it decides, with its data or with a zero.                               *)
ImageByte(n, a) ==
  LET h == Header(Max(Covering(n, a)))
      d == Wrap(a - h.vaddr)
  IN IF d < h.filesz THEN file.bytes[h.offset + d] ELSE 0

(* At every moment, also after a refusal, memory is exactly the image of   *)
(* the segments read so far over what the caller had there: later segments *)
(* win, .bss is zero wherever it wraps, no other byte changes and no page  *)
(* is mapped that no segment reaches (elf.rs 79-105).                      *)
ImageExact ==
  /\ DOMAIN pages
       = DOMAIN before \cup {PageOf(a) : a \in {b \in Word : Covering(header, b) # {}}}
  /\ \A a \in Word :
       Mapped(pages, a) =>
         ByteIn(pages, a) = (IF Covering(header, a) # {} THEN ImageByte(header, a)
                             ELSE IF Mapped(before, a) THEN ByteIn(before, a) ELSE 0)

(* A file is accepted only if the type of every header of its table was    *)
(* within it, of a loadable segment every field load reads and all of the  *)
(* data, and at least one address holds a byte because of it               *)
(* (elf.rs 55-60, 79-113).                                                 *)
AcceptedWhole ==
  answer.kind = "Ok" =>
    /\ header = file.phnum
    /\ \A i \in 0 .. file.phnum - 1 :
         /\ OffsetOfHeader(i) + 4 <= file.len
         /\ Header(i).type = PtLoad =>
              /\ OffsetOfHeader(i) + EntrySize <= file.len
              /\ Header(i).offset + Header(i).filesz <= file.len
    /\ \E a \in Word : Covering(file.phnum, a) # {}

(* Of all the refusals only Truncated can leave segments behind, those of  *)
(* the headers before the bad one; the others leave the caller's memory    *)
(* as it was (elf.rs 62-73, 109-111; elf_loader.rs 44).                    *)
RefusalLeavesNoTrace ==
  answer.kind \notin {"Pending", "Ok", "Truncated"} => pages = before

(* load always answers, whatever the sizes and counts in the file          *)
(* (elf.rs 80-107).                                                        *)
AlwaysAnswers == <>(answer # Pending)

=============================================================================
