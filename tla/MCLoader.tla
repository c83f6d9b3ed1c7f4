------------------------------ MODULE MCLoader ------------------------------
(***************************************************************************)
(* The loader on files of up to three program headers, over sixteen        *)
(* addresses in four pages: segments inside a page, across pages and       *)
(* across the top, with data, with .bss, with both and with neither, that  *)
(* overlap in every order or run past the end of the file.                 *)
(***************************************************************************)
EXTENDS Loader, MCWords

Segment(type, offset, vaddr, filesz, memsz) ==
  [type |-> type, offset |-> offset, vaddr |-> vaddr, filesz |-> filesz, memsz |-> memsz]

(* Six bytes of data follow the table. *)
DataAt(n) == HeaderSize + 32 * n
Content(length) == [o \in 0 .. length - 1 |-> IF o % 3 = 2 THEN 0 ELSE 1]

Image(headers, length) ==
  [len |-> length, magic |-> TRUE, class |-> 1, data |-> 1, machine |-> EmRiscv,
   entry |-> 4, phoff |-> HeaderSize, phentsize |-> 32, phnum |-> Len(headers),
   headers |-> [o \in {HeaderSize + 32 * i : i \in 0 .. Len(headers) - 1} |->
                  headers[(o - HeaderSize) \div 32 + 1]],
   bytes |-> Content(length)]

Note == Segment(4, 0, 0, 4, 4)

Segments(n) ==
  {Note} \cup {Segment(PtLoad, DataAt(n) + o, v, f, m) :
                 o \in {0, 3}, v \in {0, 3, 14}, f \in {0, 2, 4}, m \in {0, 2, 5}}

Well(headers) == Image(headers, DataAt(Len(headers)) + 6)

(* One segment that is fine, for the files broken elsewhere. *)
Fine == Segment(PtLoad, HeaderSize, 3, 2, 5)

Broken ==
  {[Well(<<Fine>>) EXCEPT !.magic = FALSE], [Well(<<Fine>>) EXCEPT !.class = 2],
   [Well(<<Fine>>) EXCEPT !.data = 2], [Well(<<Fine>>) EXCEPT !.machine = 62]}
    \cup {Image(<<Fine, last>>, length) :
            last \in {Fine, Note},
            length \in {40, HeaderSize, HeaderSize + 32 + 3, HeaderSize + 32 + 20}}
    \cup {[Well(<<h>>) EXCEPT !.phentsize = 0, !.phnum = 2] : h \in {Fine, Note}}

MCFiles ==
  Broken \cup {Well(<< >>)}
    \cup {Well(<<a, b>>) : a, b \in Segments(2)}
    \cup {Well(<<Note, a, Fine>>) : a \in Segments(3)}

MCMemories == {<< >>, [p \in {0} |-> [o \in Offset |-> 1]]}
=============================================================================
