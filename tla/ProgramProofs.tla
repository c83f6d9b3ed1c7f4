---------------------------- MODULE ProgramProofs ----------------------------
(***************************************************************************)
(* The ELF loader and the program around it: the results on Loader, for    *)
(* every file and every memory it is loaded into, and on CommandLine, for  *)
(* every command line and disk.                                            *)
(***************************************************************************)
EXTENDS CommandLine, HartProofs

(***************************************************************************)
(* What one segment does to a memory.                                      *)
(***************************************************************************)
(* The largest element of a set of numbers that has one.                   *)
LEMMA MaxIs ==
  ASSUME NEW S, S \subseteq Nat, NEW m \in S, \A x \in S : x <= m PROVE Max(S) = m
  <1>1. \A y \in S : m >= y OBVIOUS
  <1>2. Max(S) \in S /\ \A y \in S : Max(S) >= y BY <1>1 DEF Max
  <1>3. Max(S) \in Nat /\ m \in Nat /\ Max(S) >= m /\ Max(S) <= m BY <1>2
  <1> QED BY <1>3

(* A segment is as long as the longer of its data and its memory.          *)
LEMMA SizeIs ==
  ASSUME NEW f \in Nat, NEW m \in Nat PROVE Max({f, m}) = IF m > f THEN m ELSE f
  <1>1. CASE m > f
    <2>1. \A x \in {f, m} : x <= m BY <1>1
    <2> QED BY <1>1, <2>1, MaxIs
  <1>2. CASE ~(m > f)
    <2>1. \A x \in {f, m} : x <= f BY <1>2
    <2> QED BY <1>2, <2>1, MaxIs
  <1> QED BY <1>1, <1>2

(* The addresses of a segment. *)
Reaches(h, a) == Wrap(a - h.vaddr) < Max({h.filesz, h.memsz})

(* A header all of whose data is in the file. *)
WithData(h) == h \in Headers /\ Has(h.offset, h.filesz)

(* A function on 1 .. n is a sequence. *)
LEMMA BytesOf ==
  ASSUME NEW n \in Nat, NEW f \in [1 .. n -> Byte] PROVE f \in Seq(Byte) /\ Len(f) = n
  OBVIOUS

(* The data is in the file, so it is bytes. *)
LEMMA DataType ==
  ASSUME file \in Files, NEW h, WithData(h)
  PROVE  /\ Data(h) \in Seq(Byte) /\ Len(Data(h)) = h.filesz
         /\ \A k \in 1 .. h.filesz : Data(h)[k] = file.bytes[h.offset + k - 1]
  <1>1. /\ h.filesz \in Nat /\ h.offset \in Nat /\ file.len \in Nat
        /\ h.offset + h.filesz <= file.len
        /\ file.bytes \in [0 .. file.len - 1 -> Byte]
    BY FilesAssumption, WordInt DEF WithData, Headers, Has
  <1>2. ASSUME NEW k \in 1 .. h.filesz PROVE file.bytes[h.offset + k - 1] \in Byte
    <2>1. h.offset + k - 1 \in 0 .. file.len - 1 BY <1>1
    <2> QED BY <1>1, <2>1
  <1>3. Data(h) \in [1 .. h.filesz -> Byte] BY <1>2 DEF Data
  <1>4. Data(h) \in Seq(Byte) /\ Len(Data(h)) = h.filesz BY <1>1, <1>3, BytesOf
  <1>5. \A k \in 1 .. h.filesz : Data(h)[k] = file.bytes[h.offset + k - 1] BY DEF Data
  <1> QED BY <1>4, <1>5

(* So are the zeros of .bss. *)
LEMMA ZerosType ==
  ASSUME NEW n \in Nat
  PROVE  Zeros(n) \in Seq(Byte) /\ Len(Zeros(n)) = n /\ \A k \in 1 .. n : Zeros(n)[k] = 0
  <1>1. Zeros(n) \in [1 .. n -> Byte] BY BaseAssumption DEF Zeros, Byte
  <1>2. Zeros(n) \in Seq(Byte) /\ Len(Zeros(n)) = n BY <1>1, BytesOf
  <1> QED BY <1>2 DEF Zeros

(* Wrapping takes a multiple of the modulus away. *)
LEMMA WrapParts ==
  ASSUME NEW n \in Int
  PROVE  \E d \in Int, q \in Int, t \in Int :
           d = Wrap(n) /\ t = WordMod * q /\ n = t + d /\ 0 <= d /\ d < WordMod
  <1>1. /\ n \div WordMod \in Int /\ n % WordMod \in 0 .. WordMod - 1 /\ WordMod \in Int
        /\ n = WordMod * (n \div WordMod) + (n % WordMod)
    BY WordModType, DivMod
  <1>2. PICK q \in Int : q = n \div WordMod BY <1>1
  <1>3. PICK t \in Int : t = WordMod * q BY <1>1
  <1>4. PICK d \in Int : d = n % WordMod BY <1>1
  <1>5. n = t + d /\ 0 <= d /\ d < WordMod BY <1>1, <1>2, <1>3, <1>4
  <1>6. d = Wrap(n) BY <1>4 DEF Wrap
  <1> QED BY <1>3, <1>5, <1>6

(* Where .bss begins: past the data, all distances shorten by its length.  *)
LEMMA BssDistance ==
  ASSUME NEW v \in Word, NEW f \in Word, NEW m \in Word, m > f, NEW a \in Word
  PROVE  Wrap(a - Wrap(v + f)) < m - f <=> f <= Wrap(a - v) /\ Wrap(a - v) < m
  <1>0. v \in Int /\ f \in Int /\ m \in Int /\ a \in Int /\ 0 <= f /\ m < WordMod
        /\ WordMod \in Nat \ {0}
    BY WordInt, WordModType DEF Word
  <1>1. PICK d \in Int, q \in Int, t \in Int :
          d = Wrap(a - v) /\ t = WordMod * q /\ a - v = t + d /\ 0 <= d /\ d < WordMod
    <2>1. a - v \in Int BY <1>0
    <2> QED BY <2>1, WrapParts
  <1>2. PICK c \in Int, p \in Int, u \in Int : c = Wrap(v + f) /\ u = WordMod * p /\ v + f = u + c
    <2>1. v + f \in Int BY <1>0
    <2> QED BY <2>1, WrapParts
  <1>3. a - c = (t + u) + (d - f) BY <1>0, <1>1, <1>2
  <1>4. PICK s \in Int : s = q + p OBVIOUS
  <1>5. WordMod * s = t + u BY <1>0, <1>1, <1>2, <1>4
  <1>6. a - c \in Int BY <1>0
  <1>7. CASE f <= d
    <2>1. d - f \in 0 .. WordMod - 1 /\ a - c = WordMod * s + (d - f)
      BY <1>0, <1>1, <1>3, <1>5, <1>7
    <2>2. (a - c) % WordMod = d - f BY <1>0, <1>6, <2>1, DivModUnique
    <2> QED BY <1>0, <1>1, <1>2, <1>7, <2>2 DEF Wrap
  <1>8. CASE d < f
    <2>1. WordMod * (s - 1) = WordMod * s - WordMod BY <1>0
    <2>2. PICK r \in Int : r = (d - f) + WordMod BY <1>0
    <2>0. s - 1 \in Int /\ r \in 0 .. WordMod - 1 BY <1>0, <1>1, <1>8, <2>2
    <2>6. PICK x \in Int, y \in Int, w \in Int :
            x = WordMod * (s - 1) /\ y = WordMod * s /\ w = WordMod
      BY <1>0
    <2>7. x = y - w /\ y = t + u /\ r = (d - f) + w BY <1>5, <2>1, <2>2, <2>6
    <2>8. a - c = x + r BY <1>0, <1>1, <1>2, <1>3, <2>7
    <2>3. r \in 0 .. WordMod - 1 /\ a - c = WordMod * (s - 1) + r /\ s - 1 \in Int
      BY <2>0, <2>6, <2>8
    <2>4. (a - c) % WordMod = r BY <1>0, <1>6, <2>3, DivModUnique
    <2>5. ~(r < m - f) BY <1>0, <1>1, <2>2
    <2> QED BY <1>0, <1>1, <1>2, <1>8, <2>4, <2>5 DEF Wrap
  <1> QED BY <1>0, <1>1, <1>7, <1>8

(* A segment in memory: its pages exist, it holds its data and then zeros  *)
(* up to its size, and every other byte is what it was, or zero.           *)
LEMMA SegmentFacts ==
  ASSUME file \in Files, NEW mem, IsMemory(mem), NEW h, WithData(h)
  PROVE  /\ IsMemory(WithSegment(mem, h))
         /\ DOMAIN WithSegment(mem, h)
              = DOMAIN mem \cup {PageOf(a) : a \in {b \in Word : Reaches(h, b)}}
         /\ \A a \in Word :
              Mapped(WithSegment(mem, h), a) =>
                ByteIn(WithSegment(mem, h), a)
                  = IF Wrap(a - h.vaddr) < h.filesz
                    THEN file.bytes[h.offset + Wrap(a - h.vaddr)]
                    ELSE IF Reaches(h, a) THEN 0
                    ELSE IF Mapped(mem, a) THEN ByteIn(mem, a) ELSE 0
  <1>0. /\ h.vaddr \in Word /\ h.filesz \in Word /\ h.memsz \in Word /\ h.offset \in Nat
        /\ h.filesz \in Nat /\ h.memsz \in Nat /\ h.filesz <= WordMod /\ h.memsz <= WordMod
    <2>1. h.vaddr \in Word /\ h.filesz \in Word /\ h.memsz \in Word /\ h.offset \in Nat
      BY DEF WithData, Headers
    <2> QED BY <2>1, WordModType DEF Word
  <1> DEFINE first == Placed(mem, h.vaddr, Data(h))
  <1>1. /\ IsMemory(first)
        /\ DOMAIN first = DOMAIN mem \cup PagesUnder(h.vaddr, h.filesz)
        /\ \A a \in Word :
             Mapped(first, a) =>
               ByteIn(first, a) = IF Wrap(a - h.vaddr) < h.filesz
                                  THEN Data(h)[Wrap(a - h.vaddr) + 1]
                                  ELSE IF Mapped(mem, a) THEN ByteIn(mem, a) ELSE 0
    <2>1. Data(h) \in Seq(Byte) /\ Len(Data(h)) = h.filesz BY DataType
    <2>2. PICK data \in Seq(Byte) : data = Data(h) /\ Len(data) = h.filesz BY <2>1
    <2>3. Len(data) <= WordMod BY <1>0, <2>2
    <2>4. /\ IsMemory(Placed(mem, h.vaddr, data))
          /\ DOMAIN Placed(mem, h.vaddr, data) = DOMAIN mem \cup PagesUnder(h.vaddr, Len(data))
          /\ \A a \in Word :
               Mapped(Placed(mem, h.vaddr, data), a) =>
                 ByteIn(Placed(mem, h.vaddr, data), a)
                   = IF Wrap(a - h.vaddr) < Len(data) THEN data[Wrap(a - h.vaddr) + 1]
                     ELSE IF Mapped(mem, a) THEN ByteIn(mem, a) ELSE 0
      BY <1>0, <2>3, PlacedFacts
    <2>5. first = Placed(mem, h.vaddr, data) BY <2>2
    <2> HIDE DEF first
    <2> QED BY <2>2, <2>4, <2>5
  <1>2. ASSUME NEW a \in Word, Wrap(a - h.vaddr) < h.filesz
        PROVE  Data(h)[Wrap(a - h.vaddr) + 1] = file.bytes[h.offset + Wrap(a - h.vaddr)]
    <2>1. PICK d \in Nat : d = Wrap(a - h.vaddr) BY <1>0, Distance
    <2>2. d + 1 \in 1 .. h.filesz /\ h.offset + (d + 1) - 1 = h.offset + d
      BY <1>0, <1>2, <2>1
    <2> QED BY <2>1, <2>2, DataType
  <1>3. PagesUnder(h.vaddr, h.filesz) = {PageOf(a) : a \in {b \in Word : Wrap(b - h.vaddr) < h.filesz}}
    BY <1>0, PagesUnderBy
  <1> HIDE DEF first
  <1>4. CASE ~(h.memsz > h.filesz)
    <2>1. WithSegment(mem, h) = first BY <1>4 DEF WithSegment, first
    <2>2. \A a \in Word : Reaches(h, a) <=> Wrap(a - h.vaddr) < h.filesz
      BY <1>0, <1>4, SizeIs DEF Reaches
    <2> QED BY <1>1, <1>2, <1>3, <2>1, <2>2
  <1>5. CASE h.memsz > h.filesz
    <2> DEFINE n == h.memsz - h.filesz
               bss == Wrap(h.vaddr + h.filesz)
               new == Placed(first, bss, Zeros(n))
    <2>1. WithSegment(mem, h) = new BY <1>5 DEF WithSegment, first
    <2>2. n \in Nat /\ n <= WordMod /\ bss \in Word
      <3>1. h.vaddr + h.filesz \in Int BY <1>0, WordInt
      <3>2. bss \in Word BY <3>1, WrapType
      <3>3. WordMod \in Nat BY WordModType
      <3> HIDE DEF bss
      <3> QED BY <1>0, <1>5, <3>2, <3>3
    <2>3. \A a \in Word :
            /\ Wrap(a - bss) < n <=> h.filesz <= Wrap(a - h.vaddr) /\ Wrap(a - h.vaddr) < h.memsz
            /\ Reaches(h, a) <=> Wrap(a - h.vaddr) < h.memsz
            /\ Wrap(a - h.vaddr) \in Nat
      BY <1>0, <1>5, BssDistance, SizeIs, Distance DEF Reaches
    <2>4. Zeros(n) \in Seq(Byte) /\ Len(Zeros(n)) = n /\ \A k \in 1 .. n : Zeros(n)[k] = 0
      BY <2>2, ZerosType
    <2>5. PagesUnder(bss, n) = {PageOf(a) : a \in {b \in Word : Wrap(b - bss) < n}}
      BY <2>2, PagesUnderBy
    <2> HIDE DEF n, bss
    <2>6. /\ IsMemory(new)
          /\ DOMAIN new = DOMAIN first \cup PagesUnder(bss, n)
          /\ \A a \in Word :
               Mapped(new, a) =>
                 ByteIn(new, a) = IF Wrap(a - bss) < n THEN Zeros(n)[Wrap(a - bss) + 1]
                                  ELSE IF Mapped(first, a) THEN ByteIn(first, a) ELSE 0
      BY <1>1, <2>2, <2>4, PlacedFacts
    <2> HIDE DEF new
    <2>7. ASSUME NEW a \in Word, Wrap(a - bss) < n PROVE Zeros(n)[Wrap(a - bss) + 1] = 0
      <3>1. PICK d \in Nat : d = Wrap(a - bss) BY <2>2, Distance
      <3>2. d + 1 \in 1 .. n BY <2>2, <2>7, <3>1
      <3> QED BY <2>4, <3>1, <3>2
    <2>8. DOMAIN new = DOMAIN mem \cup {PageOf(a) : a \in {b \in Word : Reaches(h, b)}}
      <3>1. {b \in Word : Reaches(h, b)}
              = {b \in Word : Wrap(b - h.vaddr) < h.filesz} \cup {b \in Word : Wrap(b - bss) < n}
        BY <1>0, <1>5, <2>3
      <3>2. {PageOf(a) : a \in {b \in Word : Reaches(h, b)}}
              = PagesUnder(h.vaddr, h.filesz) \cup PagesUnder(bss, n)
        BY <1>3, <2>5, <3>1
      <3> QED BY <1>1, <2>6, <3>2
    <2>9. ASSUME NEW a \in Word, Mapped(new, a)
          PROVE  ByteIn(new, a) = IF Wrap(a - h.vaddr) < h.filesz
                                  THEN file.bytes[h.offset + Wrap(a - h.vaddr)]
                                  ELSE IF Reaches(h, a) THEN 0
                                  ELSE IF Mapped(mem, a) THEN ByteIn(mem, a) ELSE 0
      <3>1. CASE Wrap(a - h.vaddr) < h.filesz
        <4>1. ~(Wrap(a - bss) < n) BY <1>0, <2>3, <3>1
        <4>2. Mapped(first, a) BY <1>1, <1>3, <3>1 DEF Mapped
        <4> QED BY <1>1, <1>2, <2>6, <2>9, <3>1, <4>1, <4>2
      <3>2. CASE ~(Wrap(a - h.vaddr) < h.filesz) /\ Reaches(h, a)
        <4>1. Wrap(a - bss) < n BY <1>0, <2>3, <3>2
        <4> QED BY <2>6, <2>7, <2>9, <3>2, <4>1
      <3>3. CASE ~(Wrap(a - h.vaddr) < h.filesz) /\ ~Reaches(h, a)
        <4>1. ~(Wrap(a - bss) < n) BY <1>0, <2>3, <3>3
        <4>2. ByteIn(new, a) = IF Mapped(first, a) THEN ByteIn(first, a) ELSE 0
          BY <2>6, <2>9, <4>1
        <4>3. Mapped(mem, a) => Mapped(first, a) BY <1>1 DEF Mapped
        <4> QED BY <1>1, <3>3, <4>2, <4>3
      <3> QED BY <3>1, <3>2, <3>3
    <2> QED BY <2>1, <2>6, <2>8, <2>9
  <1> QED BY <1>4, <1>5

(***************************************************************************)
(* The image of the segments read so far.                                  *)
(***************************************************************************)
(* ImageExact, of any number of headers and any memory. *)
ImageOf(n, mem) ==
  /\ DOMAIN mem = DOMAIN before \cup {PageOf(a) : a \in {b \in Word : Covering(n, b) # {}}}
  /\ \A a \in Word :
       Mapped(mem, a) =>
         ByteIn(mem, a) = (IF Covering(n, a) # {} THEN ImageByte(n, a)
                           ELSE IF Mapped(before, a) THEN ByteIn(before, a) ELSE 0)

(* A header the loader can read is a header. *)
LEMMA HeaderType ==
  ASSUME file \in Files, NEW n \in 0 .. file.phnum - 1, Readable(n)
  PROVE  /\ Header(n) \in Headers
         /\ Header(n).type = PtLoad => WithData(Header(n))
  <1>1. file.phoff + n * file.phentsize + 4 <= file.len BY DEF Readable, Has, OffsetOfHeader
  <1>2. file.phoff + n * file.phentsize \in DOMAIN file.headers BY <1>1, FilesAssumption
  <1>3. file.headers \in [DOMAIN file.headers -> Headers] BY FilesAssumption
  <1>4. Header(n) \in Headers BY <1>2, <1>3 DEF Header, OffsetOfHeader
  <1> QED BY <1>4 DEF Readable, WithData

(* One header more covers what its segment reaches. *)
LEMMA CoveringNext ==
  ASSUME NEW n \in Nat, NEW a
  PROVE  Covering(n + 1, a)
           = IF Header(n).type = PtLoad /\ Reaches(Header(n), a)
             THEN Covering(n, a) \cup {n} ELSE Covering(n, a)
  <1>1. 0 .. (n + 1) - 1 = (0 .. n - 1) \cup {n} OBVIOUS
  <1> QED BY <1>1 DEF Covering, Reaches

(* The last segment that covers an address decides its byte. *)
LEMMA ImageByteNext ==
  ASSUME NEW n \in Nat, NEW a
  PROVE  ImageByte(n + 1, a)
           = IF Header(n).type = PtLoad /\ Reaches(Header(n), a)
             THEN IF Wrap(a - Header(n).vaddr) < Header(n).filesz
                  THEN file.bytes[Header(n).offset + Wrap(a - Header(n).vaddr)] ELSE 0
             ELSE ImageByte(n, a)
  <1>1. CASE Header(n).type = PtLoad /\ Reaches(Header(n), a)
    <2>1. Covering(n + 1, a) = Covering(n, a) \cup {n} BY <1>1, CoveringNext
    <2>2. Covering(n, a) \subseteq 0 .. n - 1 BY DEF Covering
    <2>3. n \in Covering(n + 1, a) /\ Covering(n + 1, a) \subseteq Nat BY <2>1, <2>2
    <2>4. \A x \in Covering(n + 1, a) : x <= n BY <2>1, <2>2
    <2>5. Max(Covering(n + 1, a)) = n BY <2>3, <2>4, MaxIs
    <2> QED BY <1>1, <2>5 DEF ImageByte
  <1>2. CASE ~(Header(n).type = PtLoad /\ Reaches(Header(n), a))
    <2>1. Covering(n + 1, a) = Covering(n, a) BY <1>2, CoveringNext
    <2> QED BY <1>2, <2>1 DEF ImageByte
  <1> QED BY <1>1, <1>2

(* A header of another type covers nothing. *)
LEMMA ImageSkips ==
  ASSUME NEW n \in Nat, NEW mem, ImageOf(n, mem), Header(n).type # PtLoad
  PROVE  ImageOf(n + 1, mem)
  <1>1. \A a : Covering(n + 1, a) = Covering(n, a) /\ ImageByte(n + 1, a) = ImageByte(n, a)
    BY CoveringNext, ImageByteNext
  <1> QED BY <1>1 DEF ImageOf

(* A segment put into memory extends the image by itself. *)
LEMMA ImageGrows ==
  ASSUME file \in Files, NEW n \in 0 .. file.phnum - 1, Readable(n),
         Header(n).type = PtLoad, NEW mem, IsMemory(mem), ImageOf(n, mem)
  PROVE  /\ IsMemory(WithSegment(mem, Header(n)))
         /\ ImageOf(n + 1, WithSegment(mem, Header(n)))
  <1> DEFINE h == Header(n)
             new == WithSegment(mem, h)
  <1>0. n \in Nat BY FilesAssumption
  <1>1. WithData(h) BY HeaderType
  <1>2. /\ IsMemory(new)
        /\ DOMAIN new = DOMAIN mem \cup {PageOf(a) : a \in {b \in Word : Reaches(h, b)}}
        /\ \A a \in Word :
             Mapped(new, a) =>
               ByteIn(new, a) = IF Wrap(a - h.vaddr) < h.filesz
                                THEN file.bytes[h.offset + Wrap(a - h.vaddr)]
                                ELSE IF Reaches(h, a) THEN 0
                                ELSE IF Mapped(mem, a) THEN ByteIn(mem, a) ELSE 0
    BY <1>1, SegmentFacts
  <1>3. \A a : /\ Covering(n + 1, a) = IF Reaches(h, a) THEN Covering(n, a) \cup {n}
                                       ELSE Covering(n, a)
               /\ ImageByte(n + 1, a)
                    = IF Reaches(h, a)
                      THEN IF Wrap(a - h.vaddr) < h.filesz
                           THEN file.bytes[h.offset + Wrap(a - h.vaddr)] ELSE 0
                      ELSE ImageByte(n, a)
    BY <1>0, CoveringNext, ImageByteNext
  <1>4. ASSUME NEW a \in Word, Wrap(a - h.vaddr) < h.filesz PROVE Reaches(h, a)
    <2>1. h.vaddr \in Word /\ h.filesz \in Nat /\ h.memsz \in Nat
      BY <1>1, WordInt DEF WithData, Headers
    <2>2. PICK d \in Nat, f \in Nat, m \in Nat :
            d = Wrap(a - h.vaddr) /\ f = h.filesz /\ m = h.memsz
      BY <2>1, Distance
    <2>3. d < f /\ Max({f, m}) = IF m > f THEN m ELSE f BY <1>4, <2>2, SizeIs
    <2> QED BY <2>2, <2>3 DEF Reaches
  <1> HIDE DEF h, new
  <1>5. DOMAIN new = DOMAIN before \cup {PageOf(a) : a \in {b \in Word : Covering(n + 1, b) # {}}}
    <2>1. {b \in Word : Covering(n + 1, b) # {}}
            = {b \in Word : Covering(n, b) # {}} \cup {b \in Word : Reaches(h, b)}
      BY <1>3
    <2>2. {PageOf(a) : a \in {b \in Word : Covering(n + 1, b) # {}}}
            = {PageOf(a) : a \in {b \in Word : Covering(n, b) # {}}}
                \cup {PageOf(a) : a \in {b \in Word : Reaches(h, b)}}
      BY <2>1
    <2> QED BY <1>2, <2>2 DEF ImageOf
  <1>6. ASSUME NEW a \in Word, Mapped(new, a)
        PROVE  ByteIn(new, a) = IF Covering(n + 1, a) # {} THEN ImageByte(n + 1, a)
                                ELSE IF Mapped(before, a) THEN ByteIn(before, a) ELSE 0
    <2>1. CASE Reaches(h, a)
      <3>1. Covering(n + 1, a) # {} BY <1>3, <2>1
      <3> QED BY <1>2, <1>3, <1>6, <2>1, <3>1
    <2>2. CASE ~Reaches(h, a)
      <3>1. ByteIn(new, a) = IF Mapped(mem, a) THEN ByteIn(mem, a) ELSE 0
        BY <1>2, <1>4, <1>6, <2>2
      <3>2. Covering(n + 1, a) = Covering(n, a) /\ ImageByte(n + 1, a) = ImageByte(n, a)
        BY <1>3, <2>2
      <3>3. CASE Mapped(mem, a) BY <3>1, <3>2, <3>3 DEF ImageOf
      <3>4. CASE ~Mapped(mem, a)
        <4>1. Covering(n, a) = {} /\ ~Mapped(before, a) BY <3>4 DEF ImageOf, Mapped
        <4> QED BY <3>1, <3>2, <3>4, <4>1
      <3> QED BY <3>3, <3>4
    <2> QED BY <2>1, <2>2
  <1>7. ImageOf(n + 1, new) BY <1>5, <1>6 DEF ImageOf
  <1> QED BY <1>2, <1>7 DEF h, new

(* A segment without bytes leaves the memory as it was. *)
LEMMA EmptySegment ==
  ASSUME file \in Files, NEW h, WithData(h), ~PlacesSomething(h), NEW mem, IsMemory(mem)
  PROVE  WithSegment(mem, h) = mem
  <1>1. h.filesz = 0 /\ h.memsz = 0 /\ h.vaddr \in Word
    BY WordInt DEF WithData, Headers, PlacesSomething
  <1>2. Data(h) = << >> /\ Len(Data(h)) = 0 BY <1>1, DataType
  <1>3. \A i \in 0 .. 0 - 1 : FALSE OBVIOUS
  <1>4. PagesUnder(h.vaddr, 0) = {} BY <1>3 DEF PagesUnder
  <1>5. Allocated(mem, {}) = mem BY DEF Allocated, IsMemory
  <1>6. ASSUME NEW p \in DOMAIN mem
        PROVE  [o \in Offset |->
                  IF Wrap((p * PageSize + o) - h.vaddr) < 0
                  THEN Data(h)[Wrap((p * PageSize + o) - h.vaddr) + 1] ELSE mem[p][o]] = mem[p]
    <2>1. mem[p] \in [Offset -> Byte] BY DEF IsMemory
    <2>2. ASSUME NEW o \in Offset PROVE ~(Wrap((p * PageSize + o) - h.vaddr) < 0)
      <3>1. p \in Nat /\ o \in Nat /\ h.vaddr \in Int /\ PageSize \in Nat
        BY <1>1, PageSizeAssumption, WordInt, PageFacts, WordModType
        DEF IsMemory, PageNo, Offset
      <3>2. PICK n \in Int : n = (p * PageSize + o) - h.vaddr BY <3>1
      <3>3. Wrap(n) \in Nat BY <3>2, WrapType, WordInt
      <3> QED BY <3>2, <3>3
    <2> QED BY <2>1, <2>2
  <1>7. Placed(mem, h.vaddr, Data(h))
          = [p \in DOMAIN mem |->
               [o \in Offset |->
                  IF Wrap((p * PageSize + o) - h.vaddr) < 0
                  THEN Data(h)[Wrap((p * PageSize + o) - h.vaddr) + 1] ELSE mem[p][o]]]
    <2> DEFINE room == Allocated(mem, PagesUnder(h.vaddr, Len(Data(h))))
               new(d, n, r) ==
                 [p \in DOMAIN r |->
                    [o \in Offset |->
                       IF Wrap((p * PageSize + o) - h.vaddr) < n
                       THEN d[Wrap((p * PageSize + o) - h.vaddr) + 1] ELSE r[p][o]]]
    <2>1. Placed(mem, h.vaddr, Data(h)) = new(Data(h), Len(Data(h)), room) BY DEF Placed
    <2>2. room = mem /\ Len(Data(h)) = 0 BY <1>2, <1>4, <1>5
    <2> HIDE DEF new, room
    <2>3. Placed(mem, h.vaddr, Data(h)) = new(Data(h), 0, mem) BY <2>1, <2>2
    <2> QED BY <2>3 DEF new
  <1>8. mem = [p \in DOMAIN mem |-> mem[p]] BY DEF IsMemory
  <1>9. Placed(mem, h.vaddr, Data(h)) = mem BY <1>6, <1>7, <1>8
  <1> QED BY <1>1, <1>9 DEF WithSegment

(***************************************************************************)
(* The loader, step by step.                                               *)
(***************************************************************************)
(* The segments read so far that hold something. *)
SomethingPlaced ==
  \E i \in 0 .. header - 1 : Header(i).type = PtLoad /\ PlacesSomething(Header(i))

(* What holds at every step: the headers read so far were all in the file, *)
(* memory is their image, and it is untouched while none placed anything.  *)
LoaderInv ==
  /\ file \in Files /\ header \in 0 .. file.phnum /\ loaded \in Nat
  /\ IsMemory(pages) /\ IsMemory(before)
  /\ header > 0 => HeaderError = "None"
  /\ \A i \in 0 .. header - 1 : Readable(i)
  /\ loaded > 0 => SomethingPlaced
  /\ loaded = 0 => pages = before
  /\ header = 0 => loaded = 0
  /\ ImageOf(header, pages)
  /\ answer.kind = "Ok" =>
       header = file.phnum /\ loaded > 0 /\ answer = Entry(file.entry)
  /\ answer.kind \notin {"Pending", "Ok", "Truncated"} => pages = before

(* What the definitions say of an unchanged file and an unchanged history. *)
LEMMA SameFile ==
  ASSUME UNCHANGED <<file, before>>
  PROVE  /\ HeaderError' = HeaderError
         /\ \A i : Header(i)' = Header(i) /\ Readable(i)' = Readable(i)
         /\ \A n, mem : ImageOf(n, mem)' = ImageOf(n, mem)
  <1>1. HeaderError' = HeaderError BY DEF HeaderError
  <1>2. ASSUME NEW i PROVE Header(i)' = Header(i) /\ Readable(i)' = Readable(i)
    BY DEF Header, OffsetOfHeader, Readable, Has
  <1>3. ASSUME NEW n, NEW a PROVE Covering(n, a)' = Covering(n, a) BY <1>2 DEF Covering
  <1>4. ASSUME NEW n, NEW a PROVE ImageByte(n, a)' = ImageByte(n, a)
    BY <1>2, <1>3 DEF ImageByte
  <1>5. ASSUME NEW n, NEW mem PROVE ImageOf(n, mem)' = ImageOf(n, mem)
    BY <1>3, <1>4 DEF ImageOf
  <1> QED BY <1>1, <1>2, <1>5

(* An answer of any kind. *)
LEMMA AnswerInv ==
  ASSUME LoaderInv, NEW result, Answer(result),
         result.kind = "Ok" =>
           header = file.phnum /\ loaded > 0 /\ result = Entry(file.entry),
         result.kind \notin {"Pending", "Ok", "Truncated"} => pages = before
  PROVE  LoaderInv'
  <1>1. UNCHANGED <<file, pages, header, loaded, before>> /\ answer' = result BY DEF Answer
  <1>2. /\ HeaderError' = HeaderError
        /\ \A i : Header(i)' = Header(i) /\ Readable(i)' = Readable(i)
        /\ ImageOf(header, pages)' = ImageOf(header, pages)
    BY <1>1, SameFile
  <1>3. SomethingPlaced' = SomethingPlaced BY <1>1, <1>2 DEF SomethingPlaced
  <1> QED BY <1>1, <1>2, <1>3 DEF LoaderInv, Entry

(* The next header, read, and the memory it leaves. *)
LEMMA AdvanceInv ==
  ASSUME LoaderInv, InTable, Readable(header), header' = header + 1,
         UNCHANGED <<file, answer, before>>, answer = Pending,
         loaded' \in Nat, IsMemory(pages'), ImageOf(header + 1, pages'),
         loaded' > 0 => loaded > 0 \/ (/\ Header(header).type = PtLoad
                                       /\ PlacesSomething(Header(header))),
         loaded' = 0 => pages' = before
  PROVE  LoaderInv'
  <1>1. /\ HeaderError' = HeaderError
        /\ \A i : Header(i)' = Header(i) /\ Readable(i)' = Readable(i)
    BY SameFile
  <1>2. /\ file.phnum \in Nat /\ header \in Nat /\ header + 1 \in 0 .. file.phnum
        /\ HeaderError = "None"
    BY FilesAssumption DEF LoaderInv, InTable
  <1>3. \A i \in 0 .. (header + 1) - 1 : i = header \/ i \in 0 .. header - 1 BY <1>2
  <1>4. \A i \in 0 .. header' - 1 : Readable(i)' BY <1>1, <1>3 DEF LoaderInv
  <1>5. loaded' > 0 => SomethingPlaced'
    <2>1. CASE loaded > 0
      <3>1. PICK i \in 0 .. header - 1 : Header(i).type = PtLoad /\ PlacesSomething(Header(i))
        BY <2>1 DEF LoaderInv, SomethingPlaced
      <3>2. i \in 0 .. header' - 1 BY <1>2
      <3> QED BY <1>1, <3>1, <3>2 DEF SomethingPlaced
    <2>2. CASE ~(loaded > 0)
      <3>1. header \in 0 .. header' - 1 BY <1>2
      <3>2. SUFFICES ASSUME loaded' > 0 PROVE SomethingPlaced' OBVIOUS
      <3>3. Header(header).type = PtLoad /\ PlacesSomething(Header(header)) BY <2>2, <3>2
      <3>4. PICK n : n = header OBVIOUS
      <3>5. /\ n \in 0 .. header' - 1 /\ Header(n)'.type = PtLoad
            /\ PlacesSomething(Header(n)')
        BY <1>1, <3>1, <3>3, <3>4
      <3> QED BY <3>5 DEF SomethingPlaced
    <2> QED BY <2>1, <2>2
  <1>6. ImageOf(header, pages)'
    <2>1. PICK n, mem : n = header' /\ mem = pages' OBVIOUS
    <2>2. ImageOf(n, mem) BY <2>1
    <2>3. ImageOf(n, mem)' BY <2>2, SameFile
    <2> QED BY <2>1, <2>3 DEF ImageOf
  <1>7. answer'.kind = "Pending" BY DEF Pending
  <1> QED BY <1>1, <1>2, <1>4, <1>5, <1>6, <1>7 DEF LoaderInv

(* load, from its call to its answer. *)
LEMMA LoaderStep == ASSUME LoaderInv, LoadNext PROVE LoaderInv'
  <1>0. answer = Pending BY DEF LoadNext
  <1>1. CASE RefuseHeader
    <2>1. Answer(Error(HeaderError)) /\ header = 0 BY <1>1 DEF RefuseHeader
    <2>2. HeaderError \notin {"Ok", "Pending"} BY DEF HeaderError
    <2>3. pages = before BY <2>1 DEF LoaderInv
    <2> QED BY <2>1, <2>2, <2>3, AnswerInv DEF Error
  <1>2. CASE RefuseTruncated
    <2>1. Answer(Error("Truncated")) BY <1>2 DEF RefuseTruncated
    <2> QED BY <2>1, AnswerInv DEF Error
  <1>3. CASE SkipHeader
    <2>1. /\ InTable /\ Readable(header) /\ Header(header).type # PtLoad
          /\ header' = header + 1 /\ UNCHANGED <<file, pages, loaded, answer, before>>
      BY <1>3 DEF SkipHeader
    <2>2. ImageOf(header + 1, pages) BY <2>1, ImageSkips, FilesAssumption DEF LoaderInv
    <2> QED BY <1>0, <2>1, <2>2, AdvanceInv DEF LoaderInv
  <1>4. CASE LoadSegment
    <2>1. /\ InTable /\ Readable(header) /\ Header(header).type = PtLoad
          /\ pages' = WithSegment(pages, Header(header))
          /\ loaded' = loaded + (IF PlacesSomething(Header(header)) THEN 1 ELSE 0)
          /\ header' = header + 1 /\ UNCHANGED <<file, answer, before>>
      BY <1>4 DEF LoadSegment
    <2>2. header \in 0 .. file.phnum - 1 BY <2>1, FilesAssumption DEF InTable, LoaderInv
    <2>3. IsMemory(pages') /\ ImageOf(header + 1, pages')
      BY <2>1, <2>2, ImageGrows DEF LoaderInv
    <2>4. loaded' \in Nat /\ (loaded' > 0 => loaded > 0 \/ PlacesSomething(Header(header)))
      BY <2>1 DEF LoaderInv
    <2>5. loaded' = 0 => pages' = before
      <3>1. SUFFICES ASSUME loaded' = 0 PROVE pages' = before OBVIOUS
      <3>2. loaded = 0 /\ ~PlacesSomething(Header(header)) BY <2>1, <3>1 DEF LoaderInv
      <3>3. WithData(Header(header)) BY <2>1, <2>2, HeaderType DEF LoaderInv
      <3> QED BY <2>1, <3>2, <3>3, EmptySegment DEF LoaderInv
    <2> QED BY <1>0, <2>1, <2>3, <2>4, <2>5, AdvanceInv
  <1>5. CASE Finish
    <2>1. header = file.phnum
          /\ Answer(IF loaded = 0 THEN Error("NothingToLoad") ELSE Entry(file.entry))
      BY <1>5 DEF Finish
    <2>2. CASE loaded = 0
      <3>1. Answer(Error("NothingToLoad")) /\ pages = before BY <2>1, <2>2 DEF LoaderInv
      <3> QED BY <3>1, AnswerInv DEF Error
    <2>3. CASE loaded # 0
      <3>1. Answer(Entry(file.entry)) /\ loaded > 0 BY <2>1, <2>3 DEF LoaderInv
      <3> QED BY <2>1, <3>1, AnswerInv DEF Entry
    <2> QED BY <2>2, <2>3
  <1> QED BY <1>1, <1>2, <1>3, <1>4, <1>5 DEF LoadNext

(* load is called with any file, on any memory. *)
LEMMA LoaderStart == LoadInit => LoaderInv
  <1> SUFFICES ASSUME LoadInit PROVE LoaderInv OBVIOUS
  <1>1. /\ file \in Files /\ pages \in Memories /\ before = pages /\ header = 0 /\ loaded = 0
        /\ answer = Pending
    BY DEF LoadInit, Start
  <1>2. IsMemory(pages) /\ file.phnum \in Nat BY <1>1, MemoriesAssumption, FilesAssumption
  <1>3. \A a : Covering(0, a) = {} BY DEF Covering
  <1>4. ImageOf(0, pages) BY <1>1, <1>3 DEF ImageOf
  <1>5. answer.kind = "Pending" BY <1>1 DEF Pending
  <1> QED BY <1>1, <1>2, <1>4, <1>5 DEF LoaderInv

(* load begins, on any file and any memory; said of the next state. *)
LEMMA StartsLoading ==
  ASSUME file' \in Files, header' = 0, loaded' = 0, answer' = Pending, before' = pages',
         IsMemory(pages')
  PROVE  LoaderInv'
  <1>1. file'.phnum \in Nat BY FilesAssumption
  <1>2. \A a : Covering(0, a)' = {} BY DEF Covering
  <1>3. (DOMAIN pages = DOMAIN before
           \cup {PageOf(a) : a \in {b \in Word : Covering(header, b) # {}}})'
    BY <1>2
  <1>4. ImageOf(header, pages)' BY <1>2, <1>3 DEF ImageOf
  <1>5. answer'.kind = "Pending" BY DEF Pending
  <1> QED BY <1>1, <1>4, <1>5 DEF LoaderInv

(* The invariant implies what the runs check. *)
LEMMA LoaderInvEnough == LoaderInv => ImageExact /\ AcceptedWhole /\ RefusalLeavesNoTrace
  <1> SUFFICES ASSUME LoaderInv PROVE ImageExact /\ AcceptedWhole /\ RefusalLeavesNoTrace
    OBVIOUS
  <1>1. ImageExact BY DEF LoaderInv, ImageOf, ImageExact
  <1>2. RefusalLeavesNoTrace BY DEF LoaderInv, RefusalLeavesNoTrace
  <1>3. ASSUME answer.kind = "Ok"
        PROVE  /\ header = file.phnum
               /\ \A i \in 0 .. file.phnum - 1 :
                    /\ OffsetOfHeader(i) + 4 <= file.len
                    /\ Header(i).type = PtLoad =>
                         /\ OffsetOfHeader(i) + EntrySize <= file.len
                         /\ Header(i).offset + Header(i).filesz <= file.len
               /\ \E a \in Word : Covering(file.phnum, a) # {}
    <2>1. header = file.phnum /\ SomethingPlaced /\ \A i \in 0 .. file.phnum - 1 : Readable(i)
      BY <1>3 DEF LoaderInv
    <2>2. PICK i \in 0 .. file.phnum - 1 :
            Header(i).type = PtLoad /\ PlacesSomething(Header(i))
      BY <2>1 DEF SomethingPlaced
    <2> DEFINE h == Header(i)
    <2>3. /\ h.vaddr \in Word /\ h.filesz \in Nat /\ h.memsz \in Nat
          /\ (h.filesz > 0 \/ h.memsz > 0)
      BY <2>1, <2>2, HeaderType, WordInt DEF LoaderInv, Headers, PlacesSomething
    <2>4. Wrap(h.vaddr - h.vaddr) = 0
      <3>1. h.vaddr - h.vaddr = 0 /\ 0 \in Word BY <2>3, WordInt, WordModType DEF Word
      <3> QED BY <3>1, WrapWord
    <2>5. 0 < Max({h.filesz, h.memsz})
      <3>1. PICK f \in Nat, m \in Nat : f = h.filesz /\ m = h.memsz BY <2>3
      <3>2. Max({f, m}) = (IF m > f THEN m ELSE f) /\ (f > 0 \/ m > 0) BY <2>3, <3>1, SizeIs
      <3> QED BY <3>1, <3>2
    <2>6. i \in Covering(file.phnum, h.vaddr) BY <2>2, <2>4, <2>5 DEF Covering
    <2> HIDE DEF h
    <2> QED BY <2>1, <2>3, <2>6 DEF Readable, Has
  <1> QED BY <1>1, <1>2, <1>3 DEF AcceptedWhole

(* The invariant of the loader holds whatever it is given to load.         *)
THEOREM LoaderSafety == LoadSpec => []LoaderInv
  <1>1. LoadInit => LoaderInv BY LoaderStart
  <1>2. LoaderInv /\ [LoadNext]_loaderVars => LoaderInv'
    <2> SUFFICES ASSUME LoaderInv, [LoadNext]_loaderVars PROVE LoaderInv' OBVIOUS
    <2>1. CASE LoadNext BY <2>1, LoaderStep
    <2>2. CASE UNCHANGED loaderVars
      <3>1. Answer(answer) BY <2>2 DEF loaderVars, Answer
      <3> QED BY <3>1, AnswerInv DEF LoaderInv
    <2> QED BY <2>1, <2>2
  <1> QED BY <1>1, <1>2, PTL DEF LoadSpec

(* At every moment memory is exactly the image of the segments read so far *)
(* over what the caller had there, for segments of any size, anywhere, in  *)
(* any order and overlapping at will.                                      *)
THEOREM MemoryIsTheImage == LoadSpec => []ImageExact
  BY LoaderSafety, LoaderInvEnough, PTL

(* An accepted file had every header and every byte of data within it, and *)
(* put a byte somewhere.                                                   *)
THEOREM AcceptedFilesAreWhole == LoadSpec => []AcceptedWhole
  BY LoaderSafety, LoaderInvEnough, PTL

(* Every refusal but Truncated leaves the caller's memory as it was.       *)
THEOREM RefusalsLeaveNoTrace == LoadSpec => []RefusalLeavesNoTrace
  BY LoaderSafety, LoaderInvEnough, PTL

(* load never turns to another file, nor forgets the memory it was given. *)
LEMMA LoadKeeps == ASSUME LoadNext PROVE UNCHANGED <<file, before>>
  BY DEF LoadNext, RefuseHeader, RefuseTruncated, SkipHeader, LoadSegment, Finish, Answer

(* What is left of load: headers to read, and the answer to give.          *)
LoadLeft == ToGo(header, file.phnum) + (IF answer = Pending THEN 1 ELSE 0)

LoadLessLeft == LoadLeft \in Nat /\ LoadLeft' \in Nat /\ LoadLeft' < LoadLeft

(* Each step of load leaves less to do. *)
LEMMA LoadStepDescends == ASSUME LoaderInv, LoadNext PROVE LoadLessLeft
  <1> USE DEF LoadLessLeft
  <1>1. /\ header \in Nat /\ header + 1 \in Nat /\ file.phnum \in Nat /\ answer = Pending
        /\ file' = file
    BY FilesAssumption, LoadKeeps DEF LoaderInv, LoadNext
  <1>2. PICK n \in Nat : n = ToGo(header, file.phnum) BY <1>1, ToGoFacts
  <1>3. LoadLeft = n + 1 BY <1>1, <1>2 DEF LoadLeft
  <1>4. CASE SkipHeader \/ LoadSegment
    <2>1. header < file.phnum /\ header' = header + 1 /\ answer' = answer
      BY <1>4 DEF SkipHeader, LoadSegment, InTable
    <2>2. PICK m \in Nat : m = ToGo(header + 1, file.phnum) /\ m < n
      BY <1>1, <1>2, <2>1, ToGoFacts
    <2>3. LoadLeft' = m + 1 BY <1>1, <2>1, <2>2 DEF LoadLeft, Pending, ToGo
    <2> QED BY <1>3, <2>2, <2>3
  <1>5. ASSUME NEW result, result.kind # "Pending", Answer(result)
        PROVE  LoadLeft \in Nat /\ LoadLeft' \in Nat /\ LoadLeft' < LoadLeft
    <2>1. header' = header /\ answer' # Pending BY <1>5 DEF Answer, Pending
    <2>2. LoadLeft' = n BY <1>1, <1>2, <2>1 DEF LoadLeft, Pending, ToGo
    <2> QED BY <1>3, <2>2
  <1>6. CASE RefuseHeader
    <2>1. HeaderError # "Pending" BY DEF HeaderError
    <2> QED BY <1>5, <1>6, <2>1 DEF RefuseHeader, Error
  <1>7. CASE RefuseTruncated BY <1>5, <1>7 DEF RefuseTruncated, Error
  <1>8. CASE Finish BY <1>5, <1>8 DEF Finish, Error, Entry
  <1> QED BY <1>4, <1>6, <1>7, <1>8 DEF LoadNext

(* load takes at most one step for each entry of the table and one more,   *)
(* whatever the sizes, counts and offsets in the file (elf.rs 80-113).     *)
THEOREM LoadDescends == LoadSpec => [][LoadLessLeft]_loaderVars
  BY LoaderSafety, LoadStepDescends, PTL DEF LoadSpec

(***************************************************************************)
(* The arguments.                                                          *)
(***************************************************************************)
(* What the loop has made of the arguments before the next one: every      *)
(* option among them was complete, at most one was an operand, and the     *)
(* last --steps is the one that counts.                                    *)
Scanned ==
  /\ at \in 1 .. Len(args) + 1
  /\ at > 1 => args[at - 1].text # "--steps"
  /\ \A k \in Positions("--steps") : k < at => k < Len(args) /\ args[k + 1].number # NaN
  /\ \/ path = NoPath /\ \A k \in Operands : k >= at
     \/ \E k \in Operands :
          /\ k < at /\ path = Some(args[k].text)
          /\ \A j \in Operands : j < at => j = k
  /\ \/ limit = DefaultSteps /\ \A k \in Positions("--steps") : k >= at
     \/ \E k \in Positions("--steps") :
          /\ k < at /\ limit = args[k + 1].number
          /\ \A j \in Positions("--steps") : j < at => j <= k

(* The arguments asked for a run, on this file and with this budget. *)
Accepted == AskedFor(file) /\ limit = Requested

(* main returned without having read a file, and none was asked for. *)
Refused ==
  /\ phase = "Exited" /\ exit = 2 /\ mode = "Idle" /\ file = NoFile
  /\ \A f \in Files : ~AskedFor(f)

LineInv ==
  /\ args \in CommandLines
  /\ phase = "Parsing" => file = NoFile /\ (~WantsHelp => Scanned)
  /\ phase # "Parsing" => Accepted \/ Refused

(* The arguments are tokens, and what follows a --steps that is a number   *)
(* is not another --steps.                                                 *)
LEMMA ArgFacts ==
  ASSUME args \in CommandLines
  PROVE  /\ Len(args) \in Nat
         /\ \A k \in 1 .. Len(args) :
              /\ args[k].number \in Budgets \cup {NaN}
              /\ args[k].number # NaN => args[k].text # "--steps"
  <1>1. args \in Seq(Tokens) BY CommandLineAssumption
  <1>2. Len(args) \in Nat BY <1>1
  <1> QED BY <1>2, CommandLineAssumption

(* What the arguments ask for depends on nothing else. *)
LEMMA SameArgs ==
  ASSUME UNCHANGED args
  PROVE  /\ Positions("--steps")' = Positions("--steps") /\ Operands' = Operands
         /\ WantsHelp' = WantsHelp /\ Requested' = Requested
         /\ \A f : AskedFor(f)' <=> AskedFor(f)
  <1>1. Positions("--steps")' = Positions("--steps") BY DEF Positions
  <1>2. Operands' = Operands BY DEF Operands
  <1>3. WantsHelp' = WantsHelp BY DEF WantsHelp
  <1>4. Requested' = Requested BY <1>1 DEF Requested
  <1>5. ASSUME NEW f PROVE AskedFor(f)' <=> AskedFor(f)
    BY <1>1, <1>2, <1>3 DEF AskedFor, WellFormed
  <1> QED BY <1>1, <1>2, <1>3, <1>4, <1>5

(* A number was given, and the token after it is next. *)
LEMMA ScanSteps ==
  ASSUME args \in CommandLines, Scanned, TakeSteps PROVE Scanned'
  <1>1. /\ at \in Nat /\ at >= 1 /\ at < Len(args) /\ at' = at + 2
        /\ args[at].text = "--steps" /\ args[at + 1].number # NaN
        /\ limit' = args[at + 1].number /\ UNCHANGED <<args, path>>
    BY ArgFacts DEF Scanned, TakeSteps, Arg, HasNumber, lineVars
  <1>2. /\ at \in 1 .. Len(args) /\ at + 1 \in 1 .. Len(args) /\ at' - 1 = at + 1
        /\ args[at + 1].text # "--steps"
    BY <1>1, ArgFacts
  <1>3. at' \in 1 .. Len(args) + 1 BY <1>1, ArgFacts
  <1>4. at \in Positions("--steps") /\ at + 1 \notin Positions("--steps")
    BY <1>1, <1>2 DEF Positions
  <1>5. at \notin Operands /\ at + 1 \notin Operands BY <1>1, <1>2 DEF Operands
  <1>6. ASSUME NEW k \in Nat, k < at' PROVE k < at \/ k = at \/ k = at + 1
    <2>1. PICK n \in Nat : n = at /\ at' = n + 2 BY <1>1
    <2>2. k < n + 2 BY <1>6, <2>1
    <2>3. k < n \/ k = n \/ k = n + 1 BY <2>2
    <2> QED BY <2>1, <2>3
  <1>7. Positions("--steps") \subseteq Nat /\ Operands \subseteq Nat
    BY ArgFacts DEF Positions, Operands
  <1>8. \A k \in Positions("--steps") : k < at' => k < Len(args) /\ args[k + 1].number # NaN
    BY <1>1, <1>4, <1>6, <1>7 DEF Scanned
  <1>9. \/ path = NoPath /\ \A k \in Operands : k >= at'
        \/ \E k \in Operands :
             /\ k < at' /\ path = Some(args[k].text)
             /\ \A j \in Operands : j < at' => j = k
    <2>1. CASE path = NoPath /\ \A k \in Operands : k >= at
      BY <1>1, <1>5, <1>6, <1>7, <2>1
    <2>2. ASSUME NEW k \in Operands, k < at, path = Some(args[k].text),
                 \A j \in Operands : j < at => j = k
          PROVE  k < at' /\ \A j \in Operands : j < at' => j = k
      BY <1>1, <1>5, <1>6, <1>7, <2>2
    <2> QED BY <2>1, <2>2 DEF Scanned
  <1>10. at < at' /\ \A j \in Positions("--steps") : j < at' => j <= at
    BY <1>1, <1>4, <1>6, <1>7
  <1>11. /\ Positions("--steps")' = Positions("--steps") /\ Operands' = Operands
         /\ args' = args /\ path' = path /\ limit' = args[at + 1].number
    BY <1>1, SameArgs
  <1>12. at' \in 1 .. Len(args)' + 1 /\ (at' > 1 => args'[at' - 1].text # "--steps")
    BY <1>2, <1>3, <1>11
  <1>13. (\A k \in Positions("--steps") : k < at => k < Len(args) /\ args[k + 1].number # NaN)'
    BY <1>8, <1>11
  <1>14. \E k \in Positions("--steps")' :
           /\ k < at' /\ limit' = args'[k + 1].number
           /\ \A j \in Positions("--steps")' : j < at' => j <= k
    BY <1>4, <1>10, <1>11
  <1>15. \/ path' = NoPath /\ \A k \in Operands' : k >= at'
         \/ \E k \in Operands' :
              /\ k < at' /\ path' = Some(args'[k].text)
              /\ \A j \in Operands' : j < at' => j = k
    BY <1>9, <1>11
  <1> QED BY <1>12, <1>13, <1>14, <1>15 DEF Scanned, NoPath, Some

(* An option without a value, or an operand, is one token. *)
LEMMA ScanOne ==
  ASSUME args \in CommandLines, Scanned, at <= Len(args), at' = at + 1, UNCHANGED <<args, limit>>,
         args[at].text # "--steps",
         \/ at \notin Operands /\ UNCHANGED path
         \/ at \in Operands /\ path = NoPath /\ path' = Some(args[at].text)
  PROVE  Scanned'
  <1>1. /\ at \in Nat /\ at >= 1 /\ at' - 1 = at /\ at' \in 1 .. Len(args) + 1
        /\ Positions("--steps") \subseteq Nat /\ Operands \subseteq Nat
    BY ArgFacts DEF Scanned, Positions, Operands
  <1>2. at \notin Positions("--steps") BY DEF Positions
  <1>3. ASSUME NEW k \in Nat PROVE k < at' <=> (k < at \/ k = at) BY <1>1
  <1>4. \A k \in Positions("--steps") : k < at' <=> k < at BY <1>1, <1>2, <1>3
  <1>5. \A k \in Positions("--steps") : k >= at' <=> k >= at BY <1>1, <1>4
  <1>6. \/ path' = NoPath /\ \A k \in Operands : k >= at'
        \/ \E k \in Operands :
             /\ k < at' /\ path' = Some(args[k].text)
             /\ \A j \in Operands : j < at' => j = k
    <2>1. CASE at \notin Operands /\ UNCHANGED path
      <3>1. ASSUME NEW k \in Operands PROVE (k < at' <=> k < at) /\ (k >= at' <=> k >= at)
        <4>1. k \in Nat /\ k # at BY <1>1, <2>1
        <4>2. PICK n \in Nat : n = at /\ at' = n + 1 BY <1>1
        <4>3. (k < n + 1 <=> k < n) /\ (k >= n + 1 <=> k >= n) BY <4>1, <4>2
        <4> QED BY <4>2, <4>3
      <3> QED BY <2>1, <3>1 DEF Scanned
    <2>2. CASE at \in Operands /\ path = NoPath /\ path' = Some(args[at].text)
      <3>1. \A k \in Operands : k >= at BY <2>2 DEF Scanned, NoPath, Some
      <3>2. at < at' /\ \A j \in Operands : j < at' => j = at BY <1>1, <1>3, <3>1
      <3> QED BY <2>2, <3>2
    <2> QED BY <2>1, <2>2
  <1>7. /\ Positions("--steps")' = Positions("--steps") /\ Operands' = Operands
        /\ args' = args /\ limit' = limit
    BY SameArgs
  <1>8. at' \in 1 .. Len(args)' + 1 /\ (at' > 1 => args'[at' - 1].text # "--steps")
    BY <1>1, <1>7
  <1>9. (\A k \in Positions("--steps") : k < at => k < Len(args) /\ args[k + 1].number # NaN)'
    BY <1>4, <1>7 DEF Scanned
  <1>10. \/ limit' = DefaultSteps /\ \A k \in Positions("--steps")' : k >= at'
         \/ \E k \in Positions("--steps")' :
              /\ k < at' /\ limit' = args'[k + 1].number
              /\ \A j \in Positions("--steps")' : j < at' => j <= k
    BY <1>4, <1>5, <1>7 DEF Scanned
  <1>11. \/ path' = NoPath /\ \A k \in Operands' : k >= at'
         \/ \E k \in Operands' :
              /\ k < at' /\ path' = Some(args'[k].text)
              /\ \A j \in Operands' : j < at' => j = k
    BY <1>6, <1>7
  <1> QED BY <1>8, <1>9, <1>10, <1>11 DEF Scanned, NoPath, Some

(* The loop goes on over whatever it takes. *)
LEMMA ScanStep ==
  ASSUME args \in CommandLines, Scanned, TakeSteps \/ TakeDump \/ TakePath PROVE Scanned'
  <1>1. CASE TakeSteps BY <1>1, ScanSteps
  <1>2. CASE TakeDump
    <2>1. /\ at <= Len(args) /\ args[at].text = "--dump-regs" /\ at' = at + 1
          /\ UNCHANGED <<args, path, limit>>
      BY <1>2 DEF TakeDump, Parsing, Arg
    <2>2. at \notin Operands BY <2>1 DEF Operands
    <2> QED BY <2>1, <2>2, ScanOne
  <1>3. CASE TakePath
    <2>1. /\ at <= Len(args) /\ args[at].text \notin {"--steps", "--dump-regs"}
          /\ path = NoPath /\ path' = Some(args[at].text) /\ at' = at + 1
          /\ UNCHANGED <<args, limit>>
      BY <1>3 DEF TakePath, Operand, Parsing, Arg
    <2>2. at \in Operands BY <2>1, ArgFacts DEF Operands, Scanned
    <2> QED BY <2>1, <2>2, ScanOne
  <1> QED BY <1>1, <1>2, <1>3

(* At the end of the line the loop has what the whole line says. *)
LEMMA ScannedAll ==
  ASSUME args \in CommandLines, Scanned, ~WantsHelp, at > Len(args), path # NoPath
  PROVE  /\ WellFormed /\ limit = Requested
         /\ \E k \in Operands : Operands = {k} /\ path[1] = args[k].text
  <1>1. /\ Positions("--steps") \subseteq 1 .. Len(args) /\ Operands \subseteq 1 .. Len(args)
        /\ Len(args) \in Nat /\ at \in Nat
    BY ArgFacts DEF Scanned, Positions, Operands
  <1>2. \A k \in 1 .. Len(args) : k < at /\ ~(k >= at) BY <1>1
  <1>3. PICK k \in Operands : path = Some(args[k].text) /\ \A j \in Operands : j < at => j = k
    BY DEF Scanned
  <1>4. Operands = {k} /\ path[1] = args[k].text BY <1>1, <1>2, <1>3 DEF Some
  <1>5. WellFormed BY <1>1, <1>2, <1>4 DEF WellFormed, Scanned
  <1>6. limit = Requested
    <2>1. CASE limit = DefaultSteps /\ \A j \in Positions("--steps") : j >= at
      <3>1. Positions("--steps") = {} BY <1>1, <1>2, <2>1
      <3> QED BY <2>1, <3>1 DEF Requested
    <2>2. CASE \E j \in Positions("--steps") :
                 /\ j < at /\ limit = args[j + 1].number
                 /\ \A i \in Positions("--steps") : i < at => i <= j
      <3>1. PICK j \in Positions("--steps") :
              /\ limit = args[j + 1].number
              /\ \A i \in Positions("--steps") : i < at => i <= j
        BY <2>2
      <3>2. \A i \in Positions("--steps") : i <= j BY <1>1, <1>2, <3>1
      <3>3. Positions("--steps") \subseteq Nat BY <1>1
      <3>4. Max(Positions("--steps")) = j BY <3>2, <3>3, MaxIs
      <3> QED BY <3>1, <3>4 DEF Requested
    <2> QED BY <2>1, <2>2 DEF Scanned
  <1> QED BY <1>4, <1>5, <1>6

(* An option without its number, a second operand, no operand and a file   *)
(* that cannot be read are all refused rightly.                            *)
LEMMA RefusedRightly ==
  ASSUME args \in CommandLines, ~WantsHelp => Scanned,
         Help \/ RefuseSteps \/ RefuseOperand \/ RefuseNoPath \/ RefuseUnreadable
  PROVE  \A f \in Files : ~AskedFor(f)
  <1>0. Len(args) \in Nat BY ArgFacts
  <1>1. CASE Help BY <1>1 DEF Help, AskedFor, WellFormed
  <1>2. CASE RefuseSteps
    <2>1. at <= Len(args) /\ Scanned /\ args[at].text = "--steps" /\ ~HasNumber
      BY <1>2 DEF RefuseSteps, Parsing, Arg
    <2>2. at \in Positions("--steps") BY <1>0, <2>1 DEF Positions, Scanned
    <2> QED BY <2>1, <2>2 DEF AskedFor, WellFormed, HasNumber
  <1>3. CASE RefuseOperand
    <2>1. /\ at <= Len(args) /\ Scanned /\ path # NoPath
          /\ args[at].text \notin {"--steps", "--dump-regs"}
      BY <1>3 DEF RefuseOperand, Operand, Parsing, Arg
    <2>2. at \in Operands BY <1>0, <2>1 DEF Operands, Scanned
    <2>3. PICK k \in Operands : k < at BY <2>1 DEF Scanned
    <2>4. k # at BY <1>0, <2>3 DEF Operands
    <2> QED BY <2>2, <2>4 DEF AskedFor, WellFormed
  <1>4. CASE RefuseNoPath
    <2>1. at > Len(args) /\ Scanned /\ path = NoPath BY <1>4 DEF RefuseNoPath, Parsed
    <2>2. \A k \in Operands : k >= at BY <2>1 DEF Scanned, NoPath, Some
    <2>3. Operands = {} BY <1>0, <2>1, <2>2 DEF Operands, Scanned
    <2> QED BY <2>3 DEF AskedFor
  <1>5. CASE RefuseUnreadable
    <2>1. /\ at > Len(args) /\ Scanned /\ ~WantsHelp /\ path # NoPath
          /\ path[1] \notin DOMAIN Disk
      BY <1>5 DEF RefuseUnreadable, Parsed
    <2>2. PICK k \in Operands : Operands = {k} /\ path[1] = args[k].text
      BY <2>1, ScannedAll
    <2> QED BY <2>1, <2>2 DEF AskedFor
  <1> QED BY <1>1, <1>2, <1>3, <1>4, <1>5

(***************************************************************************)
(* main, from the arguments to the exit code.                              *)
(***************************************************************************)
(* What the exit code says of the answer of run. *)
Told ==
  /\ exit = 0 => mode = "Halted" /\ res.kind \in {"EnvironmentCall", "Breakpoint"}
  /\ exit = 1 => mode = "Halted" /\ res.kind \notin {"EnvironmentCall", "Breakpoint"}
  /\ exit = 2 /\ mode # "Idle" => mode = "StepLimit"

(* main goes through its phases in order: the hart is new until run is     *)
(* called, the loader's invariant holds until the guest may write to the   *)
(* memory, and the first instruction of the guest finds its image.         *)
PhaseInv ==
  /\ phase \in {"Parsing", "Loading", "Loaded", "Running", "Exited"}
  /\ phase \in {"Parsing", "Loading", "Loaded"} => mode = "Idle" /\ steps = 0 /\ res = Ok
  /\ phase # "Exited" => exit = NoCode
  /\ phase = "Parsing" => Start(NoFile) /\ before = pages
  /\ phase \in {"Loading", "Loaded"} => LoaderInv
  /\ phase = "Loaded" => answer.kind = "Ok" /\ pc = file.entry
  /\ phase = "Running" => mode # "Idle"
  /\ start = 0
  /\ mode # "Idle" => answer.kind = "Ok" /\ header = file.phnum /\ budget = limit
  /\ mode = "Running" /\ steps = 0 => pc = file.entry /\ fuel = budget /\ ImageExact

MainInv == Inv /\ Trapped /\ LineInv /\ PhaseInv /\ Told

(* Whether memory is the image depends on the file and the memory only. *)
LEMMA SameImage ==
  ASSUME UNCHANGED <<file, header, pages, before>> PROVE ImageExact' = ImageExact
  <1>1. \A n, mem : ImageOf(n, mem)' = ImageOf(n, mem) BY SameFile
  <1>2. PICK n, mem : n = header /\ mem = pages OBVIOUS
  <1>3. ImageOf(n, mem)' = ImageOf(n, mem) BY <1>1
  <1> QED BY <1>2, <1>3 DEF ImageOf, ImageExact

(* The loader's invariant outlives load. *)
LEMMA LoaderKept == ASSUME LoaderInv, UNCHANGED loaderVars PROVE LoaderInv'
  <1>1. Answer(answer) BY DEF loaderVars, Answer
  <1> QED BY <1>1, AnswerInv DEF LoaderInv

(* A command line that was accepted stays so. *)
LEMMA AcceptedKept == ASSUME Accepted, UNCHANGED <<args, limit, file>> PROVE Accepted'
  <1>1. /\ Requested' = Requested /\ file' = file /\ limit' = limit
        /\ \A f : AskedFor(f)' <=> AskedFor(f)
    BY SameArgs
  <1>2. PICK f : f = file OBVIOUS
  <1>3. AskedFor(f)' BY <1>1, <1>2 DEF Accepted
  <1>4. AskedFor(file)' BY <1>1, <1>2, <1>3 DEF AskedFor, WellFormed
  <1> QED BY <1>1, <1>4 DEF Accepted

(* A line that asks for no file still asks for none. *)
LEMMA NothingAskedKept ==
  ASSUME UNCHANGED args, \A f \in Files : ~AskedFor(f)
  PROVE  \A f \in Files : ~AskedFor(f)'
  BY SameArgs

(* main returns without having called run. *)
LEMMA RefuseInv ==
  ASSUME MainInv, Refuse, phase \in {"Parsing", "Loading"},
         phase = "Parsing" => \A f \in Files : ~AskedFor(f)
  PROVE  MainInv'
  <1>1. /\ phase' = "Exited" /\ exit' = 2 /\ UNCHANGED <<vars, lineVars, fileVars>>
        /\ mode = "Idle" /\ mode' = "Idle" /\ start' = 0 /\ args' = args /\ limit' = limit
        /\ file' = file
    BY DEF Refuse, Exit, MainInv, PhaseInv, vars, lineVars, fileVars
  <1>2. Inv' BY <1>1, StutterInv DEF MainInv
  <1>3. LineInv'
    <2>1. CASE phase = "Parsing"
      <3>1. file = NoFile /\ \A f \in Files : ~AskedFor(f)'
        BY <1>1, <2>1, NothingAskedKept DEF MainInv, LineInv
      <3>2. Refused' BY <1>1, <3>1 DEF Refused, NoFile
      <3> QED BY <1>1, <3>2 DEF LineInv, MainInv
    <2>2. CASE phase = "Loading"
      <3>1. Accepted BY <2>2 DEF MainInv, LineInv, Refused
      <3>2. Accepted' BY <1>1, <3>1, AcceptedKept
      <3> QED BY <1>1, <3>2 DEF LineInv, MainInv
    <2> QED BY <2>1, <2>2
  <1>4. PhaseInv' /\ Told' /\ Trapped' BY <1>1 DEF PhaseInv, Told, Trapped
  <1> QED BY <1>2, <1>3, <1>4 DEF MainInv

(* The loop takes one argument, or two. *)
LEMMA TakeInv ==
  ASSUME MainInv, TakeSteps \/ TakeDump \/ TakePath PROVE MainInv'
  <1>1. /\ phase = "Parsing" /\ ~WantsHelp /\ Scanned /\ file = NoFile /\ args \in CommandLines
        /\ UNCHANGED <<vars, args, phase, exit, fileVars>>
    BY DEF MainInv, LineInv, TakeSteps, TakeDump, TakePath, Operand, Parsing
  <1>2. Inv' BY <1>1, StutterInv DEF MainInv
  <1>3. Scanned' BY <1>1, ScanStep
  <1>4. LineInv' BY <1>1, <1>3 DEF LineInv, NoFile, fileVars
  <1>5. Start(NoFile)' /\ (before = pages)'
    BY <1>1 DEF MainInv, PhaseInv, Start, NoFile, Pending, vars, fileVars
  <1>6. PhaseInv' /\ Told' /\ Trapped'
    BY <1>1, <1>5 DEF MainInv, PhaseInv, Told, Trapped, vars
  <1> QED BY <1>2, <1>4, <1>6 DEF MainInv

(* The file is read: main hands it to load, with the memory of a new hart. *)
LEMMA ReadInv == ASSUME MainInv, ReadFile PROVE MainInv'
  <1>1. /\ phase = "Parsing" /\ ~WantsHelp /\ Scanned /\ at > Len(args) /\ path # NoPath
        /\ path[1] \in DOMAIN Disk /\ file' = Disk[path[1]] /\ phase' = "Loading"
        /\ args \in CommandLines /\ Start(NoFile) /\ before = pages
        /\ UNCHANGED <<vars, lineVars, exit, header, loaded, answer, before>>
    BY DEF MainInv, LineInv, PhaseInv, ReadFile, Parsed
  <1>2. Inv' /\ IsMemory(pages) BY <1>1, StutterInv DEF MainInv, Inv, TypeOK
  <1>3. LineInv'
    <2>1. PICK k \in Operands : Operands = {k} /\ path[1] = args[k].text
      BY <1>1, ScannedAll
    <2>2. WellFormed /\ limit = Requested BY <1>1, ScannedAll
    <2>3. PICK f : f = Disk[path[1]] OBVIOUS
    <2>4. AskedFor(f) BY <1>1, <2>1, <2>2, <2>3 DEF AskedFor
    <2>5. AskedFor(f)' /\ Requested' = Requested BY <1>1, <2>4, SameArgs DEF lineVars
    <2>6. AskedFor(file)' BY <1>1, <2>3, <2>5 DEF AskedFor, WellFormed
    <2> QED BY <1>1, <2>2, <2>5, <2>6 DEF LineInv, Accepted, lineVars
  <1>4. LoaderInv'
    <2>1. /\ file' \in Files /\ header' = 0 /\ loaded' = 0 /\ answer' = Pending
          /\ before' = pages' /\ IsMemory(pages')
      BY <1>1, <1>2, DiskAssumption DEF Start, vars
    <2> QED BY <2>1, StartsLoading
  <1>5. PhaseInv' /\ Told' /\ Trapped'
    BY <1>1, <1>4 DEF MainInv, PhaseInv, Told, Trapped, vars
  <1> QED BY <1>2, <1>3, <1>5 DEF MainInv

(* load makes one step, on the memory of the hart. *)
LEMMA LoadStepInv == ASSUME MainInv, LoadStep PROVE MainInv'
  <1>1. /\ phase = "Loading" /\ LoadNext /\ LoaderInv /\ mode = "Idle"
        /\ UNCHANGED <<regs, pc, steps, res, mode, fuel, callVars, lineVars, phase, exit>>
    BY DEF MainInv, PhaseInv, LoadStep
  <1>2. LoaderInv' BY <1>1, LoaderStep
  <1>3. IsMemory(pages)' BY <1>2 DEF LoaderInv
  <1>4. Inv'
    BY <1>1, <1>3 DEF MainInv, Inv, TypeOK, Outcome, ZeroRegister, PcAligned, Accounts, callVars
  <1>5. Accepted BY <1>1 DEF MainInv, LineInv, Refused
  <1>6. LineInv' BY <1>1, <1>5, LoadKeeps, AcceptedKept DEF MainInv, LineInv, lineVars
  <1>7. PhaseInv' /\ Told' /\ Trapped'
    BY <1>1, <1>2 DEF MainInv, PhaseInv, Told, Trapped, callVars
  <1> QED BY <1>4, <1>6, <1>7 DEF MainInv

(* pc is set to the file's entry point. *)
LEMMA EnterInv == ASSUME MainInv, EnterAt PROVE MainInv'
  <1>1. /\ phase = "Loading" /\ phase' = "Loaded" /\ LoaderInv /\ answer.kind = "Ok"
        /\ pc' = answer.entry /\ mode = "Idle" /\ steps = 0 /\ args \in CommandLines
        /\ UNCHANGED <<regs, pages, steps, res, mode, fuel, callVars, lineVars, exit, fileVars>>
    BY DEF MainInv, LineInv, PhaseInv, EnterAt
  <1>2. LoaderInv' BY <1>1, LoaderKept DEF loaderVars, fileVars
  <1>3. pc' = file.entry /\ pc' \in Word
    BY <1>1, FilesAssumption DEF LoaderInv, Entry
  <1>4. Inv'
    BY <1>1, <1>3
    DEF MainInv, Inv, TypeOK, IsMemory, Outcome, ZeroRegister, PcAligned, Accounts, callVars
  <1>5. Accepted BY <1>1 DEF MainInv, LineInv, Refused
  <1>6. LineInv' BY <1>1, <1>5, AcceptedKept DEF LineInv, lineVars, fileVars
  <1>7. PhaseInv' /\ Told' /\ Trapped'
    BY <1>1, <1>2, <1>3 DEF MainInv, PhaseInv, Told, Trapped, callVars, fileVars
  <1> QED BY <1>4, <1>6, <1>7 DEF MainInv

(* run is called, on the image of the whole file. *)
LEMMA CallRunInv == ASSUME MainInv, CallRun PROVE MainInv'
  <1>1. /\ phase = "Loaded" /\ phase' = "Running" /\ LoaderInv /\ answer.kind = "Ok"
        /\ pc = file.entry /\ steps = 0 /\ args \in CommandLines /\ exit = NoCode
        /\ Call /\ fuel' = limit /\ UNCHANGED <<lineVars, exit, fileVars>>
    BY DEF MainInv, LineInv, PhaseInv, CallRun
  <1>2. Inv' /\ Trapped' BY <1>1, CallInv DEF MainInv
  <1>3. Accepted BY <1>1 DEF MainInv, LineInv, Refused
  <1>4. LineInv' BY <1>1, <1>3, AcceptedKept DEF LineInv, lineVars, fileVars
  <1>5. /\ mode' = "Running" /\ UNCHANGED <<pc, pages, steps>> /\ start' = steps
        /\ budget' = fuel'
    BY <1>1 DEF Call, hartVars
  <1>6. ImageExact' BY <1>1, <1>5, LoaderInvEnough, SameImage DEF fileVars
  <1>7. answer.kind = "Ok" /\ header = file.phnum BY <1>1 DEF LoaderInv
  <1>8. PhaseInv' BY <1>1, <1>5, <1>6, <1>7 DEF PhaseInv, fileVars, lineVars, NoCode
  <1>9. Told' BY <1>1 DEF Told, NoCode
  <1> QED BY <1>2, <1>4, <1>8, <1>9 DEF MainInv

(* run goes on, or comes to the end of its budget. *)
LEMMA RunInv == ASSUME MainInv, Run PROVE MainInv'
  <1>1. /\ phase = "Running" /\ (Iterate \/ Exhausted) /\ mode = "Running" /\ exit = NoCode
        /\ UNCHANGED <<lineVars, phase, exit, fileVars>> /\ args \in CommandLines
    BY DEF MainInv, LineInv, PhaseInv, Run, Iterate, Exhausted
  <1>2. Inv' /\ Trapped' BY <1>1, StepInv, ExhaustedInv DEF MainInv
  <1>3. Accepted BY <1>1 DEF MainInv, LineInv, Refused
  <1>4. LineInv' BY <1>1, <1>3, AcceptedKept DEF LineInv, lineVars, fileVars
  <1>5. /\ UNCHANGED callVars /\ mode' # "Idle"
        /\ ~(mode' = "Running" /\ steps' = 0)
    <2>1. CASE Iterate
      <3>1. steps \in Nat BY DEF MainInv, Inv, TypeOK
      <3> QED BY <2>1, <3>1, StepEnds
    <2>2. CASE Exhausted BY <2>2 DEF Exhausted
    <2> QED BY <1>1, <2>1, <2>2
  <1>6. PhaseInv'
    BY <1>1, <1>5 DEF MainInv, PhaseInv, fileVars, lineVars, callVars
  <1>7. Told' BY <1>1 DEF Told, NoCode
  <1> QED BY <1>2, <1>4, <1>6, <1>7 DEF MainInv

(* main returns with what run answered. *)
LEMMA ReportInv == ASSUME MainInv, Report PROVE MainInv'
  <1>1. /\ phase = "Running" /\ phase' = "Exited" /\ mode \in {"Halted", "StepLimit"}
        /\ exit' = Code /\ UNCHANGED <<vars, lineVars, fileVars>> /\ args \in CommandLines
    BY DEF MainInv, LineInv, PhaseInv, Report, Exit
  <1>2. Inv' BY <1>1, StutterInv DEF MainInv
  <1>3. Accepted BY <1>1 DEF MainInv, LineInv, Refused
  <1>4. LineInv' BY <1>1, <1>3, AcceptedKept DEF LineInv, lineVars, fileVars
  <1>5. mode' = mode /\ res' = res BY <1>1 DEF vars
  <1>6. Told' BY <1>1, <1>5 DEF Told, Code
  <1>7. PhaseInv' /\ Trapped'
    BY <1>1 DEF MainInv, PhaseInv, Trapped, vars, fileVars, lineVars
  <1> QED BY <1>2, <1>4, <1>6, <1>7 DEF MainInv

(* Every step of main keeps the invariant. *)
LEMMA MainStep == ASSUME MainInv, MainNext PROVE MainInv'
  <1>1. args \in CommandLines /\ (phase = "Parsing" => (~WantsHelp => Scanned))
    BY DEF MainInv, LineInv
  <1>2. CASE Help \/ RefuseSteps \/ RefuseOperand \/ RefuseNoPath \/ RefuseUnreadable
    <2>1. phase = "Parsing" /\ Refuse
      BY <1>2 DEF Help, RefuseSteps, RefuseOperand, RefuseNoPath, RefuseUnreadable, Parsing,
         Operand, Parsed
    <2>2. \A f \in Files : ~AskedFor(f) BY <1>1, <1>2, <2>1, RefusedRightly
    <2> QED BY <2>1, <2>2, RefuseInv
  <1>3. CASE TakeSteps \/ TakeDump \/ TakePath BY <1>3, TakeInv
  <1>4. CASE ReadFile BY <1>4, ReadInv
  <1>5. CASE LoadStep BY <1>5, LoadStepInv
  <1>6. CASE RefuseFile BY <1>6, RefuseInv DEF RefuseFile
  <1>7. CASE EnterAt BY <1>7, EnterInv
  <1>8. CASE CallRun BY <1>8, CallRunInv
  <1>9. CASE Run BY <1>9, RunInv
  <1>10. CASE Report BY <1>10, ReportInv
  <1> QED BY <1>2, <1>3, <1>4, <1>5, <1>6, <1>7, <1>8, <1>9, <1>10 DEF MainNext

(* The invariant reads the variables of main only. *)
LEMMA MainStutter == ASSUME MainInv, UNCHANGED mainVars PROVE MainInv'
  <1>1. UNCHANGED <<vars, args, at, path, limit, phase, exit, fileVars>>
    BY DEF mainVars, lineVars
  <1>2. Inv' BY <1>1, StutterInv DEF MainInv
  <1>3. LineInv'
    <2>1. CASE phase = "Parsing"
      <3>1. /\ Positions("--steps")' = Positions("--steps") /\ Operands' = Operands
            /\ WantsHelp' = WantsHelp
        BY <1>1, SameArgs
      <3>2. Scanned' = Scanned BY <1>1, <3>1 DEF Scanned, NoPath, Some
      <3> QED BY <1>1, <2>1, <3>1, <3>2 DEF MainInv, LineInv, NoFile, fileVars
    <2>2. CASE Accepted /\ phase # "Parsing"
      BY <1>1, <2>2, AcceptedKept DEF MainInv, LineInv, fileVars
    <2>3. CASE Refused
      <3>1. \A f \in Files : ~AskedFor(f)' BY <1>1, <2>3, NothingAskedKept DEF Refused
      <3>2. Refused' BY <1>1, <2>3, <3>1 DEF Refused, NoFile, vars, fileVars
      <3> QED BY <1>1, <2>3, <3>2 DEF MainInv, LineInv, Refused
    <2> QED BY <2>1, <2>2, <2>3 DEF MainInv, LineInv
  <1>4. phase \in {"Loading", "Loaded"} => LoaderInv'
    BY <1>1, LoaderKept DEF MainInv, PhaseInv, loaderVars, vars, fileVars
  <1>5. ImageExact' = ImageExact BY <1>1, SameImage DEF vars, fileVars
  <1>6. phase = "Parsing" => Start(NoFile)'
    BY <1>1 DEF MainInv, PhaseInv, Start, NoFile, Pending, fileVars
  <1>7. PhaseInv'
    BY <1>1, <1>4, <1>5, <1>6 DEF MainInv, PhaseInv, vars, fileVars, NoCode
  <1>8. Told' /\ Trapped' BY <1>1 DEF MainInv, Told, Trapped, vars
  <1> QED BY <1>2, <1>3, <1>7, <1>8 DEF MainInv

(* A new hart, no file and no argument taken. *)
LEMMA MainStart == MainInit => MainInv
  <1> SUFFICES ASSUME MainInit PROVE MainInv OBVIOUS
  <1>1. Inv BY InitInv DEF MainInit
  <1>2. /\ mode = "Idle" /\ steps = 0 /\ start = 0 /\ res = Ok /\ phase = "Parsing"
        /\ exit = NoCode /\ at = 1 /\ path = NoPath /\ limit = DefaultSteps
        /\ args \in CommandLines /\ Start(NoFile) /\ before = pages /\ file = NoFile
    BY DEF MainInit, Init, Start
  <1>3. Scanned \/ WantsHelp
    <2>1. Len(args) \in Nat /\ Positions("--steps") \subseteq Nat /\ Operands \subseteq Nat
      BY <1>2, ArgFacts DEF Positions, Operands
    <2>2. \A k \in Positions("--steps") \cup Operands : k >= 1 /\ ~(k < 1)
      BY <2>1 DEF Positions, Operands
    <2> QED BY <1>2, <2>1, <2>2 DEF Scanned
  <1>4. LineInv BY <1>2, <1>3 DEF LineInv
  <1>5. PhaseInv /\ Told /\ Trapped BY <1>2 DEF PhaseInv, Told, Trapped, NoCode
  <1> QED BY <1>1, <1>4, <1>5 DEF MainInv

(***************************************************************************)
(* What main promises.                                                     *)
(***************************************************************************)
(* The invariant of main holds for every command line, every disk and      *)
(* every program on it (bin/hartbeat.rs 21-96).                            *)
THEOREM MainSafety == MainSpec => []MainInv
  BY MainStart, MainStep, MainStutter, PTL DEF MainSpec

(* The file the arguments name is read and run with the budget of the last *)
(* --steps, and a command line is turned away only if it asks for none.    *)
THEOREM ArgumentsAreObeyed == MainSpec => []ObeysCommandLine
  <1>1. MainInv => ObeysCommandLine
    BY DEF MainInv, LineInv, PhaseInv, Accepted, Refused, ObeysCommandLine
  <1> QED BY <1>1, MainSafety, PTL

(* The guest starts at its entry point, on its image and nothing else.     *)
THEOREM RunsTheImage == MainSpec => []StartsOnTheImage
  <1>1. MainInv => StartsOnTheImage BY DEF MainInv, PhaseInv, StartsOnTheImage
  <1> QED BY <1>1, MainSafety, PTL

(* The trap that is due where a guest has finished is that of its ecall or *)
(* ebreak, and nowhere else.                                               *)
LEMMA DueFinishes ==
  ASSUME Inv, NEW t, TrapDue(t)
  PROVE  t.kind \in {"EnvironmentCall", "Breakpoint"}
           <=> FetchOutcome = Ok /\ Current.kind \in {"Ecall", "Ebreak"}
  <1> DEFINE Faulty(u) == u.kind \in {"MisalignedAccess", "AccessFault"}
  <1>0. pc \in Word /\ 4 \in {1, 2, 4} /\ TypeOK /\ IsMemory(pages) BY DEF Inv, TypeOK
  <1>1. ASSUME NEW a \in Word, NEW n \in {1, 2, 4}, Access(pages, a, n, pc) # Ok
        PROVE  Faulty(Access(pages, a, n, pc))
    BY <1>0, <1>1, AccessTrap, SMT DEF Misaligned, AccessFault
  <1>2. \A a, n : Faulty(Misaligned(pc, a, n)) BY SMT DEF Misaligned
  <1>3. CASE FetchOutcome # Ok /\ t = FetchOutcome
    <2>1. Faulty(t) BY <1>0, <1>1, <1>2, <1>3 DEF FetchOutcome
    <2> QED BY <1>3, <2>1
  <1>4. CASE FetchOutcome = Ok /\ ExecTrap(Current, t)
    <2>1. Current \in Instr \cup {Illegal} BY <1>0, <1>4, FetchFacts
    <2>2. CASE Current.kind = "Illegal" /\ t = IllegalInstruction(Fetched)
      BY <2>2, SMT DEF IllegalInstruction
    <2>3. CASE Current.kind \in {"Load", "Store"} /\ DataOutcome(Current) # Ok
               /\ t = DataOutcome(Current)
      <3>1. Current \in Instr BY <2>1, <2>3, SMT DEF Illegal
      <3>2. Current.imm \in Int /\ Current.rs1 \in Reg BY <2>3, <3>1, InstrFacts
      <3>3. EffectiveAddr(Current) \in Word /\ Width(Current.op) \in {1, 2, 4}
        BY <1>0, <3>2, TargetTypes, WidthType
      <3>4. Faulty(t) BY <1>1, <2>3, <3>3 DEF DataOutcome
      <3> QED BY <2>3, <3>4
    <2>4. CASE Current.kind \in {"Jal", "Jalr", "Branch"} /\ \E a : t = Misaligned(pc, a, 4)
      <3>1. Faulty(t) BY <1>2, <2>4
      <3> QED BY <2>4, <3>1
    <2>5. CASE Current.kind = "Ecall" /\ t = SystemTrap("EnvironmentCall")
      BY <1>4, <2>5, SMT DEF SystemTrap
    <2>6. CASE Current.kind = "Ebreak" /\ t = SystemTrap("Breakpoint")
      BY <1>4, <2>6, SMT DEF SystemTrap
    <2> QED BY <1>4, <2>2, <2>3, <2>4, <2>5, <2>6 DEF ExecTrap
  <1> QED BY <1>3, <1>4 DEF TrapDue

(* A trap that was reported to main is still due when main reports it.     *)
LEMMA MainTrapStands ==
  ASSUME MainInv, PageSize % 4 = 0, TrapStands, [MainNext]_mainVars
  PROVE  TrapStands'
  <1>1. Inv BY DEF MainInv
  <1>2. CASE phase = "Running" /\ [Next]_vars BY <1>1, <1>2, TrapStandsStep
  <1>3. CASE UNCHANGED vars BY <1>1, <1>3, TrapStandsStep
  <1>4. CASE res' = Ok BY <1>4 DEF TrapStands
  <1>5. CASE LoadStep \/ EnterAt
    <2>1. res' = Ok BY <1>5 DEF MainInv, PhaseInv, LoadStep, EnterAt
    <2> QED BY <1>4, <2>1
  <1>6. CASE CallRun
    <2>1. res' = Ok BY <1>6 DEF MainInv, PhaseInv, CallRun, Call
    <2> QED BY <1>4, <2>1
  <1>7. CASE Run BY <1>2, <1>7 DEF Run, Next
  <1>8. CASE Report \/ ReadFile \/ RefuseFile BY <1>3, <1>8 DEF Report, ReadFile, RefuseFile, Refuse
  <1>9. CASE TakeSteps \/ TakeDump \/ TakePath
    BY <1>3, <1>9 DEF TakeSteps, TakeDump, TakePath
  <1>10. CASE Help \/ RefuseSteps \/ RefuseOperand \/ RefuseNoPath \/ RefuseUnreadable
    BY <1>3, <1>10
    DEF Help, RefuseSteps, RefuseOperand, RefuseNoPath, RefuseUnreadable, Refuse
  <1>11. CASE UNCHANGED mainVars BY <1>3, <1>11 DEF mainVars
  <1> QED BY <1>5, <1>6, <1>7, <1>8, <1>9, <1>10, <1>11 DEF MainNext

(* The exit code tells how the guest ended, by the instruction it stands   *)
(* at, and says so of the whole budget and no more than it.                *)
THEOREM ExitCodeTellsTheTruth ==
  ASSUME PageSize % 4 = 0 PROVE MainSpec => []ExitCodeTruthful
  <1>1. MainInit => TrapStands BY DEF MainInit, Init, TrapStands
  <1>2. MainInv /\ TrapStands /\ [MainNext]_mainVars => TrapStands' BY MainTrapStands
  <1>3. MainInv /\ TrapStands => ExitCodeTruthful
    <2> SUFFICES ASSUME MainInv, TrapStands PROVE ExitCodeTruthful OBVIOUS
    <2> DEFINE finished == FetchOutcome = Ok /\ Current.kind \in {"Ecall", "Ebreak"}
    <2>1. /\ exit = 0 => mode = "Halted" /\ res.kind \in {"EnvironmentCall", "Breakpoint"}
          /\ exit = 1 => mode = "Halted" /\ res.kind \notin {"EnvironmentCall", "Breakpoint"}
          /\ exit = 2 /\ mode # "Idle" => mode = "StepLimit"
      BY DEF MainInv, Told
    <2>2. mode = "Halted" => (res.kind \in {"EnvironmentCall", "Breakpoint"} <=> finished)
      <3>1. SUFFICES ASSUME mode = "Halted"
                     PROVE  res.kind \in {"EnvironmentCall", "Breakpoint"} <=> finished
        OBVIOUS
      <3>2. PICK t : t = res OBVIOUS
      <3>3. TrapDue(t) BY <3>1, <3>2 DEF MainInv, Trapped, TrapStands
      <3> QED BY <3>2, <3>3, DueFinishes DEF MainInv
    <2>3. mode # "Idle" => budget = Requested /\ start = 0
      BY DEF MainInv, LineInv, PhaseInv, Accepted, Refused
    <2>4. /\ mode = "Halted" => steps < Requested
          /\ mode = "StepLimit" => steps = Requested
      <3>1. budget \in Nat /\ steps \in Nat BY DEF MainInv, Inv, TypeOK
      <3>2. /\ mode = "Halted" => steps < start + budget
            /\ mode = "StepLimit" => steps = start + budget
        BY DEF MainInv, Inv, Accounts
      <3> QED BY <2>3, <3>1, <3>2
    <2> HIDE DEF finished
    <2>5. /\ exit = 0 => finished /\ steps < Requested
          /\ exit = 1 => ~finished /\ steps < Requested
          /\ exit = 2 /\ mode # "Idle" => steps = Requested
      BY <2>1, <2>2, <2>4
    <2> QED BY <2>5 DEF ExitCodeTruthful, finished
  <1> QED BY <1>1, <1>2, <1>3, MainSafety, PTL DEF MainSpec

(* What is left of main: its phase, and what that still has to do.         *)
MainLeft ==
  CASE phase = "Parsing" -> <<4, IF WantsHelp THEN 0 ELSE ToGo(at, Len(args) + 1)>>
    [] phase = "Loading" -> <<3, LoadLeft>>
    [] phase = "Loaded" -> <<2, 0>>
    [] phase = "Running" -> <<1, fuel + (IF mode = "Running" THEN 1 ELSE 0)>>
    [] phase = "Exited" -> <<0, 0>>

(* What is left is a rank for the phase and a number. *)
MainLeftTyped ==
  \E n \in Nat :
    \/ phase = "Parsing" /\ MainLeft = <<4, n>>
    \/ phase = "Loading" /\ MainLeft = <<3, n>>
    \/ phase = "Loaded" /\ MainLeft = <<2, n>>
    \/ phase = "Running" /\ MainLeft = <<1, n>>
    \/ phase = "Exited" /\ MainLeft = <<0, n>>

(* In every phase what is left is a number. *)
LEMMA MainLeftType == MainInv => MainLeftTyped
  <1> SUFFICES ASSUME MainInv PROVE MainLeftTyped OBVIOUS
  <1> USE DEF MainLeftTyped
  <1>1. CASE phase = "Parsing"
    <2>1. WantsHelp \/ (at \in Nat /\ Len(args) + 1 \in Nat)
      BY <1>1, ArgFacts DEF MainInv, LineInv, Scanned
    <2>2. (IF WantsHelp THEN 0 ELSE ToGo(at, Len(args) + 1)) \in Nat BY <2>1, ToGoFacts
    <2> QED BY <1>1, <2>2 DEF MainLeft
  <1>2. CASE phase = "Loading"
    <2>1. header \in Nat /\ file.phnum \in Nat
      BY <1>2, FilesAssumption DEF MainInv, PhaseInv, LoaderInv
    <2>2. ToGo(header, file.phnum) \in Nat BY <2>1, ToGoFacts
    <2>3. LoadLeft \in Nat BY <2>2 DEF LoadLeft
    <2> QED BY <1>2, <2>3 DEF MainLeft
  <1>3. CASE phase = "Running"
    <2>1. fuel \in Nat BY DEF MainInv, Inv, TypeOK
    <2>2. fuel + (IF mode = "Running" THEN 1 ELSE 0) \in Nat BY <2>1
    <2> QED BY <1>3, <2>2 DEF MainLeft
  <1>4. CASE phase \in {"Loaded", "Exited"} BY <1>4 DEF MainLeft
  <1> QED BY <1>1, <1>2, <1>3, <1>4 DEF MainInv, PhaseInv

(* The loop over the arguments leaves fewer of them. *)
LEMMA TakeDescends ==
  ASSUME MainInv, TakeSteps \/ TakeDump \/ TakePath
  PROVE  PairDescends(MainLeft', MainLeft)
  <1>1. /\ phase = "Parsing" /\ phase' = phase /\ ~WantsHelp /\ Scanned /\ args' = args
        /\ at <= Len(args) /\ at' \in {at + 1, at + 2}
        /\ args \in CommandLines
    BY DEF MainInv, LineInv, TakeSteps, TakeDump, TakePath, Operand, Parsing
  <1>2. PICK n \in Nat, m \in Nat : n = at /\ m = Len(args) /\ n <= m
    BY <1>1, ArgFacts DEF Scanned
  <1>3. ~WantsHelp' BY <1>1, SameArgs
  <1>4. MainLeft = <<4, ToGo(n, m + 1)>> BY <1>1, <1>2 DEF MainLeft
  <1>5. PICK d \in {1, 2} : MainLeft' = <<4, ToGo(n + d, m + 1)>>
    BY <1>1, <1>2, <1>3 DEF MainLeft
  <1>6. /\ ToGo(n, m + 1) \in Nat /\ ToGo(n + d, m + 1) \in Nat
        /\ ToGo(n + d, m + 1) < ToGo(n, m + 1)
    <2>1. CASE d = 1 BY <1>2, <2>1 DEF ToGo
    <2>2. CASE d = 2 BY <1>2, <2>2 DEF ToGo
    <2> QED BY <2>1, <2>2
  <1> QED BY <1>4, <1>5, <1>6, PairLower

(* run leaves less of its budget, or returns. *)
LEMMA RunDescends ==
  ASSUME MainInv, Run PROVE PairDescends(MainLeft', MainLeft)
  <1>1. /\ phase = "Running" /\ phase' = phase /\ (Iterate \/ Exhausted) /\ mode = "Running"
        /\ fuel \in Nat
    BY DEF MainInv, Inv, TypeOK, Run, Iterate, Exhausted
  <1>2. MainLeft = <<1, fuel + 1>> BY <1>1 DEF MainLeft
  <1>3. \/ mode' # "Running" /\ fuel' = fuel
        \/ mode' = "Running" /\ fuel' = fuel - 1 /\ fuel > 0
    BY <1>1, StepEnds DEF Exhausted, Iterate
  <1>4. CASE mode' # "Running" /\ fuel' = fuel
    <2>1. MainLeft' = <<1, fuel>> BY <1>1, <1>4 DEF MainLeft
    <2>2. fuel + 1 \in Nat /\ fuel < fuel + 1 /\ 1 \in Nat BY <1>1
    <2> QED BY <1>1, <1>2, <2>1, <2>2, PairLower
  <1>5. CASE mode' = "Running" /\ fuel' = fuel - 1 /\ fuel > 0
    <2>1. MainLeft' = <<1, (fuel - 1) + 1>> BY <1>1, <1>5 DEF MainLeft
    <2>2. (fuel - 1) + 1 \in Nat /\ fuel + 1 \in Nat /\ (fuel - 1) + 1 < fuel + 1 /\ 1 \in Nat
      BY <1>1
    <2> QED BY <1>2, <2>1, <2>2, PairLower
  <1> QED BY <1>3, <1>4, <1>5

(* The program never goes on for ever: each step of main, of load and of   *)
(* run leaves less to do, whatever the arguments, the file and the guest   *)
(* (bin/hartbeat.rs 21-96).                                                *)
THEOREM MainDescends == MainSpec => [][PairDescends(MainLeft', MainLeft)]_mainVars
  <1>0. MainInv' => MainLeftTyped' BY MainLeftType, PTL
  <1>1. MainInv /\ [MainNext]_mainVars => [PairDescends(MainLeft', MainLeft)]_mainVars
    <2> SUFFICES ASSUME MainInv, MainNext PROVE PairDescends(MainLeft', MainLeft) OBVIOUS
    <2>1. MainInv' BY MainStep
    <2>2. MainLeftTyped BY MainLeftType
    <2>3. MainLeftTyped' BY <1>0, <2>1
    <2>4. CASE \/ phase = "Parsing" /\ phase' \in {"Loading", "Exited"}
               \/ phase = "Loading" /\ phase' \in {"Loaded", "Exited"}
               \/ phase = "Loaded" /\ phase' = "Running"
               \/ phase = "Running" /\ phase' = "Exited"
      <3>1. PICK a \in Nat, b \in Nat, c \in Nat, d \in Nat :
              MainLeft' = <<a, b>> /\ MainLeft = <<c, d>> /\ a < c
        BY <2>2, <2>3, <2>4 DEF MainLeftTyped
      <3> QED BY <3>1, PairLower
    <2>5. CASE TakeSteps \/ TakeDump \/ TakePath BY <2>5, TakeDescends
    <2>6. CASE LoadStep
      <3>1. phase = "Loading" /\ phase' = "Loading" /\ LoaderInv /\ LoadNext
        BY <2>6 DEF LoadStep, MainInv, PhaseInv
      <3>2. LoadLeft \in Nat /\ LoadLeft' \in Nat /\ LoadLeft' < LoadLeft /\ 3 \in Nat
        BY <3>1, LoadStepDescends DEF LoadLessLeft
      <3>3. MainLeft = <<3, LoadLeft>> /\ MainLeft' = <<3, LoadLeft'>> BY <3>1 DEF MainLeft
      <3> QED BY <3>2, <3>3, PairLower
    <2>7. CASE Run BY <2>7, RunDescends
    <2>8. CASE \/ Help \/ RefuseSteps \/ RefuseOperand \/ RefuseNoPath \/ RefuseUnreadable
               \/ ReadFile \/ RefuseFile \/ EnterAt \/ CallRun \/ Report
      BY <2>4, <2>8
      DEF Help, RefuseSteps, RefuseOperand, RefuseNoPath, RefuseUnreadable, ReadFile, RefuseFile,
          EnterAt, CallRun, Report, Refuse, Exit, Parsing, Operand, Parsed
    <2> QED BY <2>5, <2>6, <2>7, <2>8 DEF MainNext
  <1> QED BY <1>1, MainSafety, PTL DEF MainSpec

=============================================================================
