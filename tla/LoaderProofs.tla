---------------------------- MODULE LoaderProofs ----------------------------
(***************************************************************************)
(* Theorems about the loader, for every size of the memory and every       *)
(* section table: sections of any number, size, order and place.           *)
(***************************************************************************)
EXTENDS Loader, TLAPS

Addresses == 0 .. 16 * MemWords - 1
Byte == Nat \X Nat
Word == [0 .. 3 -> Byte]

Files == [kind : {"none", "missing", "bad magic", "bad class"}, table : {<< >>}]
        \cup [kind : {"elf"}, table : Seq(Header)]

TypeOK ==
  /\ file \in Files
  /\ at \in {"main", "sections", "words", "simulate", "return 1"}
  /\ section \in Nat \ {0} /\ offset \in Nat /\ addr \in Addresses
  /\ mem \in [0 .. MemWords - 1 -> Word]

(* While a section is copied, addr is the place of the byte at offset, and *)
(* offset stops at the first multiple of 4 that is not below the size; the *)
(* simulation starts after the last section.                               *)
Cursor ==
  /\ at = "words" =>
       /\ section \in Sections /\ Copied(sh)
       /\ offset % 4 = 0 /\ offset < sh.size + 4
       /\ NoneWraps => addr = sh.addr + offset
  /\ at = "simulate" => section > Len(file.table)

(* The bytes of section i that have been copied. *)
Done(i, b) ==
  \/ i < section
  \/ i = section /\ at = "words" /\ b < file.table[i].addr + offset

InPlace ==
  LaidOut => \A i \in Sections : Copied(file.table[i]) =>
    \A b \in Bytes(i) : InBounds(b) /\ Done(i, b) => Holds(b) = << i, b - file.table[i].addr >>

NoStray ==
  NoneWraps => \A b \in 0 .. 4 * MemWords - 1 :
    Holds(b) = Zero \/ \E i \in Sections : Copied(file.table[i]) /\ b \in Reach(i)

(* What the proofs need of the file: it has a table of headers. *)
LEMMA Headers ==
  TypeOK => /\ Len(file.table) \in Nat
            /\ \A i \in Sections : file.table[i] \in Header
            /\ file.kind = "missing" => file.table = << >>
<1> SUFFICES ASSUME TypeOK
             PROVE  /\ Len(file.table) \in Nat
                    /\ \A i \in Sections : file.table[i] \in Header
                    /\ file.kind = "missing" => file.table = << >>
  OBVIOUS
<1>1. CASE file \in [kind : {"none", "missing", "bad magic", "bad class"}, table : {<< >>}]
  <2>1. file.table = << >>
    BY <1>1
  <2> QED
    BY <2>1 DEF Sections
<1>2. CASE file \in [kind : {"elf"}, table : Seq(Header)]
  <2>1. file.kind = "elf" /\ file.table \in Seq(Header)
    BY <1>2
  <2> QED
    BY <2>1 DEF Sections
<1> QED
  BY <1>1, <1>2 DEF TypeOK, Files

(* What is said of the file does not change while it is loaded. *)
LEMMA SameFile ==
  ASSUME file' = file
  PROVE  /\ NoneWraps' = NoneWraps /\ LaidOut' = LaidOut /\ Sections' = Sections
         /\ \A i \in Sections : Bytes(i)' = Bytes(i) /\ Reach(i)' = Reach(i)
BY DEF NoneWraps, LaidOut, Sections, Bytes, Reach, Copied

(* The bounds check of unified_mem.cpp lets through the addresses of the   *)
(* memory, negative ones included in those that it refuses.                *)
LEMMA InMemory ==
  ASSUME NEW a \in Addresses
  PROVE  /\ InBounds(a) <=> a < 4 * MemWords
         /\ InBounds(a) => Index(a) = a \div 4 /\ Index(a) \in 0 .. MemWords - 1
BY LoaderAssumption DEF Addresses, InBounds, Index

(* A write replaces the four bytes of its word and no other. *)
LEMMA WriteStep ==
  ASSUME TypeOK, NEW a \in Addresses, NEW word \in Word, write_mem(a, word)
  PROVE  /\ mem' \in [0 .. MemWords - 1 -> Word]
         /\ \A b \in 0 .. 4 * MemWords - 1 :
              Holds(b)' = IF b \div 4 = a \div 4 THEN word[b % 4] ELSE Holds(b)
<1>1. mem \in [0 .. MemWords - 1 -> Word]
  BY DEF TypeOK
<1>2. mem' \in [0 .. MemWords - 1 -> Word]
  BY <1>1, InMemory DEF write_mem
<1>3. ASSUME NEW b \in 0 .. 4 * MemWords - 1
      PROVE  Holds(b)' = IF b \div 4 = a \div 4 THEN word[b % 4] ELSE Holds(b)
  <2>1. b \in Addresses /\ MemWords \in Nat
    BY LoaderAssumption DEF Addresses
  <2>2. InBounds(b) /\ Index(b) = b \div 4 /\ b \div 4 \in 0 .. MemWords - 1
    BY <2>1, InMemory
  <2>3. Holds(b) = mem[b \div 4][b % 4] /\ Holds(b)' = mem'[b \div 4][b % 4]
    BY <2>2 DEF Holds, read_mem
  <2>4. CASE InBounds(a)
    <3>1. Index(a) = a \div 4
      BY <2>4, InMemory
    <3>2. mem' = [mem EXCEPT ![a \div 4] = word]
      BY <2>4, <3>1 DEF write_mem
    <3>3. mem'[b \div 4] = IF b \div 4 = a \div 4 THEN word ELSE mem[b \div 4]
      BY <1>1, <2>2, <3>2
    <3> QED
      BY <2>3, <3>3
  <2>5. CASE ~InBounds(a)
    <3>1. a >= 4 * MemWords
      BY <2>5, InMemory, LoaderAssumption DEF Addresses
    <3>2. b \div 4 # a \div 4
      BY <2>1, <3>1 DEF Addresses
    <3>3. mem' = mem
      BY <2>5 DEF write_mem
    <3> QED
      BY <2>3, <3>2, <3>3
  <2> QED
    BY <2>4, <2>5
<1> QED
  BY <1>2, <1>3

(* The word that the copying loop writes, and the one after the loop. *)
CopiedWord(past) ==
  [k \in 0 .. 3 |-> IF offset + k < sh.size THEN << section, offset + k >> ELSE past]
TailWord(n) ==
  [k \in 0 .. 3 |-> IF k < n THEN << section, sh.size - n + k >> ELSE Zero]

LEMMA Words ==
  ASSUME TypeOK, section \in Sections
  PROVE  /\ sh \in Header /\ sh.size \in Nat /\ sh.addr \in Addresses
         /\ \A past \in {Zero, Junk} : CopiedWord(past) \in Word
         /\ TailWord(sh.size % 4) \in Word
<1>1. section \in Nat \ {0} /\ offset \in Nat
  BY DEF TypeOK
<1>2. sh \in Header
  BY Headers DEF sh
<1>3. sh.size \in Nat /\ sh.addr \in Addresses
  BY <1>2 DEF Header, Addresses
<1>4. Zero \in Byte /\ Junk \in Byte
  BY DEF Zero, Junk, Byte
<1>5. ASSUME NEW past \in {Zero, Junk}
      PROVE  CopiedWord(past) \in Word
  <2>1. \A k \in 0 .. 3 : << section, offset + k >> \in Byte
    BY <1>1 DEF Byte
  <2> QED
    BY <1>4, <2>1 DEF CopiedWord, Word
<1>6. TailWord(sh.size % 4) \in Word
  <2> DEFINE size == sh.size
             n == size % 4
  <2>1. size \in Nat /\ n \in 0 .. 3 /\ n <= size
    BY <1>3
  <2> HIDE DEF size, n
  <2>2. \A k \in 0 .. 3 : << section, size - n + k >> \in Byte
    BY <1>1, <2>1 DEF Byte
  <2>3. TailWord(n) \in Word
    BY <1>4, <2>2 DEF TailWord, Word, size
  <2> QED
    BY <2>3 DEF n, size
<1> QED
  BY <1>2, <1>3, <1>5, <1>6

(* addr + 4 is the place of the next word, where it does not wrap. *)
LEMMA NextAddress ==
  ASSUME NEW a \in Addresses
  PROVE  /\ (a + 4) % (16 * MemWords) \in Addresses
         /\ a + 4 < 16 * MemWords => (a + 4) % (16 * MemWords) = a + 4
<1> DEFINE m == 16 * MemWords
           b == a + 4
<1>1. m \in Nat \ {0} /\ b \in Nat
  BY LoaderAssumption DEF Addresses
<1> HIDE DEF m, b
<1>2. b % m \in 0 .. m - 1 /\ (b < m => b % m = b)
  BY <1>1
<1> QED
  BY <1>2 DEF m, b, Addresses

Typed == TypeOK /\ Cursor

LEMMA InitTyped == Init => Typed
<1> SUFFICES ASSUME Init
             PROVE  Typed
  OBVIOUS
<1>1. ZeroWord \in Word
  BY DEF ZeroWord, Zero, Word, Byte
<1>2. addr \in Addresses
  <2>1. addr = 0
    BY DEF Init
  <2> QED
    BY <2>1, LoaderAssumption DEF Addresses
<1>3. mem \in [0 .. MemWords - 1 -> Word]
  BY <1>1 DEF Init
<1>4. file \in Files
  BY LoaderAssumption DEF Init, Files
<1>5. TypeOK
  <2>1. at = "main" /\ section = 1 /\ offset = 0
    BY DEF Init
  <2> QED
    BY <1>2, <1>3, <1>4, <2>1 DEF TypeOK
<1> QED
  BY <1>5 DEF Init, Typed, Cursor

LEMMA TypedCorrect == Spec => []Typed
<1>1. Typed /\ [Next]_vars => Typed'
  <2> SUFFICES ASSUME TypeOK, Cursor, [Next]_vars
               PROVE  TypeOK' /\ Cursor'
    BY DEF Typed
  <2>0. /\ section \in Nat \ {0} /\ offset \in Nat /\ addr \in Addresses
        /\ Len(file.table) \in Nat
    BY Headers DEF TypeOK
  <2>1. CASE NoArgument \/ Rejected \/ ReadHeaders
    BY <2>1 DEF NoArgument, Rejected, ReadHeaders, Goto, TypeOK, Cursor
  <2>2. CASE CannotOpen
    <3>1. Len(file.table) = 0
      BY <2>2, Headers DEF CannotOpen
    <3>2. section > Len(file.table)
      BY <2>0, <3>1
    <3> QED
      BY <2>2, <3>2 DEF CannotOpen, Goto, TypeOK, Cursor
  <2>3. CASE Loaded
    BY <2>3 DEF Loaded, Goto, TypeOK, Cursor
  <2>4. CASE SkipSection
    BY <2>0, <2>4 DEF SkipSection, TypeOK, Cursor
  <2>5. CASE EnterSection
    <3>1. section \in Sections
      BY <2>0, <2>5 DEF EnterSection, Sections
    <3>2. sh.addr \in Addresses /\ sh.size \in Nat
      BY <3>1, Words
    <3>3. sh' = sh /\ Sections' = Sections /\ Copied(sh)
      BY <2>5 DEF EnterSection, sh, Sections
    <3>4. TypeOK'
      BY <2>5, <3>2 DEF EnterSection, TypeOK
    <3>5. addr' = sh.addr + 0
      BY <2>5, <3>2 DEF EnterSection, Addresses
    <3> QED
      BY <2>5, <3>1, <3>2, <3>3, <3>4, <3>5 DEF EnterSection, Cursor, Copied
  <2>6. CASE WriteWord
    <3>1. /\ section \in Sections /\ Copied(sh) /\ offset < sh.size /\ offset % 4 = 0
          /\ NoneWraps => addr = sh.addr + offset
      BY <2>6 DEF WriteWord, MoreWords, Cursor
    <3>2. sh.addr \in Addresses /\ sh.size \in Nat
      BY <3>1, Words
    <3>3. sh' = sh /\ Sections' = Sections /\ NoneWraps' = NoneWraps
      BY <2>6, SameFile DEF WriteWord, sh
    <3>4. PICK past \in {Zero, Junk} : write_mem(addr, CopiedWord(past))
      BY <2>6 DEF WriteWord, CopiedWord
    <3>5. mem' \in [0 .. MemWords - 1 -> Word]
      BY <2>0, <3>1, <3>4, Words, WriteStep
    <3>6. /\ at' = "words" /\ section' = section /\ file' = file
          /\ offset' = offset + 4 /\ addr' = (addr + 4) % (16 * MemWords)
      BY <2>6 DEF WriteWord
    <3>7. TypeOK'
      <4>1. addr' \in Addresses /\ offset' \in Nat
        BY <2>0, <3>6, NextAddress
      <4> QED
        BY <3>5, <3>6, <4>1 DEF TypeOK
    <3>8. NoneWraps => addr' = sh.addr + offset'
      <4>1. NoneWraps => sh.addr + sh.size + 4 < 16 * MemWords
        BY <3>1 DEF NoneWraps, sh
      <4>2. addr + 4 < 16 * MemWords => addr' = addr + 4
        BY <2>0, <3>6, NextAddress
      <4>3. NoneWraps => addr + 4 < 16 * MemWords
        BY <2>0, <3>1, <3>2, <4>1, LoaderAssumption DEF Addresses
      <4> QED
        BY <2>0, <3>1, <3>2, <3>6, <4>2, <4>3 DEF Addresses
    <3>9. offset' % 4 = 0 /\ offset' < sh.size + 4
      BY <2>0, <3>1, <3>2, <3>6
    <3> QED
      BY <3>1, <3>3, <3>6, <3>7, <3>8, <3>9 DEF Cursor
  <2>7. CASE EndSection
    <3>1. section \in Sections
      BY <2>7 DEF EndSection, Cursor
    <3>2. mem' \in [0 .. MemWords - 1 -> Word]
      <4>1. CASE sh.size % 4 # 0
        <5>1. write_mem(addr, TailWord(sh.size % 4))
          BY <2>7, <4>1 DEF EndSection, WriteTail, TailWord
        <5> QED
          BY <2>0, <3>1, <5>1, Words, WriteStep
      <4> QED
        BY <2>7, <4>1 DEF EndSection, TypeOK
    <3>3. TypeOK'
      BY <2>0, <2>7, <3>2 DEF EndSection, TypeOK
    <3> QED
      BY <2>7, <3>3 DEF EndSection, Cursor
  <2>8. CASE Ended \/ UNCHANGED vars
    <3>1. UNCHANGED vars
      BY <2>8 DEF Ended
    <3>2. NoneWraps' = NoneWraps
      BY <3>1, SameFile DEF vars
    <3> QED
      BY <3>1, <3>2 DEF vars, TypeOK, Cursor, sh, Sections
  <2> QED
    BY <2>1, <2>2, <2>3, <2>4, <2>5, <2>6, <2>7, <2>8 DEF Next
<1> QED
  BY <1>1, InitTyped, PTL DEF Spec

(* The cursor of extract_sections and the memory keep their types          *)
(* (elf_reader.cpp, unified_mem.cpp): the 32-bit address wraps, no access  *)
(* leaves mem, and the copying loop stays within the section table.        *)
THEOREM TypeCorrect == Spec => []TypeOK
<1>1. Typed => TypeOK
  BY DEF Typed
<1> QED
  BY <1>1, TypedCorrect, PTL
-----------------------------------------------------------------------------
(* One step of the copying loop, in terms of the bytes of the memory. *)
LEMMA CopyStep ==
  ASSUME Typed, WriteWord
  PROVE  /\ section \in Sections /\ Copied(sh) /\ sh \in Header /\ offset < sh.size
         /\ file' = file /\ section' = section /\ at = "words" /\ at' = "words"
         /\ offset' = offset + 4
         /\ \E past \in {Zero, Junk} : \A b \in 0 .. 4 * MemWords - 1 :
              Holds(b)' = IF b \div 4 = addr \div 4 THEN CopiedWord(past)[b % 4] ELSE Holds(b)
<1>1. TypeOK /\ Cursor
  BY DEF Typed
<1>2. /\ section \in Sections /\ Copied(sh) /\ offset < sh.size
      /\ file' = file /\ section' = section /\ at = "words" /\ at' = "words"
      /\ offset' = offset + 4
  BY <1>1 DEF Cursor, WriteWord, MoreWords
<1>3. PICK past \in {Zero, Junk} : write_mem(addr, CopiedWord(past))
  BY DEF WriteWord, CopiedWord
<1>4. CopiedWord(past) \in Word /\ sh \in Header
  BY <1>1, <1>2, Words
<1>5. addr \in Addresses
  BY <1>1 DEF TypeOK
<1>6. \A b \in 0 .. 4 * MemWords - 1 :
        Holds(b)' = IF b \div 4 = addr \div 4 THEN CopiedWord(past)[b % 4] ELSE Holds(b)
  BY <1>1, <1>3, <1>4, <1>5, WriteStep
<1> QED
  BY <1>2, <1>4, <1>6

(* The end of a section changes no byte outside the word at addr. *)
LEMMA EndStep ==
  ASSUME Typed, EndSection
  PROVE  /\ section \in Sections /\ Copied(sh) /\ sh \in Header
         /\ offset >= sh.size /\ offset < sh.size + 4 /\ offset % 4 = 0
         /\ file' = file /\ section' = section + 1 /\ at = "words" /\ at' = "sections"
         /\ \A b \in 0 .. 4 * MemWords - 1 :
              Holds(b)' # Holds(b) => sh.size % 4 # 0 /\ b \div 4 = addr \div 4
<1>1. TypeOK /\ Cursor
  BY DEF Typed
<1>2. /\ section \in Sections /\ Copied(sh) /\ offset < sh.size + 4 /\ offset % 4 = 0
      /\ file' = file /\ section' = section + 1 /\ at = "words" /\ at' = "sections"
      /\ ~(offset < sh.size)
  BY <1>1 DEF Cursor, EndSection, MoreWords
<1>3. /\ sh \in Header /\ sh.size \in Nat /\ TailWord(sh.size % 4) \in Word
      /\ offset \in Nat /\ addr \in Addresses
  BY <1>1, <1>2, Words DEF TypeOK
<1>4. offset >= sh.size
  BY <1>2, <1>3
<1>5. ASSUME NEW b \in 0 .. 4 * MemWords - 1, Holds(b)' # Holds(b)
      PROVE  sh.size % 4 # 0 /\ b \div 4 = addr \div 4
  <2>1. CASE sh.size % 4 # 0
    <3>1. write_mem(addr, TailWord(sh.size % 4))
      BY <2>1 DEF EndSection, WriteTail, TailWord
    <3>2. Holds(b)' = IF b \div 4 = addr \div 4 THEN TailWord(sh.size % 4)[b % 4] ELSE Holds(b)
      BY <1>1, <1>3, <3>1, WriteStep
    <3> QED
      BY <1>5, <2>1, <3>2
  <2>2. CASE sh.size % 4 = 0
    <3>1. mem' = mem
      BY <2>2 DEF EndSection
    <3> QED
      BY <1>5, <3>1 DEF Holds, read_mem
  <2> QED
    BY <2>1, <2>2
<1> QED
  BY <1>2, <1>3, <1>4, <1>5

(* The other steps leave the memory and the file alone. *)
LEMMA OtherStep ==
  ASSUME [Next]_vars, ~WriteWord, ~EndSection
  PROVE  /\ file' = file /\ mem' = mem /\ section' \in {section, section + 1}
         /\ section' # section => ~Copied(sh)
         /\ at' = "words" => \/ at = "words" /\ offset' = offset /\ section' = section
                             \/ offset' = 0
         /\ at = "words" => at' = "words"
BY DEF Next, vars, NoArgument, CannotOpen, Rejected, ReadHeaders, Loaded, Goto,
       SkipSection, EnterSection, Ended

(* A byte of a section that is in memory; the sections before the one that *)
(* is copied end at or below the address of the copying loop.              *)
LEMMA Layout ==
  ASSUME TypeOK, LaidOut, NEW i \in Sections, Copied(file.table[i]),
         NEW b \in Bytes(i), InBounds(b)
  PROVE  /\ b \in 0 .. 4 * MemWords - 1 /\ b - file.table[i].addr \in Nat
         /\ b < file.table[i].addr + file.table[i].size
         /\ file.table[i].addr % 4 = 0
         /\ \A j \in Sections : i < j /\ Copied(file.table[j]) => b < file.table[j].addr
<1>1. file.table[i].addr \in Addresses /\ file.table[i].size \in Nat
  BY Headers DEF Header, Addresses
<1>2. file.table[i].addr + file.table[i].size + 4 < 16 * MemWords
  BY DEF LaidOut, NoneWraps
<1>3. /\ b \in Nat /\ b >= file.table[i].addr
      /\ b < file.table[i].addr + file.table[i].size
  BY <1>1 DEF Bytes, Addresses
<1>4. b \in Addresses
  BY <1>1, <1>2, <1>3, LoaderAssumption DEF Addresses
<1>5. b < 4 * MemWords
  BY <1>4, InMemory
<1>6. ASSUME NEW j \in Sections, i < j, Copied(file.table[j])
      PROVE  b < file.table[j].addr
  <2>1. file.table[i].addr + file.table[i].size <= file.table[j].addr
    BY <1>6 DEF LaidOut
  <2>2. file.table[j].addr \in Nat
    BY Headers DEF Header
  <2> QED
    BY <1>1, <1>3, <2>1, <2>2 DEF Addresses
<1> QED
  BY <1>1, <1>3, <1>5, <1>6, LoaderAssumption DEF LaidOut, Addresses

LEMMA FileStays == [Next]_vars => file' = file
<1>1. NoArgument \/ CannotOpen \/ Rejected \/ ReadHeaders \/ Loaded => file' = file
  BY DEF NoArgument, CannotOpen, Rejected, ReadHeaders, Loaded, Goto
<1>2. SkipSection \/ EnterSection => file' = file
  BY DEF SkipSection, EnterSection
<1>3. WriteWord => file' = file
  BY DEF WriteWord
<1>4. EndSection => file' = file
  BY DEF EndSection
<1>5. Ended => UNCHANGED vars
  BY DEF Ended
<1>6. UNCHANGED vars => file' = file
  BY DEF vars
<1> QED
  BY <1>1, <1>2, <1>3, <1>4, <1>5, <1>6 DEF Next

LEMMA InPlaceStep == Typed /\ InPlace /\ [Next]_vars => InPlace'
<1> SUFFICES ASSUME Typed, InPlace, [Next]_vars
             PROVE  InPlace'
  OBVIOUS
<1>0. file' = file
  BY FileStays
<1> SUFFICES ASSUME LaidOut, NEW i \in Sections, Copied(file.table[i]),
                    NEW b \in Bytes(i), InBounds(b), Done(i, b)'
             PROVE  Holds(b)' = << i, b - file.table[i].addr >>
  BY <1>0, SameFile DEF InPlace, InBounds, Copied, Index
<1>1. /\ TypeOK /\ Cursor /\ section \in Nat \ {0} /\ offset \in Nat
      /\ addr \in Addresses /\ i \in Nat
  <2>1. TypeOK /\ Cursor
    BY DEF Typed
  <2>2. section \in Nat \ {0} /\ offset \in Nat /\ addr \in Addresses
    BY <2>1 DEF TypeOK
  <2>3. i \in Nat
    BY <2>1, Headers DEF Sections
  <2> QED
    BY <2>1, <2>2, <2>3
<1>2. /\ b \in 0 .. 4 * MemWords - 1 /\ b - file.table[i].addr \in Nat
      /\ b < file.table[i].addr + file.table[i].size
      /\ file.table[i].addr % 4 = 0 /\ file.table[i].addr \in Addresses
      /\ file.table[i].size \in Nat
      /\ \A j \in Sections : i < j /\ Copied(file.table[j]) => b < file.table[j].addr
  BY <1>1, Layout, Headers DEF Header, Addresses
<1>3. Done(i, b) => Holds(b) = << i, b - file.table[i].addr >>
  BY DEF InPlace
<1>4. at = "words" =>
        /\ addr = sh.addr + offset /\ offset % 4 = 0 /\ addr % 4 = 0
        /\ section \in Sections /\ Copied(file.table[section])
        /\ sh = file.table[section] /\ sh.addr \in Addresses
  <2> SUFFICES ASSUME at = "words"
               PROVE  /\ addr = sh.addr + offset /\ offset % 4 = 0 /\ addr % 4 = 0
                      /\ section \in Sections /\ Copied(file.table[section])
                      /\ sh = file.table[section] /\ sh.addr \in Addresses
    OBVIOUS
  <2>1. /\ addr = sh.addr + offset /\ offset % 4 = 0
        /\ section \in Sections /\ Copied(file.table[section])
        /\ sh = file.table[section]
    BY <1>1 DEF Cursor, LaidOut, sh
  <2>2. sh.addr % 4 = 0 /\ sh.addr \in Addresses
    BY <1>1, <2>1, Words DEF LaidOut
  <2>3. addr % 4 = 0
    BY <1>1, <2>1, <2>2 DEF Addresses
  <2> QED
    BY <2>1, <2>2, <2>3
(* Below the address of the loop nothing is written. *)
<1>5. at = "words" /\ b < addr => b \div 4 # addr \div 4
  BY <1>1, <1>2, <1>4 DEF Addresses
<1>6. CASE WriteWord
  <2>1. /\ at = "words" /\ at' = "words" /\ section' = section /\ offset' = offset + 4
        /\ section \in Sections /\ sh \in Header
    BY <1>6, CopyStep
  <2>2. PICK past \in {Zero, Junk} : \A c \in 0 .. 4 * MemWords - 1 :
          Holds(c)' = IF c \div 4 = addr \div 4 THEN CopiedWord(past)[c % 4] ELSE Holds(c)
    BY <1>6, CopyStep
  <2>3. CASE b < addr
    <3>1. Done(i, b)
      <4>1. CASE i < section
        BY <4>1 DEF Done
      <4>2. CASE i = section
        BY <1>4, <2>1, <2>3, <4>2 DEF Done
      <4> QED
        BY <2>1, <4>1, <4>2 DEF Done
    <3> QED
      BY <1>2, <1>3, <1>5, <2>1, <2>2, <2>3, <3>1
  <2>4. CASE ~(b < addr)
    <3>1. i = section
      <4>1. ~(i < section)
        BY <1>1, <1>2, <1>4, <2>1, <2>4 DEF Addresses
      <4> QED
        BY <2>1, <4>1 DEF Done
    <3>2. file.table[i] = sh
      BY <3>1 DEF sh
    <3>3. b < addr + 4
      BY <1>0, <1>1, <1>2, <1>4, <2>1, <3>1, <3>2 DEF Done, Addresses
    <3>4. b \div 4 = addr \div 4 /\ b % 4 = b - addr /\ b % 4 \in 0 .. 3
      <4>1. addr \in Nat /\ addr % 4 = 0 /\ b \in Nat /\ b >= addr /\ b < addr + 4
        BY <1>1, <1>2, <1>4, <2>1, <2>4, <3>3 DEF Addresses
      <4> QED
        BY <4>1
    <3>5. Holds(b)' = CopiedWord(past)[b % 4]
      BY <1>2, <2>2, <3>4
    <3>6. offset + (b % 4) = b - sh.addr /\ b - sh.addr < sh.size
      BY <1>1, <1>2, <1>4, <2>1, <3>2, <3>4 DEF Addresses
    <3>7. CopiedWord(past)[b % 4] = << section, b - sh.addr >>
      BY <3>4, <3>6 DEF CopiedWord
    <3> QED
      BY <3>1, <3>2, <3>5, <3>7
  <2> QED
    BY <2>3, <2>4
<1>7. CASE EndSection
  <2>1. /\ at = "words" /\ at' = "sections" /\ section' = section + 1 /\ section \in Sections
        /\ offset >= sh.size /\ sh \in Header
        /\ Holds(b)' # Holds(b) => b \div 4 = addr \div 4
    BY <1>2, <1>7, EndStep
  <2>2. i < section \/ i = section
    BY <1>1, <2>1 DEF Done
  <2>3. b < addr
    <3>1. CASE i < section
      BY <1>1, <1>2, <1>4, <2>1, <3>1 DEF Addresses
    <3>2. CASE i = section
      <4>1. sh.size \in Nat /\ b < sh.addr + sh.size
        BY <1>2, <3>2 DEF sh
      <4> QED
        BY <1>1, <1>2, <1>4, <2>1, <4>1 DEF Addresses
    <3> QED
      BY <2>2, <3>1, <3>2
  <2>4. Done(i, b)
    BY <1>4, <2>1, <2>2, <2>3 DEF Done
  <2> QED
    BY <1>3, <1>5, <2>1, <2>3, <2>4
<1>8. CASE ~WriteWord /\ ~EndSection
  <2>1. /\ mem' = mem /\ section' \in {section, section + 1}
        /\ section' # section => ~Copied(sh)
        /\ at' = "words" => \/ at = "words" /\ offset' = offset /\ section' = section
                            \/ offset' = 0
    BY <1>8, OtherStep
  <2>2. Done(i, b)
    <3>1. i < section' => i < section
      BY <1>1, <2>1 DEF sh
    <3>2. ASSUME i = section', at' = "words", b < file.table[i].addr + offset'
          PROVE  Done(i, b)
      <4>1. offset' # 0
        BY <1>2, <3>2 DEF Addresses
      <4> QED
        BY <2>1, <3>2, <4>1 DEF Done
    <3> QED
      BY <1>0, <3>1, <3>2 DEF Done
  <2>3. Holds(b)' = Holds(b)
    BY <2>1 DEF Holds, read_mem
  <2> QED
    BY <1>3, <2>2, <2>3
<1> QED
  BY <1>6, <1>7, <1>8

LEMMA NoStrayStep == Typed /\ NoStray /\ [Next]_vars => NoStray'
<1> SUFFICES ASSUME Typed, NoStray, [Next]_vars
             PROVE  NoStray'
  OBVIOUS
<1>0. file' = file
  BY FileStays
<1> SUFFICES ASSUME NoneWraps, NEW b \in 0 .. 4 * MemWords - 1, Holds(b)' # Holds(b)
             PROVE  \E i \in Sections : Copied(file.table[i]) /\ b \in Reach(i)
  BY <1>0, SameFile DEF NoStray, Copied
<1>1. /\ TypeOK /\ Cursor /\ offset \in Nat /\ addr \in Addresses /\ b \in Nat
  <2>1. TypeOK /\ Cursor
    BY DEF Typed
  <2>2. offset \in Nat /\ addr \in Addresses
    BY <2>1 DEF TypeOK
  <2> QED
    BY <2>1, <2>2
<1>2. ASSUME at = "words", b \div 4 = addr \div 4,
             offset < sh.size \/ (offset < sh.size + 4 /\ sh.size % 4 # 0)
      PROVE  \E i \in Sections : Copied(file.table[i]) /\ b \in Reach(i)
  <2>1. /\ section \in Sections /\ Copied(sh) /\ offset % 4 = 0 /\ addr = sh.addr + offset
    BY <1>1, <1>2 DEF Cursor
  <2>2. sh.addr \in Nat /\ sh.size \in Nat
    BY <1>1, <2>1, Words DEF Addresses
  <2> DEFINE words == (sh.size + 3) \div 4 + (IF sh.size % 4 = 0 THEN 0 ELSE 1)
  <2>3. addr \div 4 = (sh.addr \div 4) + (offset \div 4)
    BY <1>1, <2>1, <2>2
  <2>4. words \in Nat /\ offset \div 4 < words
    <3>1. PICK n \in Nat : n = sh.size
      BY <2>2
    <3>2. offset < n \/ (offset < n + 4 /\ n % 4 # 0)
      BY <1>2, <3>1
    <3>3. words = (n + 3) \div 4 + (IF n % 4 = 0 THEN 0 ELSE 1)
      BY <3>1
    <3> HIDE DEF words
    <3>4. CASE n % 4 = 0
      BY <1>1, <2>1, <3>2, <3>3, <3>4
    <3>5. CASE n % 4 # 0
      BY <1>1, <2>1, <3>2, <3>3, <3>5
    <3> QED
      BY <3>4, <3>5
  <2> HIDE DEF words
  <2>5. b \in 4 * (sh.addr \div 4) .. 4 * (sh.addr \div 4 + words) - 1
    BY <1>1, <1>2, <2>2, <2>3, <2>4
  <2>6. b \in Reach(section)
    BY <2>5 DEF Reach, words, sh
  <2> QED
    BY <2>1, <2>6 DEF sh
<1>3. CASE WriteWord
  BY <1>2, <1>3, CopyStep
<1>4. CASE EndSection
  BY <1>2, <1>4, EndStep
<1>5. CASE ~WriteWord /\ ~EndSection
  BY <1>5, OtherStep DEF Holds, read_mem
<1> QED
  BY <1>3, <1>4, <1>5

(* elf_reader.cpp's copying loop and its remainder put every byte of .text *)
(* and .data in its place, in spite of what each section writes past its   *)
(* end, when the sections are in the order of their addresses: what is     *)
(* spilt over a later section is overwritten by it.                        *)
THEOREM PlaceCorrect == Spec => []SectionsInPlace
<1>1. Init => InPlace
  <2> SUFFICES ASSUME Init, NEW i \in Sections, NEW b
               PROVE  ~Done(i, b)
    BY DEF InPlace
  <2>1. section = 1 /\ at = "main"
    BY DEF Init
  <2>2. i \in Nat /\ i >= 1
    BY InitTyped, Headers DEF Typed, Sections
  <2> QED
    BY <2>1, <2>2 DEF Done
<1>2. Typed /\ InPlace => SectionsInPlace
  <2> SUFFICES ASSUME TypeOK, Cursor, InPlace, at = "simulate", LaidOut,
                      NEW i \in Sections, Copied(file.table[i]),
                      NEW b \in Bytes(i), InBounds(b)
               PROVE  Holds(b) = << i, b - file.table[i].addr >>
    BY DEF Typed, SectionsInPlace
  <2>1. i < section
    BY Headers DEF Cursor, TypeOK, Sections
  <2> QED
    BY <2>1 DEF InPlace, Done
<1> QED
  BY <1>1, <1>2, InPlaceStep, TypedCorrect, PTL DEF Spec

(* The same code writes nothing outside the words of the sections and the  *)
(* one word after those whose size is not a multiple of 4: .bss and the    *)
(* stack are zero when the core starts.                                    *)
THEOREM SpillCorrect == Spec => []SpillIsBounded
<1>1. Init => NoStray
  <2> SUFFICES ASSUME Init, NEW b \in 0 .. 4 * MemWords - 1
               PROVE  Holds(b) = Zero
    BY DEF NoStray
  <2>1. b \in Addresses /\ b < 4 * MemWords
    BY LoaderAssumption DEF Addresses
  <2>2. Index(b) \in 0 .. MemWords - 1 /\ InBounds(b)
    BY <2>1, InMemory
  <2>3. mem[Index(b)] = ZeroWord
    BY <2>2 DEF Init
  <2>4. b % 4 \in 0 .. 3
    BY <2>1 DEF Addresses
  <2> QED
    BY <2>2, <2>3, <2>4 DEF Holds, read_mem, ZeroWord
<1>2. NoStray => SpillIsBounded
  BY DEF NoStray, SpillIsBounded
<1> QED
  BY <1>1, <1>2, NoStrayStep, TypedCorrect, PTL DEF Spec
=============================================================================
