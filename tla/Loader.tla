------------------------------- MODULE Loader -------------------------------
(***************************************************************************)
(* Loading a program: the beginning of main (sim_main.cpp), load_elf and   *)
(* extract_sections (elf_reader.cpp), and read_mem and write_mem of the    *)
(* memory that they fill and the core runs from (unified_mem.cpp).         *)
(*                                                                         *)
(* A byte of section i of the file is <<i, offset>>, so a byte in memory   *)
(* shows where it came from.  Only what the code looks at is kept of the   *)
(* file: whether it opens, its magic and class, and the section headers.   *)
(***************************************************************************)
EXTENDS Integers, Sequences

CONSTANTS
  MemWords,     \* words of mem: 2^28, a quarter of the 2^30 an address can name
  Tables        \* the section tables the file may have

\* A section header.
Header == [name : {".text", ".data", "other"}, nobits : BOOLEAN,
           addr : 0 .. 16 * MemWords - 1, size : Nat]

ASSUME LoaderAssumption == MemWords \in Nat \ {0} /\ Tables \subseteq Seq(Header)

VARIABLES
  file,         \* argv[1]
  at,           \* where main is
  section,      \* i of extract_sections
  offset, addr, \* its copying loop
  mem

vars == << file, at, section, offset, addr, mem >>

Zero == << 0, 0 >>
Junk == << 0, 1 >>     \* what a read past the end of a buffer may find
ZeroWord == [k \in 0 .. 3 |-> Zero]

-----------------------------------------------------------------------------
(* The memory.  mem is static, so the memset of the first call finds zeros. *)

\* addr is passed as an int and shifted right arithmetically.
Index(a) ==
  LET w == a \div 4 IN IF w < 2 * MemWords THEN w ELSE w - 4 * MemWords

InBounds(a) == Index(a) >= 0 /\ Index(a) < MemWords

read_mem(a) == IF InBounds(a) THEN mem[Index(a)] ELSE ZeroWord

write_mem(a, word) ==
  mem' = IF InBounds(a) THEN [mem EXCEPT ![Index(a)] = word] ELSE mem

-----------------------------------------------------------------------------
(* extract_sections.                                                       *)

sh == file.table[section]

Copied(s) == ~s.nobits /\ s.size # 0 /\ s.name \in {".text", ".data"}

SkipSection ==
  /\ at = "sections" /\ section <= Len(file.table) /\ ~Copied(sh)
  /\ section' = section + 1
  /\ UNCHANGED << file, at, offset, addr, mem >>

EnterSection ==
  /\ at = "sections" /\ section <= Len(file.table) /\ Copied(sh)
  /\ at' = "words" /\ offset' = 0 /\ addr' = sh.addr
  /\ UNCHANGED << file, section, mem >>

MoreWordsButLast == offset + 4 < sh.size  \* mutant of MoreWords
MoreWords == offset < sh.size

\* The last word of a section whose size is not a multiple of 4 is read past the
\* end of data.
WriteWord ==
  /\ at = "words" /\ MoreWords
  /\ \E past \in {Zero, Junk} :
       write_mem(addr, [k \in 0 .. 3 |->
                          IF offset + k < sh.size THEN << section, offset + k >> ELSE past])
  /\ addr' = (addr + 4) % (16 * MemWords)
  /\ offset' = offset + 4
  /\ UNCHANGED << file, at, section >>

\* The bytes that remain, at the address after the last word.
TailAfterNext(remaining) ==  \* mutant of WriteTail
  write_mem((addr + 4) % (16 * MemWords), [k \in 0 .. 3 |->
    IF k < remaining THEN << section, sh.size - remaining + k >> ELSE Zero])
WriteTail(remaining) ==
  write_mem(addr, [k \in 0 .. 3 |->
    IF k < remaining THEN << section, sh.size - remaining + k >> ELSE Zero])

EndSection ==
  /\ at = "words" /\ ~MoreWords
  /\ IF sh.size % 4 # 0 THEN WriteTail(sh.size % 4) ELSE UNCHANGED mem
  /\ at' = "sections" /\ section' = section + 1
  /\ UNCHANGED << file, offset, addr >>

-----------------------------------------------------------------------------
(* load_elf and main.                                                      *)

Goto(here, there) ==
  /\ at = here /\ at' = there
  /\ UNCHANGED << file, section, offset, addr, mem >>

NoArgument == file.kind = "none" /\ Goto("main", "return 1")

\* load_elf returns 1, which main takes for success.
CannotOpen == file.kind = "missing" /\ Goto("main", "simulate")

Rejected == file.kind \in {"bad magic", "bad class"} /\ Goto("main", "return 1")

ReadHeaders == file.kind = "elf" /\ Goto("main", "sections")

Loaded == section > Len(file.table) /\ Goto("sections", "simulate")

Ended == at \in {"simulate", "return 1"} /\ UNCHANGED vars

Init ==
  /\ file \in [kind : {"none", "missing", "bad magic", "bad class"}, table : {<< >>}]
                \cup [kind : {"elf"}, table : Tables]
  /\ at = "main" /\ section = 1 /\ offset = 0 /\ addr = 0
  /\ mem = [i \in 0 .. MemWords - 1 |-> ZeroWord]

Next ==
  \/ NoArgument \/ CannotOpen \/ Rejected \/ ReadHeaders
  \/ SkipSection \/ EnterSection \/ WriteWord \/ EndSection
  \/ Loaded \/ Ended

Spec == Init /\ [][Next]_vars

-----------------------------------------------------------------------------

Sections == 1 .. Len(file.table)
Bytes(i) == file.table[i].addr .. file.table[i].addr + file.table[i].size - 1

\* No section reaches the last words of the address space, where addr wraps.
NoneWraps == \A i \in Sections : file.table[i].addr + file.table[i].size + 4 < 16 * MemWords

\* What a linker makes of the sections that take memory: each one starts at a word
\* of its own, and the headers are in the order of the addresses.
LaidOut ==
  /\ NoneWraps
  /\ \A i \in Sections : file.table[i].addr % 4 = 0
  /\ \A i, j \in Sections :
       (i < j /\ Copied(file.table[i]) /\ Copied(file.table[j])) =>
         file.table[i].addr + file.table[i].size <= file.table[j].addr

Holds(b) == read_mem(b)[b % 4]

\* When the simulation starts, every byte of .text and .data that has a place in
\* memory is there, whatever the copying of the other sections wrote past their
\* ends.
SectionsInPlace ==
  (at = "simulate" /\ LaidOut) =>
    \A i \in Sections : Copied(file.table[i]) =>
      \A b \in Bytes(i) : InBounds(b) => Holds(b) = << i, b - file.table[i].addr >>

\* The bytes that copying section i may write: its words, and one more when its
\* size is not a multiple of 4.
Reach(i) ==
  LET s == file.table[i]
      words == (s.size + 3) \div 4 + (IF s.size % 4 = 0 THEN 0 ELSE 1)
  IN  4 * (s.addr \div 4) .. 4 * (s.addr \div 4 + words) - 1

\* Memory outside the copied sections (.bss, the stack) is zero when the simulation
\* starts, but for the rest of the last word and the word after it of a section
\* whose size is not a multiple of 4.
SpillIsBounded ==
  (at = "simulate" /\ NoneWraps) =>
    \A b \in 0 .. 4 * MemWords - 1 :
      \/ Holds(b) = Zero
      \/ \E i \in Sections : Copied(file.table[i]) /\ b \in Reach(i)
=============================================================================
