-------------------------------- MODULE Isa --------------------------------
(***************************************************************************)
(* What the instructions listed in the repository's README mean in RV32IM, *)
(* stated without regard to how the core computes it: a table of encodings *)
(* by mnemonic, immediates as sums of weighted bits of the word, signed    *)
(* arithmetic on integers.  JALR, which the README does not list but the   *)
(* core executes, is included.                                             *)
(***************************************************************************)
EXTENDS Integers, FiniteSetsExt

CONSTANT XLEN

Mod(x) == x % 2 ^ XLEN
Int2(x) == IF x >= 2 ^ (XLEN - 1) THEN x - 2 ^ XLEN ELSE x
Bits(x) == {k \in 0 .. XLEN - 1 : (x \div 2 ^ k) % 2 = 1}
FromBits(S) == MapThenSumSet(LAMBDA k : 2 ^ k, S \cap (0 .. XLEN - 1))

----------------------------------------------------------------------------
(* Encodings. *)

AnyF3 == 0 .. 7
AnyF7 == 0 .. 127

RegOps ==
  [ADD  |-> <<0, 0>>, SUB |-> <<0, 32>>, SLL |-> <<1, 0>>, SLT |-> <<2, 0>>,
   SLTU |-> <<3, 0>>, XOR |-> <<4, 0>>, SRL |-> <<5, 0>>, SRA |-> <<5, 32>>,
   OR   |-> <<6, 0>>, AND |-> <<7, 0>>, MUL |-> <<0, 1>>]

ImmOps ==
  [ADDI |-> <<0, AnyF7>>, SLTI |-> <<2, AnyF7>>, SLTIU |-> <<3, AnyF7>>,
   XORI |-> <<4, AnyF7>>, ORI |-> <<6, AnyF7>>, ANDI |-> <<7, AnyF7>>,
   SLLI |-> <<1, {0}>>, SRLI |-> <<5, {0}>>, SRAI |-> <<5, {32}>>]

Branches ==
  [BEQ |-> 0, BNE |-> 1, BLT |-> 4, BGE |-> 5, BLTU |-> 6, BGEU |-> 7]

(* The mnemonics a word encodes: one, or none if it is illegal. *)
Names(w) ==
  CASE w.opcode = 51  -> {n \in DOMAIN RegOps : RegOps[n] = <<w.func3, w.func7>>}
    [] w.opcode = 19  -> {n \in DOMAIN ImmOps : /\ ImmOps[n][1] = w.func3
                                                /\ w.func7 \in ImmOps[n][2]}
    [] w.opcode = 99  -> {n \in DOMAIN Branches : Branches[n] = w.func3}
    [] w.opcode = 3   -> {n \in {"LW"} : w.func3 = 2}
    [] w.opcode = 35  -> {n \in {"SW"} : w.func3 = 2}
    [] w.opcode = 103 -> {n \in {"JALR"} : w.func3 = 0}
    [] w.opcode = 111 -> {"JAL"}
    [] w.opcode = 55  -> {"LUI"}
    [] w.opcode = 23  -> {"AUIPC"}
    [] OTHER          -> {}

Legal(w) == Names(w) # {}
Name(w)  == CHOOSE n \in Names(w) : TRUE

----------------------------------------------------------------------------
(* Immediates.  Weight maps the bits of the word to powers of two; the bit *)
(* of the highest weight counts negatively.                                *)

WordBits(w) ==
  LET At(lo, n, x) == {lo + k : k \in {j \in 0 .. n - 1 : (x \div 2 ^ j) % 2 = 1}}
  IN  At(7, 5, w.rd) \cup At(12, 3, w.func3) \cup At(15, 5, w.rs1)
        \cup At(20, 5, w.rs2) \cup At(25, 7, w.func7)

Weight(w) ==
  CASE w.opcode \in {19, 3, 103} -> [k \in 20 .. 31 |-> k - 20]
    [] w.opcode = 35 ->
         [k \in (7 .. 11) \cup (25 .. 31) |-> IF k < 12 THEN k - 7 ELSE k - 20]
    [] w.opcode = 99 ->
         [k \in (7 .. 11) \cup (25 .. 31) |->
            CASE k = 7 -> 11 [] k = 31 -> 12
              [] k \in 8 .. 11 -> k - 7 [] OTHER -> k - 20]
    [] w.opcode = 111 ->
         [k \in 12 .. 31 |->
            CASE k = 20 -> 11 [] k = 31 -> 20
              [] k \in 12 .. 19 -> k [] OTHER -> k - 20]
    [] w.opcode \in {55, 23} -> [k \in 12 .. 31 |-> k]
    [] OTHER -> [k \in {} |-> 0]

Immediate(w) ==
  LET used == WordBits(w) \cap DOMAIN Weight(w)
      low  == {Weight(w)[k] : k \in used \ {31}}
      sign == IF 31 \in used /\ Weight(w)[31] < XLEN THEN 2 ^ Weight(w)[31] ELSE 0
  IN  Mod(FromBits(low) - sign)

----------------------------------------------------------------------------
(* The value of a register-register operation; the immediate forms take    *)
(* the immediate as b.                                                     *)
Value(op, a, b) ==
  CASE op = "ADD"  -> Mod(a + b)
    [] op = "SUB"  -> Mod(a - b)
    [] op = "SLT"  -> IF Int2(a) < Int2(b) THEN 1 ELSE 0
    [] op = "SLTU" -> IF a < b THEN 1 ELSE 0
    [] op = "XOR"  -> FromBits(SymDiff(Bits(a), Bits(b)))
    [] op = "OR"   -> FromBits(Bits(a) \cup Bits(b))
    [] op = "AND"  -> FromBits(Bits(a) \cap Bits(b))
    [] op = "SLL"  -> FromBits({k + (b % 32) : k \in Bits(a)})
    [] op = "SRL"  -> FromBits({k - (b % 32) : k \in Bits(a)})
    [] op = "SRA"  -> LET n == IF b % 32 < XLEN THEN b % 32 ELSE XLEN
                      IN  Mod(Int2(a) \div 2 ^ n)
    [] op = "MUL"  -> FoldSet(LAMBDA k, acc : Mod(acc + FromBits({k + j : j \in Bits(a)})),
                              0, Bits(b))

Plain(name) ==
  CASE name = "ADDI" -> "ADD" [] name = "SLTI" -> "SLT" [] name = "SLTIU" -> "SLTU"
    [] name = "XORI" -> "XOR" [] name = "ORI"  -> "OR"  [] name = "ANDI"  -> "AND"
    [] name = "SLLI" -> "SLL" [] name = "SRLI" -> "SRL" [] name = "SRAI"  -> "SRA"

Taken(name, a, b) ==
  CASE name = "BEQ"  -> a = b
    [] name = "BNE"  -> a # b
    [] name = "BLT"  -> Int2(a) < Int2(b)
    [] name = "BGE"  -> Int2(a) >= Int2(b)
    [] name = "BLTU" -> a < b
    [] name = "BGEU" -> a >= b

----------------------------------------------------------------------------
(* The effect of the word w at pc on the registers x: what is written to   *)
(* which register (0 for none), where the next instruction is, and the     *)
(* access to memory.                                                       *)

Nop(pc) == [rd |-> 0, value |-> 0, next |-> Mod(pc + 4),
            access |-> "none", addr |-> 0, data |-> 0]

Writes(w, pc, v) ==
  [Nop(pc) EXCEPT !.rd = w.rd, !.value = IF w.rd = 0 THEN 0 ELSE v]

EffectOfLegal(w, pc, x, loaded) ==
  LET n == Name(w)
      a == x[w.rs1]
      b == x[w.rs2]
      i == Immediate(w)
  IN  CASE n \in DOMAIN RegOps -> Writes(w, pc, Value(n, a, b))
        [] n \in DOMAIN ImmOps -> Writes(w, pc, Value(Plain(n), a, i))
        [] n = "LUI"   -> Writes(w, pc, i)
        [] n = "AUIPC" -> Writes(w, pc, Mod(pc + i))
        [] n = "LW"    -> [Writes(w, pc, loaded) EXCEPT
                             !.access = "load", !.addr = Mod(a + i)]
        [] n = "SW"    -> [Nop(pc) EXCEPT !.access = "store",
                             !.addr = Mod(a + i), !.data = b]
        [] n = "JAL"   -> [Writes(w, pc, Mod(pc + 4)) EXCEPT
                             !.next = Mod(pc + i)]
        [] n = "JALR"  -> [Writes(w, pc, Mod(pc + 4)) EXCEPT
                             !.next = (Mod(a + i) \div 2) * 2]
        [] n \in DOMAIN Branches ->
             [Nop(pc) EXCEPT !.next = IF Taken(n, a, b) THEN Mod(pc + i) ELSE @]

(* README: an illegal instruction "for now will be a NOP". *)
Effect(w, pc, x, loaded) ==
  IF Legal(w) THEN EffectOfLegal(w, pc, x, loaded) ELSE Nop(pc)
=============================================================================
