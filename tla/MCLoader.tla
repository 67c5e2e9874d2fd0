------------------------------ MODULE MCLoader ------------------------------
(* The loader for TLC: two sections in either order, with every size up to *)
(* two words, next to each other, apart, and at the end of the memory; and *)
(* a section that is at an odd address, out of bounds or at the last address. *)
EXTENDS Loader

Section(names, nobits, addrs, sizes) ==
  [name : names, nobits : nobits, addr : addrs, size : sizes]

First  == Section({".text"}, {FALSE}, {0, 4}, 1 .. 8)
Second == Section({".data"}, {FALSE}, {8, 12, 16}, 0 .. 8)
            \cup Section({".data"}, BOOLEAN, {6, 20, 24, 48, 88, 92}, {3, 8})
            \cup Section({"other"}, {FALSE}, {8}, {4})

MCTables ==
  {<< >>} \cup {<< f, s >> : f \in First, s \in Second} \cup {<< s, f >> : f \in First, s \in Second}
=============================================================================
