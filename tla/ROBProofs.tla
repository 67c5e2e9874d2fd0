------------------------------ MODULE ROBProofs ------------------------------
(***************************************************************************)
(* Theorems about the reorder buffer, for every ROB_SIZE and every set of  *)
(* registers, data and instructions.  The last part proves that it         *)
(* implements its abstract specification, InstrQueue.                      *)
(***************************************************************************)
EXTENDS ROB, FiniteSetTheorems, SequenceTheorems, WellFoundedInduction, TLAPS

(* The pointer increment, without the modulus. *)
LEMMA SuccLemma ==
  ASSUME NEW i \in Idx
  PROVE  /\ Succ(i) = IF i = ROB_SIZE - 1 THEN 0 ELSE i + 1
         /\ Succ(i) \in Idx
BY ROBSizeAssumption DEF Succ, Idx

(* The inputs of a step are well typed. *)
LEMMA InputTypes ==
  ASSUME TypeOK,
         NEW dec \in DecodeInputs, NEW wb \in WbInputs
  PROVE  dec \in DecodeInput /\ wb \in WbInput
<1>1. dec \in DecodeInput
  <2>1. kanata_id_counter \in Nat
    BY MaxIdAssumption DEF TypeOK
  <2>2. CASE dec = NoDecode
    BY <2>2, RegsAssumption DEF NoDecode, DecodeInput
  <2>3. ASSUME NEW k \in Kinds, dec = Decoded(k, kanata_id_counter)
        PROVE  dec \in DecodeInput
    BY <2>1, <2>3, KindsAssumption DEF Decoded, DecodeInput
  <2> QED
    BY <2>2, <2>3 DEF DecodeInputs
<1>2. NoWb \in WbInput
  BY ROBSizeAssumption, DataAssumption, SBIdxAssumption DEF NoWb, WbInput, Idx
<1> QED
  BY <1>1, <1>2 DEF WbInputs

(* What each update of a single entry does to its valid bit and its id.    *)
LEMMA FreshEntry ==
  ASSUME NEW e \in Entry, NEW dec \in DecodeInput
  PROVE  /\ Fresh(e, dec) \in Entry
         /\ Fresh(e, dec).valid
         /\ ~Fresh(e, dec).completed
         /\ Fresh(e, dec).kanata_id = dec.kanata_id
BY DEF Fresh, Entry, DecodeInput

LEMMA CompletedEntry ==
  ASSUME NEW e \in Entry, NEW wb \in WbInput
  PROVE  /\ Complete(e, wb) \in Entry
         /\ Complete(e, wb).valid <=> e.valid
         /\ Complete(e, wb).completed
         /\ Complete(e, wb).kanata_id = e.kanata_id
BY DEF Complete, Entry, WbInput

LEMMA FreedEntry ==
  ASSUME NEW e \in Entry
  PROVE  /\ Freed(e) \in Entry
         /\ ~Freed(e).valid
         /\ Freed(e).kanata_id = e.kanata_id
BY DEF Freed, Entry

(* The next value of the entries is well typed, and its valid bits and ids *)
(* are the old ones except at the tail, the head and under a flush.        *)
LEMMA NextEntries ==
  ASSUME TypeOK,
         NEW dec \in DecodeInput, NEW wb \in WbInput
  PROVE  /\ rob_d(dec, wb) \in [Idx -> Entry]
         /\ \A i \in Idx :
              /\ rob_d(dec, wb)[i].valid <=>
                   /\ ~commit_branch_taken_o
                   /\ ~(commit_valid_o /\ i = head_ptr_q)
                   /\ (dec.valid /\ i = tail_ptr_q) \/ rob_q[i].valid
              /\ rob_d(dec, wb)[i].kanata_id =
                   IF dec.valid /\ i = tail_ptr_q THEN dec.kanata_id
                                                  ELSE rob_q[i].kanata_id
<1> DEFINE A == Allocate(rob_q, dec)
           W == WriteBack(A, wb)
           B == Retire(W)
<1>0. rob_q \in [Idx -> Entry] /\ tail_ptr_q \in Idx /\ wb.rob_idx \in Idx
  BY DEF TypeOK, WbInput
<1>1. /\ A \in [Idx -> Entry]
      /\ \A i \in Idx :
           /\ A[i].valid <=> (dec.valid /\ i = tail_ptr_q) \/ rob_q[i].valid
           /\ A[i].kanata_id = IF dec.valid /\ i = tail_ptr_q
                                 THEN dec.kanata_id ELSE rob_q[i].kanata_id
  <2>1. CASE dec.valid
    <3>1. A = [rob_q EXCEPT ![tail_ptr_q] = Fresh(rob_q[tail_ptr_q], dec)]
      BY <2>1 DEF Allocate
    <3> HIDE DEF A
    <3>2. /\ Fresh(rob_q[tail_ptr_q], dec) \in Entry
          /\ Fresh(rob_q[tail_ptr_q], dec).valid
          /\ Fresh(rob_q[tail_ptr_q], dec).kanata_id = dec.kanata_id
      BY <1>0, FreshEntry
    <3> QED
      BY <1>0, <2>1, <3>1, <3>2
  <2>2. CASE ~dec.valid
    BY <1>0, <2>2 DEF Allocate
  <2> QED
    BY <2>1, <2>2
<1> HIDE DEF A
<1>2. /\ W \in [Idx -> Entry]
      /\ \A i \in Idx : /\ W[i].valid <=> A[i].valid
                        /\ W[i].kanata_id = A[i].kanata_id
  <2>1. CASE Accepts(wb)
    <3>1. W = [A EXCEPT ![wb.rob_idx] = Complete(A[wb.rob_idx], wb)]
      BY <2>1 DEF WriteBack
    <3> HIDE DEF W
    <3>2. /\ Complete(A[wb.rob_idx], wb) \in Entry
          /\ Complete(A[wb.rob_idx], wb).valid <=> A[wb.rob_idx].valid
          /\ Complete(A[wb.rob_idx], wb).kanata_id = A[wb.rob_idx].kanata_id
      BY <1>0, <1>1, CompletedEntry
    <3> QED
      BY <1>0, <1>1, <3>1, <3>2
  <2>2. CASE ~Accepts(wb)
    BY <1>1, <2>2 DEF WriteBack
  <2> QED
    BY <2>1, <2>2
<1> HIDE DEF W
<1>3. /\ B \in [Idx -> Entry]
      /\ \A i \in Idx :
           /\ B[i].valid <=> W[i].valid /\ ~(commit_valid_o /\ i = head_ptr_q)
           /\ B[i].kanata_id = W[i].kanata_id
  <2>1. W \in [Idx -> Entry]
    BY <1>2
  <2> QED
    BY <2>1, FreedEntry DEF Retire, TypeOK
<1>4. B = BeforeFlush(dec, wb)
  BY DEF BeforeFlush, A, W
<1> HIDE DEF B
<1>5. CASE commit_branch_taken_o
  <2>1. rob_d(dec, wb) = [i \in Idx |-> Freed(B[i])]
    BY <1>4, <1>5 DEF rob_d
  <2>2. B \in [Idx -> Entry]
    BY <1>3
  <2>3. /\ rob_d(dec, wb) \in [Idx -> Entry]
        /\ \A i \in Idx : /\ ~rob_d(dec, wb)[i].valid
                          /\ rob_d(dec, wb)[i].kanata_id = B[i].kanata_id
    BY <2>1, <2>2, FreedEntry
  <2> QED
    BY <1>1, <1>2, <1>3, <1>5, <2>3
<1>6. CASE ~commit_branch_taken_o
  <2>1. rob_d(dec, wb) = B
    BY <1>4, <1>6 DEF rob_d
  <2> QED
    BY <1>1, <1>2, <1>3, <1>6, <2>1
<1> QED
  BY <1>5, <1>6

(* Everything the invariants need to know of one clock edge. *)
LEMMA EdgeFacts ==
  ASSUME TypeOK,
         NEW dec \in DecodeInputs, NEW wb \in WbInputs, Step(dec, wb)
  PROVE  /\ dec \in DecodeInput /\ wb \in WbInput
         /\ rob_q' = rob_d(dec, wb)
         /\ dec.valid => /\ ~rob_full_o
                         /\ ~commit_branch_taken_o
                         /\ dec.kanata_id = kanata_id_counter
         /\ commit_branch_taken_o => /\ commit_valid_o
                                     /\ head_ptr_q' = 0
                                     /\ tail_ptr_q' = 0
         /\ ~commit_branch_taken_o =>
              /\ tail_ptr_q' = IF dec.valid THEN Succ(tail_ptr_q)
                                            ELSE tail_ptr_q
              /\ head_ptr_q' = IF commit_valid_o THEN Succ(head_ptr_q)
                                                 ELSE head_ptr_q
         /\ kanata_id_counter' = IF dec.valid THEN kanata_id_counter + 1
                                              ELSE kanata_id_counter
<1>1. dec \in DecodeInput /\ wb \in WbInput
  BY InputTypes
<1> QED
  BY <1>1 DEF Step, DecodeAllowed, Clock, NoCommit, CommitHead,
              CommitTakenBranch, AdvanceTail, commit_branch_taken_o

(* Every register of the buffer keeps its type (rob.sv, the always_ff      *)
(* block): the pointers stay inside the ring under the modular increment   *)
(* and the entries stay records of rob_entry_t.                            *)
THEOREM TypeCorrect == Spec => []TypeOK
<1>1. Init => TypeOK
  BY ROBSizeAssumption, RegsAssumption, DataAssumption, MaxIdAssumption
     DEF Init, Reset, ResetFrom, ResetEntry, TypeOK, Entry, Idx
<1>2. TypeOK /\ [Next]_vars => TypeOK'
  <2> SUFFICES ASSUME TypeOK, [Next]_vars
               PROVE  TypeOK'
    OBVIOUS
  <2>1. ASSUME NEW dec \in DecodeInputs, NEW wb \in WbInputs, Step(dec, wb)
        PROVE  TypeOK'
    <3>1. rob_q' \in [Idx -> Entry]
      BY <2>1, EdgeFacts, NextEntries
    <3>2. head_ptr_q' \in Idx /\ tail_ptr_q' \in Idx
      BY <2>1, EdgeFacts, SuccLemma, ROBSizeAssumption DEF TypeOK, Idx
    <3>3. kanata_id_counter' \in 0 .. MaxId
      BY <2>1, MaxIdAssumption DEF Step, DecodeAllowed, TypeOK
    <3> QED
      BY <3>1, <3>2, <3>3 DEF TypeOK
  <2>2. CASE UNCHANGED vars
    BY <2>2 DEF vars, TypeOK
  <2> QED
    BY <2>1, <2>2 DEF Next
<1> QED
  BY <1>1, <1>2, PTL DEF Spec

----------------------------------------------------------------------------
(* The inductive invariant.  The window says which entries are in flight   *)
(* and the ages say in which order; the flush and the full test only make  *)
(* sense with the first, in-order commit only with both.                   *)
IInv == TypeOK /\ WindowInv /\ AgeOrder

LEMMA WindowStep ==
  ASSUME TypeOK, TypeOK', WindowInv,
         NEW dec \in DecodeInputs, NEW wb \in WbInputs, Step(dec, wb)
  PROVE  WindowInv'
<1> SUFFICES ASSUME NEW i \in Idx
             PROVE  rob_q'[i].valid <=> InWindow(i)'
  BY DEF WindowInv
<1>1. /\ rob_q'[i].valid <=>
           /\ ~commit_branch_taken_o
           /\ ~(commit_valid_o /\ i = head_ptr_q)
           /\ (dec.valid /\ i = tail_ptr_q) \/ rob_q[i].valid
      /\ rob_q[i].valid <=> InWindow(i)
  BY EdgeFacts, NextEntries DEF WindowInv
<1>2. CASE commit_branch_taken_o
  BY <1>1, <1>2, EdgeFacts DEF InWindow, Idx
<1>3. CASE ~commit_branch_taken_o
  <2>1. /\ commit_valid_o => InWindow(head_ptr_q)
        /\ Succ(tail_ptr_q) = head_ptr_q => (rob_full_o <=> InWindow(head_ptr_q))
    BY DEF commit_valid_o, rob_full_o, WindowInv, TypeOK
  <2>2. /\ commit_valid_o => head_ptr_q # tail_ptr_q
        /\ dec.valid => Succ(tail_ptr_q) # head_ptr_q
    BY <2>1, EdgeFacts, SuccLemma, ROBSizeAssumption DEF InWindow, TypeOK, Idx
  <2>3. /\ tail_ptr_q' = IF dec.valid
                           THEN IF tail_ptr_q = ROB_SIZE - 1
                                  THEN 0 ELSE tail_ptr_q + 1
                           ELSE tail_ptr_q
        /\ head_ptr_q' = IF commit_valid_o
                           THEN IF head_ptr_q = ROB_SIZE - 1
                                  THEN 0 ELSE head_ptr_q + 1
                           ELSE head_ptr_q
        /\ dec.valid => head_ptr_q # IF tail_ptr_q = ROB_SIZE - 1
                                       THEN 0 ELSE tail_ptr_q + 1
    BY <1>3, <2>2, EdgeFacts, SuccLemma DEF TypeOK
  <2> QED
    BY <1>1, <1>3, <2>2, <2>3, ROBSizeAssumption DEF InWindow, TypeOK, Idx
<1> QED
  BY <1>2, <1>3

LEMMA AgeStep ==
  ASSUME TypeOK, TypeOK', WindowInv, WindowInv', AgeOrder,
         NEW dec \in DecodeInputs, NEW wb \in WbInputs, Step(dec, wb)
  PROVE  AgeOrder'
<1>1. \A i \in Idx :
        /\ rob_q'[i].valid => /\ ~commit_branch_taken_o
                              /\ ~(commit_valid_o /\ i = head_ptr_q)
                              /\ (dec.valid /\ i = tail_ptr_q) \/ rob_q[i].valid
        /\ rob_q'[i].kanata_id = IF dec.valid /\ i = tail_ptr_q
                                   THEN dec.kanata_id ELSE rob_q[i].kanata_id
  BY EdgeFacts, NextEntries
<1>2. /\ kanata_id_counter \in Nat
      /\ kanata_id_counter' = IF dec.valid THEN kanata_id_counter + 1
                                           ELSE kanata_id_counter
      /\ dec.valid => dec.kanata_id = kanata_id_counter
      /\ \A i \in Idx : rob_q[i].kanata_id \in Nat
  BY EdgeFacts, MaxIdAssumption DEF TypeOK, Entry
<1>3. ASSUME NEW i \in Idx, rob_q'[i].valid
      PROVE  rob_q'[i].kanata_id < kanata_id_counter'
  BY <1>1, <1>2, <1>3 DEF AgeOrder
<1>4. ASSUME NEW i \in Idx, NEW j \in Idx,
             rob_q'[i].valid, rob_q'[j].valid, (Dist(i) < Dist(j))'
      PROVE  rob_q'[i].kanata_id < rob_q'[j].kanata_id
  <2>1. InWindow(i)' /\ InWindow(j)'
    BY <1>4 DEF WindowInv
  <2>2. /\ ~commit_branch_taken_o
        /\ ~(commit_valid_o /\ i = head_ptr_q)
        /\ ~(commit_valid_o /\ j = head_ptr_q)
    BY <1>1, <1>4
  <2>3. /\ tail_ptr_q' = IF dec.valid
                           THEN IF tail_ptr_q = ROB_SIZE - 1
                                  THEN 0 ELSE tail_ptr_q + 1
                           ELSE tail_ptr_q
        /\ head_ptr_q' = IF commit_valid_o
                           THEN IF head_ptr_q = ROB_SIZE - 1
                                  THEN 0 ELSE head_ptr_q + 1
                           ELSE head_ptr_q
    BY <2>2, EdgeFacts, SuccLemma DEF TypeOK
  (* The order of the slots in flight does not change, and the new one is  *)
  (* the last.                                                             *)
  <2>4. Dist(i) < Dist(j)
    BY <1>4, <2>2, <2>3, ROBSizeAssumption DEF Dist, TypeOK, Idx
  <2>5. ~(dec.valid /\ i = tail_ptr_q)
    BY <1>4, <2>1, <2>3, ROBSizeAssumption DEF Dist, InWindow, TypeOK, Idx
  <2>6. rob_q[i].valid
    BY <1>1, <1>4, <2>5
  <2>7. CASE dec.valid /\ j = tail_ptr_q
    BY <1>1, <1>2, <2>5, <2>6, <2>7 DEF AgeOrder
  <2>8. CASE ~(dec.valid /\ j = tail_ptr_q)
    BY <1>1, <1>4, <2>4, <2>5, <2>6, <2>8 DEF AgeOrder
  <2> QED
    BY <2>7, <2>8
<1> QED
  BY <1>3, <1>4 DEF AgeOrder

(* The ring is never corrupted: the valid entries are exactly the window   *)
(* between the two pointers, through every mix of allocation, late         *)
(* write-back, commit and flush, and walking it meets program order.       *)
THEOREM Invariance == Spec => []IInv
<1>1. Init => IInv
  <2>1. Init => \A i \in Idx : ~rob_q[i].valid
    BY DEF Init, Reset, ResetFrom, ResetEntry
  <2>2. Init => WindowInv /\ AgeOrder
    <3> SUFFICES ASSUME Init
                 PROVE  WindowInv /\ AgeOrder
      OBVIOUS
    <3>1. head_ptr_q = 0 /\ tail_ptr_q = 0
      BY DEF Init, Reset, ResetFrom
    <3>2. WindowInv
      BY <2>1, <3>1 DEF WindowInv, InWindow, Idx
    <3> QED
      BY <2>1, <3>2 DEF AgeOrder
  <2>3. Init => TypeOK
    BY ROBSizeAssumption, RegsAssumption, DataAssumption, MaxIdAssumption
       DEF Init, Reset, ResetFrom, ResetEntry, TypeOK, Entry, Idx
  <2> QED
    BY <2>2, <2>3 DEF IInv
<1>2. TypeOK /\ TypeOK' /\ IInv /\ [Next]_vars => IInv'
  <2> SUFFICES ASSUME TypeOK, TypeOK', IInv, [Next]_vars
               PROVE  IInv'
    OBVIOUS
  <2>1. ASSUME NEW dec \in DecodeInputs, NEW wb \in WbInputs, Step(dec, wb)
        PROVE  IInv'
    BY <2>1, WindowStep, AgeStep DEF IInv
  <2>2. CASE UNCHANGED vars
    BY <2>2 DEF vars, IInv, TypeOK, WindowInv, InWindow, AgeOrder, Dist
  <2> QED
    BY <2>1, <2>2 DEF Next
<1> QED
  BY <1>1, <1>2, TypeCorrect, PTL DEF Spec

(* No entry in flight is ever overwritten or stranded (rob.sv, the pointer *)
(* and valid-bit updates of the always_comb block).                        *)
THEOREM WindowCorrect == Spec => []WindowInv
BY Invariance, PTL DEF IInv

(* Entries are in program order from the head (rob.sv, allocation at       *)
(* tail_ptr_q).                                                            *)
THEOREM AgeCorrect == Spec => []AgeOrder
BY Invariance, PTL DEF IInv

(* Instructions retire in program order, and a flush removes only what is  *)
(* younger than the branch (rob.sv, the commit logic).                     *)
THEOREM CommitCorrect == Spec => InOrderCommit
<1>1. IInv /\ [Next]_vars => [InOrderStep]_vars
  <2> SUFFICES ASSUME IInv, NEW dec \in DecodeInputs, NEW wb \in WbInputs,
                      Step(dec, wb)
               PROVE  InOrderStep
    BY DEF Next
  <2>1. TypeOK /\ WindowInv /\ AgeOrder
    BY DEF IInv
  <2>2. \A i \in Idx :
          /\ rob_q'[i].valid <=>
               /\ ~commit_branch_taken_o
               /\ ~(commit_valid_o /\ i = head_ptr_q)
               /\ (dec.valid /\ i = tail_ptr_q) \/ rob_q[i].valid
          /\ rob_q'[i].kanata_id = IF dec.valid /\ i = tail_ptr_q
                                     THEN dec.kanata_id ELSE rob_q[i].kanata_id
    BY <2>1, EdgeFacts, NextEntries
  <2>3. /\ head_ptr_q \in Idx
        /\ commit_valid_o => rob_q[head_ptr_q].valid
        /\ dec.valid => dec.kanata_id = kanata_id_counter
    BY <2>1, EdgeFacts DEF TypeOK, commit_valid_o
  (* The head is the oldest entry in flight. *)
  <2>4. ASSUME NEW i \in Idx, i # head_ptr_q, rob_q[i].valid,
               rob_q[head_ptr_q].valid
        PROVE  rob_q[i].kanata_id > rob_q[head_ptr_q].kanata_id
    <3>1. Dist(head_ptr_q) < Dist(i)
      BY <2>3, <2>4, ROBSizeAssumption DEF Dist, Idx
    <3>2. rob_q[head_ptr_q].kanata_id < rob_q[i].kanata_id
      BY <2>1, <2>3, <2>4, <3>1 DEF AgeOrder
    <3>3. rob_q[head_ptr_q].kanata_id \in Nat /\ rob_q[i].kanata_id \in Nat
      BY <2>1, <2>3 DEF TypeOK, Entry
    <3> QED
      BY <3>2, <3>3
  <2>5. ASSUME commit_valid_o, NEW i \in Idx, rob_q'[i].valid
        PROVE  rob_q'[i].kanata_id > rob_q[head_ptr_q].kanata_id
    <3>1. CASE dec.valid /\ i = tail_ptr_q
      <4>1. rob_q[head_ptr_q].kanata_id < kanata_id_counter
        BY <2>1, <2>3, <2>5 DEF AgeOrder
      <4>2. rob_q[head_ptr_q].kanata_id \in Nat /\ kanata_id_counter \in Nat
        BY <2>1, <2>3, MaxIdAssumption DEF TypeOK, Entry
      <4> QED
        BY <2>2, <2>3, <3>1, <4>1, <4>2
    <3>2. CASE ~(dec.valid /\ i = tail_ptr_q)
      BY <2>2, <2>3, <2>4, <2>5, <3>2
    <3> QED
      BY <3>1, <3>2
  <2>6. ASSUME NEW i \in Idx, rob_q[i].valid, ~rob_q'[i].valid
        PROVE  \/ i = head_ptr_q /\ commit_valid_o
               \/ /\ commit_branch_taken_o
                  /\ rob_q[i].kanata_id > rob_q[head_ptr_q].kanata_id
    BY <2>2, <2>3, <2>4, <2>6 DEF commit_branch_taken_o
  <2> QED
    BY <2>5, <2>6 DEF InOrderStep
<1> QED
  BY <1>1, Invariance, PTL DEF Spec, InOrderCommit

----------------------------------------------------------------------------
(* Consequences of the invariant for the combinational outputs.            *)

(* The number of entries in flight is the distance of the pointers. *)
LEMMA WindowSize ==
  ASSUME IInv
  PROVE  Cardinality({i \in Idx : rob_q[i].valid}) = Count
<1> DEFINE V == {i \in Idx : rob_q[i].valid}
<1>1. V = {i \in Idx : InWindow(i)}
  BY DEF IInv, WindowInv
<1>2. head_ptr_q \in Idx /\ tail_ptr_q \in Idx
  BY DEF IInv, TypeOK
<1> SUFFICES Cardinality(V) = Count
  OBVIOUS
<1>3. CASE head_ptr_q <= tail_ptr_q
  <2>1. V = head_ptr_q .. tail_ptr_q - 1
    BY <1>1, <1>2, <1>3, ROBSizeAssumption DEF InWindow, Idx
  <2>2. Cardinality(head_ptr_q .. tail_ptr_q - 1) = tail_ptr_q - head_ptr_q
    <3>1. head_ptr_q \in Int /\ tail_ptr_q - 1 \in Int
      BY <1>2 DEF Idx
    <3>2. Cardinality(head_ptr_q .. tail_ptr_q - 1) =
            IF head_ptr_q > tail_ptr_q - 1 THEN 0
                                           ELSE tail_ptr_q - 1 - head_ptr_q + 1
      BY <3>1, FS_Interval, Zenon
    <3> QED
      BY <1>2, <1>3, <3>2 DEF Idx
  <2> HIDE DEF V
  <2> QED
    BY <1>3, <2>1, <2>2 DEF Count
<1>4. CASE ~(head_ptr_q <= tail_ptr_q)
  <2> DEFINE S == 0 .. tail_ptr_q - 1
             T == head_ptr_q .. ROB_SIZE - 1
  <2>1. V = S \cup T
    BY <1>1, <1>2, <1>4, ROBSizeAssumption DEF InWindow, Idx
  <2>2. S \cap T = {}
    BY <1>2, <1>4 DEF Idx
  <2>3. /\ IsFiniteSet(S) /\ Cardinality(S) = tail_ptr_q
        /\ IsFiniteSet(T) /\ Cardinality(T) = ROB_SIZE - head_ptr_q
    BY <1>2, ROBSizeAssumption, FS_Interval DEF Idx
  <2> HIDE DEF S, T, V
  <2>4. Cardinality(V) = Cardinality(S) + Cardinality(T) - 0
    BY <2>1, <2>2, <2>3, FS_Union, FS_EmptySet
  <2> QED
    BY <1>2, <1>4, <2>3, <2>4, ROBSizeAssumption DEF Count, Idx
<1> QED
  BY <1>3, <1>4

(* rob_full_o is exact (rob.sv, the assignment of rob_full_o). *)
THEOREM FullCorrect == Spec => []FullIsExact
<1>1. IInv => FullIsExact
  <2> SUFFICES ASSUME IInv
               PROVE  rob_full_o <=> Count = ROB_SIZE - 1
    BY WindowSize DEF FullIsExact
  <2>1. head_ptr_q \in Idx /\ tail_ptr_q \in Idx
    BY DEF IInv, TypeOK
  <2>2. rob_full_o <=> Succ(tail_ptr_q) = head_ptr_q /\ InWindow(head_ptr_q)
    BY <2>1 DEF rob_full_o, IInv, WindowInv
  <2> QED
    BY <2>1, <2>2, SuccLemma, ROBSizeAssumption DEF InWindow, Count, Idx
<1> QED
  BY <1>1, Invariance, PTL

(* The backward search, without the modulus. *)
LEMMA BackLemma ==
  ASSUME tail_ptr_q \in Idx, NEW k \in 1 .. ROB_SIZE - 1
  PROVE  /\ Back(k) = IF k <= tail_ptr_q THEN tail_ptr_q - k
                                         ELSE tail_ptr_q - k + ROB_SIZE
         /\ Back(k) \in Idx
BY ROBSizeAssumption DEF Back, Idx

(* A set of naturals that is not empty has a least element. *)
LEMMA LeastElement ==
  ASSUME NEW S, S \subseteq Nat, S # {}
  PROVE  \E k \in S : \A j \in S : k <= j
<1>1. PICK k \in S : \A j \in S : ~(<<j, k>> \in OpToRel(<, Nat))
  BY WFMin, NatLessThanWellFounded
<1>2. \A j \in S : ~(j < k)
  BY <1>1 DEF OpToRel
<1> QED
  BY <1>2

(* Hazard detection names the youngest producer (rob.sv, the two loops of  *)
(* the hazard logic).                                                      *)
THEOREM HazardCorrect == Spec => []HazardIsYoungestWriter
<1>1. IInv => HazardIsYoungestWriter
  <2> SUFFICES ASSUME IInv, NEW rs \in Regs
               PROVE  LET W == {i \in Idx : Writes(i, rs)}
                      IN  /\ hazard_o(rs) <=> W # {}
                          /\ hazard_o(rs) =>
                               /\ rob_entry_o(rs) \in W
                               /\ \A i \in W :
                                    rob_q[i].kanata_id
                                      <= rob_q[rob_entry_o(rs)].kanata_id
    BY DEF HazardIsYoungestWriter
  <2> DEFINE W    == {i \in Idx : Writes(i, rs)}
             K    == 1 .. ROB_SIZE - 1
             Hits == {k \in K : Writes(Back(k), rs)}
             First(k) == /\ Writes(Back(k), rs)
                         /\ \A j \in 1 .. k - 1 : ~Writes(Back(j), rs)
  <2>1. TypeOK /\ WindowInv /\ AgeOrder
    BY DEF IInv
  <2>2. head_ptr_q \in Idx /\ tail_ptr_q \in Idx
    BY <2>1 DEF TypeOK
  (* Every writer is met by the search: the slot it skips, tail_ptr_q, is   *)
  (* never in flight.                                                       *)
  <2>3. ASSUME NEW i \in Idx, Writes(i, rs)
        PROVE  \E k \in K : Back(k) = i
    <3>1. InWindow(i)
      BY <2>1, <2>3 DEF WindowInv, Writes
    <3>2. i # tail_ptr_q
      BY <2>2, <3>1 DEF InWindow, Idx
    <3> DEFINE k == IF i < tail_ptr_q THEN tail_ptr_q - i
                                      ELSE tail_ptr_q - i + ROB_SIZE
    <3>3. k \in K
      BY <2>2, <3>2, ROBSizeAssumption DEF Idx
    <3>4. Back(k) = i
      BY <2>2, <3>3, BackLemma, ROBSizeAssumption DEF Idx
    <3> QED
      BY <3>3, <3>4
  <2>4. hazard_o(rs) <=> W # {}
    BY <2>2, <2>3, BackLemma DEF hazard_o
  <2>5. ASSUME hazard_o(rs)
        PROVE  /\ rob_entry_o(rs) \in W
               /\ \A i \in W : rob_q[i].kanata_id
                                <= rob_q[rob_entry_o(rs)].kanata_id
    <3>1. \E k \in K : First(k)
      <4>1. Hits # {} /\ Hits \subseteq Nat
        BY <2>5 DEF hazard_o
      <4>2. PICK k \in Hits : \A j \in Hits : k <= j
        <5> HIDE DEF Hits
        <5> QED
          BY <4>1, LeastElement
      <4>3. \A j \in 1 .. k - 1 : j \in K /\ ~(k <= j)
        BY <4>2, ROBSizeAssumption
      <4> QED
        BY <4>2, <4>3
    <3> DEFINE c == CHOOSE k \in K : First(k)
    <3>2. c \in K /\ First(c)
      BY <3>1, Zenon
    <3>3. rob_entry_o(rs) = Back(c)
      BY DEF rob_entry_o
    <3> HIDE DEF c
    <3>4. Back(c) \in Idx
      BY <2>2, <3>2, BackLemma
    <3>5. Back(c) \in W
      BY <3>2, <3>4
    <3>6. ASSUME NEW i \in W
          PROVE  rob_q[i].kanata_id <= rob_q[Back(c)].kanata_id
      <4>1. PICK k \in K : Back(k) = i
        BY <2>3
      <4>2. k >= c
        BY <3>2, <4>1, ROBSizeAssumption
      <4>3. InWindow(i) /\ InWindow(Back(c))
        BY <2>1, <3>5 DEF WindowInv, Writes
      <4>4. i = Back(c) \/ Dist(i) < Dist(Back(c))
        <5>1. /\ i = IF k <= tail_ptr_q THEN tail_ptr_q - k
                                        ELSE tail_ptr_q - k + ROB_SIZE
              /\ Back(c) = IF c <= tail_ptr_q THEN tail_ptr_q - c
                                        ELSE tail_ptr_q - c + ROB_SIZE
          BY <2>2, <3>2, <4>1, BackLemma
        <5> QED
          BY <2>2, <3>2, <4>2, <4>3, <5>1, ROBSizeAssumption
             DEF Dist, InWindow, Idx
      <4>5. rob_q[i].kanata_id \in Nat /\ rob_q[Back(c)].kanata_id \in Nat
        BY <2>1, <3>4 DEF TypeOK, Entry
      <4>6. rob_q[i].valid /\ rob_q[Back(c)].valid
        BY <3>5 DEF Writes
      <4> QED
        BY <2>1, <3>4, <4>4, <4>5, <4>6 DEF AgeOrder
    <3> QED
      BY <3>3, <3>5, <3>6
  <2> QED
    BY <2>4, <2>5
<1> QED
  BY <1>1, Invariance, PTL

-----------------------------------------------------------------------------
Item == [id : Nat, completed : BOOLEAN, taken : BOOLEAN]

(* What the queue shows of an entry, and the entry of its k-th place. *)
View(e) == [id |-> e.kanata_id, completed |-> e.completed,
            taken |-> e.completed /\ e.branch_taken]
Slot(k) == IF head_ptr_q + k - 1 < ROB_SIZE THEN head_ptr_q + k - 1
                                            ELSE head_ptr_q + k - 1 - ROB_SIZE

LEMMA Places ==
  ASSUME TypeOK
  PROVE  /\ Count \in 0 .. ROB_SIZE - 1
         /\ \A k \in 1 .. Count : /\ Slot(k) \in Idx /\ InWindow(Slot(k))
                                  /\ Slot(k) = (head_ptr_q + k - 1) % ROB_SIZE
                                  /\ Dist(Slot(k)) = k - 1
         /\ \A i \in Idx : InWindow(i) => /\ Dist(i) + 1 \in 1 .. Count
                                          /\ Slot(Dist(i) + 1) = i
<1>1. head_ptr_q \in Idx /\ tail_ptr_q \in Idx
  BY DEF TypeOK
<1>2. Count \in 0 .. ROB_SIZE - 1
  BY <1>1, ROBSizeAssumption DEF Count, Idx
<1>3. ASSUME NEW k \in 1 .. Count
      PROVE  /\ Slot(k) \in Idx /\ InWindow(Slot(k))
             /\ Slot(k) = (head_ptr_q + k - 1) % ROB_SIZE
             /\ Dist(Slot(k)) = k - 1
  <2>1. Slot(k) \in Idx
    BY <1>1, <1>2, ROBSizeAssumption DEF Slot, Idx
  <2>2. InWindow(Slot(k))
    BY <1>1, ROBSizeAssumption DEF Slot, InWindow, Count, Idx
  <2>3. Slot(k) = (head_ptr_q + k - 1) % ROB_SIZE
    BY <1>1, <1>2, ROBSizeAssumption DEF Slot, Idx
  <2>4. Dist(Slot(k)) = k - 1
    BY <1>1, <1>2, ROBSizeAssumption DEF Slot, Dist, Idx
  <2> QED
    BY <2>1, <2>2, <2>3, <2>4
<1>4. ASSUME NEW i \in Idx, InWindow(i)
      PROVE  Dist(i) + 1 \in 1 .. Count /\ Slot(Dist(i) + 1) = i
  BY <1>1, <1>4, ROBSizeAssumption DEF Slot, Dist, InWindow, Count, Idx
<1> QED
  BY <1>2, <1>3, <1>4

(* The queue as a sequence. *)
QueueFacts ==
  /\ QueueView \in Seq(Item) /\ Len(QueueView) = Count
  /\ \A k \in 1 .. Count : QueueView[k] = View(rob_q[Slot(k)])

LEMMA QueueIsSeq ==
  TypeOK => QueueFacts
<1> SUFFICES ASSUME TypeOK
             PROVE  QueueFacts
  OBVIOUS
<1>1. Count \in Nat /\ \A k \in 1 .. Count : Slot(k) \in Idx
  BY Places, ROBSizeAssumption
<1>2. \A i \in Idx : View(rob_q[i]) \in Item
  BY DEF TypeOK, Entry, View, Item
<1>3. QueueView = [k \in 1 .. Count |-> View(rob_q[Slot(k)])]
  BY Places DEF QueueView, View
<1> HIDE DEF QueueView
<1>4. QueueView \in [1 .. Count -> Item]
  BY <1>1, <1>2, <1>3
<1>5. QueueView \in Seq(Item) /\ Len(QueueView) = Count
  BY <1>1, <1>4
<1> QED
  BY <1>3, <1>5 DEF QueueFacts

LEMMA QueueIsSeqNext ==
  TypeOK' => QueueFacts'
BY QueueIsSeq, PTL

(* What the clock edge does to the fields that the queue shows. *)
LEMMA NextFields ==
  ASSUME TypeOK, NEW dec \in DecodeInput, NEW wb \in WbInput
  PROVE  \A i \in Idx :
           /\ rob_d(dec, wb)[i].completed <=>
                \/ Accepts(wb) /\ i = wb.rob_idx
                \/ ~(dec.valid /\ i = tail_ptr_q) /\ rob_q[i].completed
           /\ rob_d(dec, wb)[i].branch_taken =
                IF Accepts(wb) /\ i = wb.rob_idx THEN wb.branch_taken
                                                 ELSE rob_q[i].branch_taken
<1> DEFINE A == Allocate(rob_q, dec)
           W == WriteBack(A, wb)
           B == Retire(W)
<1>0. /\ rob_q \in [Idx -> Entry] /\ tail_ptr_q \in Idx /\ head_ptr_q \in Idx
      /\ wb.rob_idx \in Idx
  BY DEF TypeOK, WbInput
<1>1. /\ A \in [Idx -> Entry]
      /\ \A i \in Idx :
           /\ A[i].completed <=> ~(dec.valid /\ i = tail_ptr_q) /\ rob_q[i].completed
           /\ A[i].branch_taken = rob_q[i].branch_taken
  <2>1. CASE dec.valid
    <3> DEFINE f == Fresh(rob_q[tail_ptr_q], dec)
    <3>1. f \in Entry /\ ~f.completed /\ f.branch_taken = rob_q[tail_ptr_q].branch_taken
      <4>1. \A e \in Entry : Fresh(e, dec).branch_taken = e.branch_taken
        BY DEF Fresh, Entry
      <4> QED
        BY <1>0, <4>1, FreshEntry
    <3>2. A = [rob_q EXCEPT ![tail_ptr_q] = f]
      BY <2>1 DEF Allocate
    <3> HIDE DEF A, f
    <3> QED
      BY <1>0, <2>1, <3>1, <3>2
  <2>2. CASE ~dec.valid
    BY <1>0, <2>2 DEF Allocate
  <2> QED
    BY <2>1, <2>2
<1> HIDE DEF A
<1>2. /\ W \in [Idx -> Entry]
      /\ \A i \in Idx :
           /\ W[i].completed <=> (Accepts(wb) /\ i = wb.rob_idx) \/ A[i].completed
           /\ W[i].branch_taken = IF Accepts(wb) /\ i = wb.rob_idx
                                    THEN wb.branch_taken ELSE A[i].branch_taken
  <2>1. CASE Accepts(wb)
    <3> DEFINE c == Complete(A[wb.rob_idx], wb)
    <3>1. c \in Entry /\ c.completed /\ c.branch_taken = wb.branch_taken
      <4>1. \A e \in Entry : Complete(e, wb).branch_taken = wb.branch_taken
        BY DEF Complete, Entry
      <4> QED
        BY <1>0, <1>1, <4>1, CompletedEntry
    <3>2. W = [A EXCEPT ![wb.rob_idx] = c]
      BY <2>1 DEF WriteBack
    <3> HIDE DEF W, c
    <3> QED
      BY <1>0, <1>1, <2>1, <3>1, <3>2
  <2>2. CASE ~Accepts(wb)
    BY <1>1, <2>2 DEF WriteBack
  <2> QED
    BY <2>1, <2>2
<1> HIDE DEF W
<1>3. \A e \in Entry : Freed(e).completed = e.completed /\ Freed(e).branch_taken = e.branch_taken
  BY DEF Freed, Entry
<1>4. /\ B \in [Idx -> Entry]
      /\ \A i \in Idx : /\ B[i].completed = W[i].completed
                        /\ B[i].branch_taken = W[i].branch_taken
  <2>1. W \in [Idx -> Entry]
    BY <1>2
  <2>2. CASE commit_valid_o
    <3>1. B = [W EXCEPT ![head_ptr_q] = Freed(W[head_ptr_q])]
      BY <2>2 DEF Retire
    <3> HIDE DEF B
    <3> QED
      BY <1>0, <1>3, <2>1, <3>1, FreedEntry
  <2>3. CASE ~commit_valid_o
    BY <2>1, <2>3 DEF Retire
  <2> QED
    BY <2>2, <2>3
<1>5. B = BeforeFlush(dec, wb)
  BY DEF BeforeFlush, A, W
<1> HIDE DEF B
<1>6. \A i \in Idx : /\ rob_d(dec, wb)[i].completed = B[i].completed
                     /\ rob_d(dec, wb)[i].branch_taken = B[i].branch_taken
  <2>1. CASE commit_branch_taken_o
    BY <1>3, <1>4, <1>5, <2>1 DEF rob_d
  <2>2. CASE ~commit_branch_taken_o
    BY <1>5, <2>2 DEF rob_d
  <2> QED
    BY <2>1, <2>2
<1> QED
  BY <1>1, <1>2, <1>4, <1>6
----------------------------------------------------------------------------

(* The pointers after an edge that does not flush. *)
LEMMA PlacesStep ==
  ASSUME IInv, NEW dec \in DecodeInputs, NEW wb \in WbInputs, Step(dec, wb),
         ~commit_branch_taken_o
  PROVE  LET c == IF commit_valid_o THEN 1 ELSE 0
             d == IF dec.valid THEN 1 ELSE 0
         IN  /\ Count' = Count - c + d
             /\ commit_valid_o => Count >= 1
             /\ dec.valid => Count < ROB_SIZE - 1
             /\ \A k \in 1 .. Count - c : Slot(k)' = Slot(k + c)
             /\ dec.valid => \A k : k = Count - c + 1 => Slot(k)' = tail_ptr_q
<1>1. TypeOK /\ head_ptr_q \in Idx /\ tail_ptr_q \in Idx
  BY DEF IInv, TypeOK
<1>2. /\ commit_valid_o => InWindow(head_ptr_q)
      /\ Succ(tail_ptr_q) = head_ptr_q => (rob_full_o <=> InWindow(head_ptr_q))
  BY <1>1 DEF commit_valid_o, rob_full_o, IInv, WindowInv
<1>3. /\ commit_valid_o => head_ptr_q # tail_ptr_q
      /\ dec.valid => Succ(tail_ptr_q) # head_ptr_q
  BY <1>1, <1>2, EdgeFacts, SuccLemma, ROBSizeAssumption DEF InWindow, Idx
<1>4. /\ tail_ptr_q' = IF dec.valid
                         THEN IF tail_ptr_q = ROB_SIZE - 1 THEN 0 ELSE tail_ptr_q + 1
                         ELSE tail_ptr_q
      /\ head_ptr_q' = IF commit_valid_o
                         THEN IF head_ptr_q = ROB_SIZE - 1 THEN 0 ELSE head_ptr_q + 1
                         ELSE head_ptr_q
      /\ dec.valid => head_ptr_q # IF tail_ptr_q = ROB_SIZE - 1 THEN 0 ELSE tail_ptr_q + 1
  BY <1>1, <1>3, EdgeFacts, SuccLemma
<1> DEFINE c == IF commit_valid_o THEN 1 ELSE 0
           d == IF dec.valid THEN 1 ELSE 0
<1>5. /\ Count' = Count - c + d
      /\ commit_valid_o => Count >= 1
      /\ dec.valid => Count < ROB_SIZE - 1
  BY <1>1, <1>3, <1>4, ROBSizeAssumption DEF Count, Idx
<1>6. ASSUME NEW k \in 1 .. Count - c
      PROVE  Slot(k)' = Slot(k + c)
  <2>1. Count \in 0 .. ROB_SIZE - 1
    BY <1>1, Places
  <2> QED
    BY <1>1, <1>4, <1>6, <2>1, ROBSizeAssumption DEF Slot, Idx
<1>7. ASSUME dec.valid, NEW k, k = Count - c + 1
      PROVE  Slot(k)' = tail_ptr_q
  BY <1>1, <1>3, <1>4, <1>7, ROBSizeAssumption DEF Slot, Count, Idx
<1> QED
  BY <1>5, <1>6, <1>7

LEMMA ViewFields ==
  ASSUME NEW e \in Entry
  PROVE  /\ View(e) \in Item /\ View(e).id = e.kanata_id
         /\ View(e).completed = e.completed
         /\ View(e).taken <=> e.completed /\ e.branch_taken
BY DEF View, Item, Entry

(* The completion of one item, in the queue it belongs to. *)
LEMMA CompletedItem ==
  ASSUME NEW x \in Item, NEW t \in BOOLEAN
  PROVE  LET y == [x EXCEPT !.completed = TRUE, !.taken = t]
         IN  y \in Item /\ y.id = x.id /\ y.completed = TRUE /\ y.taken = t
BY DEF Item

LEMMA ItemEqual ==
  ASSUME NEW x \in Item, NEW y \in Item,
         x.id = y.id, x.completed = y.completed, x.taken = y.taken
  PROVE  x = y
BY DEF Item

LEMMA CompletedQueue ==
  ASSUME NEW s
  PROVE  /\ s \in Queue!Completed(s)
         /\ \A k \in 1 .. Len(s), t \in BOOLEAN :
              [s EXCEPT ![k] = [s[k] EXCEPT !.completed = TRUE, !.taken = t]]
                \in Queue!Completed(s)
<1> DEFINE f(k, t) == [s EXCEPT ![k] = [s[k] EXCEPT !.completed = TRUE, !.taken = t]]
<1>1. Queue!Completed(s) = {s} \cup {f(k, t) : k \in 1 .. Len(s), t \in BOOLEAN}
  BY DEF Queue!Completed
<1> HIDE DEF f
<1>2. /\ s \in Queue!Completed(s)
      /\ \A k \in 1 .. Len(s), t \in BOOLEAN : f(k, t) \in Queue!Completed(s)
  BY <1>1
<1> QED
  BY <1>2 DEF f

(* What the queue shows of the entries after an edge that does not flush.  *)
LEMMA ViewStep ==
  ASSUME IInv, NEW dec \in DecodeInputs, NEW wb \in WbInputs, Step(dec, wb)
  PROVE  /\ \A i \in Idx : InWindow(i) =>
              View(rob_q'[i]) = IF Accepts(wb) /\ i = wb.rob_idx
                                  THEN [View(rob_q[i]) EXCEPT !.completed = TRUE,
                                                              !.taken = wb.branch_taken]
                                  ELSE View(rob_q[i])
         /\ dec.valid => View(rob_q'[tail_ptr_q]) = Queue!Instr(kanata_id_counter)
<1>1. TypeOK /\ tail_ptr_q \in Idx /\ rob_q \in [Idx -> Entry]
  BY DEF IInv, TypeOK
<1>2. dec \in DecodeInput /\ wb \in WbInput /\ rob_q' = rob_d(dec, wb)
      /\ (dec.valid => dec.kanata_id = kanata_id_counter)
  BY <1>1, EdgeFacts
<1>3. \A i \in Idx :
        /\ rob_q'[i].completed <=>
             \/ Accepts(wb) /\ i = wb.rob_idx
             \/ ~(dec.valid /\ i = tail_ptr_q) /\ rob_q[i].completed
        /\ rob_q'[i].branch_taken = IF Accepts(wb) /\ i = wb.rob_idx THEN wb.branch_taken
                                                                    ELSE rob_q[i].branch_taken
        /\ rob_q'[i].kanata_id = IF dec.valid /\ i = tail_ptr_q THEN dec.kanata_id
                                                               ELSE rob_q[i].kanata_id
        /\ rob_q'[i] \in Entry
  BY <1>1, <1>2, NextFields, NextEntries
<1>4. ~InWindow(tail_ptr_q)
  BY <1>1 DEF IInv, TypeOK, InWindow, Idx
<1>5. Accepts(wb) => wb.rob_idx # tail_ptr_q
  BY <1>1, <1>4 DEF Accepts, IInv, WindowInv
<1>6. wb.branch_taken \in BOOLEAN
  BY <1>2 DEF WbInput
<1>7. ASSUME NEW i \in Idx, InWindow(i)
      PROVE  View(rob_q'[i]) = IF Accepts(wb) /\ i = wb.rob_idx
                                 THEN [View(rob_q[i]) EXCEPT !.completed = TRUE,
                                                             !.taken = wb.branch_taken]
                                 ELSE View(rob_q[i])
  <2>0. i # tail_ptr_q
    BY <1>4, <1>7
  <2>1. rob_q[i].completed \in BOOLEAN /\ rob_q'[i].completed \in BOOLEAN
    BY <1>1, <1>3 DEF Entry
  <2>2. CASE Accepts(wb) /\ i = wb.rob_idx
    <3>1. /\ rob_q'[i].completed = TRUE /\ rob_q'[i].branch_taken = wb.branch_taken
          /\ rob_q'[i].kanata_id = rob_q[i].kanata_id
      BY <1>3, <2>0, <2>1, <2>2
    <3> DEFINE y == [View(rob_q[i]) EXCEPT !.completed = TRUE, !.taken = wb.branch_taken]
    <3>2. y \in Item /\ y.id = rob_q[i].kanata_id /\ y.completed = TRUE /\ y.taken = wb.branch_taken
      <4>1. View(rob_q[i]) \in Item /\ View(rob_q[i]).id = rob_q[i].kanata_id
        BY <1>1, ViewFields
      <4> QED
        BY <1>6, <4>1, CompletedItem
    <3> HIDE DEF y
    <3>3. View(rob_q'[i]) = y
      <4> DEFINE z == View(rob_q'[i])
      <4>1. z \in Item /\ z.id = rob_q'[i].kanata_id /\ z.completed = rob_q'[i].completed
            /\ (z.taken <=> rob_q'[i].completed /\ rob_q'[i].branch_taken)
        BY <1>3, ViewFields
      <4> HIDE DEF z
      <4>2. z.taken \in BOOLEAN
        BY <4>1 DEF Item
      <4>3. z.taken = y.taken
        BY <1>6, <3>1, <3>2, <4>1, <4>2
      <4>4. z = y
        BY <3>1, <3>2, <4>1, <4>3, ItemEqual
      <4> QED
        BY <4>4 DEF z
    <3> QED
      BY <2>2, <3>3 DEF y
  <2>3. CASE ~(Accepts(wb) /\ i = wb.rob_idx)
    <3>1. /\ rob_q'[i].completed = rob_q[i].completed
          /\ rob_q'[i].branch_taken = rob_q[i].branch_taken
          /\ rob_q'[i].kanata_id = rob_q[i].kanata_id
      BY <1>3, <2>0, <2>1, <2>3
    <3>2. View(rob_q'[i]) = View(rob_q[i])
      BY <3>1 DEF View
    <3> QED
      BY <2>3, <3>2
  <2> QED
    BY <2>2, <2>3
<1>8. ASSUME dec.valid
      PROVE  View(rob_q'[tail_ptr_q]) = Queue!Instr(kanata_id_counter)
  <2>1. rob_q'[tail_ptr_q].completed \in BOOLEAN
    BY <1>1, <1>3 DEF Entry
  <2>2. /\ rob_q'[tail_ptr_q].completed = FALSE
        /\ rob_q'[tail_ptr_q].kanata_id = kanata_id_counter
    BY <1>1, <1>2, <1>3, <1>5, <1>8, <2>1
  <2> QED
    BY <2>2 DEF View, Queue!Instr
<1> QED
  BY <1>7, <1>8
(* A flush empties the queue. *)
LEMMA FlushSquashes ==
  ASSUME IInv, NEW dec \in DecodeInputs, NEW wb \in WbInputs, Step(dec, wb),
         commit_branch_taken_o
  PROVE  Queue!Squash
<1>1. TypeOK /\ head_ptr_q \in Idx
  BY DEF IInv, TypeOK
<1>2. /\ head_ptr_q' = 0 /\ tail_ptr_q' = 0 /\ ~dec.valid
      /\ kanata_id_counter' = kanata_id_counter
  BY <1>1, EdgeFacts
<1>3. /\ rob_q[head_ptr_q].valid /\ rob_q[head_ptr_q].completed
      /\ rob_q[head_ptr_q].branch_taken
  BY DEF commit_branch_taken_o, commit_valid_o
<1>4. 1 \in 1 .. Count /\ Slot(1) = head_ptr_q
  <2>1. InWindow(head_ptr_q)
    BY <1>1, <1>3 DEF IInv, WindowInv
  <2>2. Dist(head_ptr_q) = 0
    BY <1>1 DEF Dist, Idx
  <2> QED
    BY <1>1, <2>1, <2>2, Places
<1>5. /\ QueueView \in Seq(Item) /\ Len(QueueView) = Count
      /\ QueueView[1] = View(rob_q[head_ptr_q])
  BY <1>1, <1>4, QueueIsSeq DEF QueueFacts
<1> DEFINE q == QueueView
<1>6. Queue!FrontTaken
  <2> SUFFICES q # << >> /\ Head(q).completed /\ Head(q).taken
    BY DEF Queue!FrontTaken, Queue!FrontDone
  <2> HIDE DEF q
  <2>1. q # << >> /\ Head(q) = View(rob_q[head_ptr_q])
    BY <1>4, <1>5 DEF q
  <2> QED
    BY <1>1, <1>3, <2>1, ViewFields DEF TypeOK
<1>7. q' = << >>
  <2>1. Count' = 0
    BY <1>2 DEF Count
  <2>2. q' = [k \in 1 .. 0 |->
                LET e == rob_q'[(head_ptr_q' + k - 1) % ROB_SIZE]
                IN  [id |-> e.kanata_id, completed |-> e.completed,
                     taken |-> e.completed /\ e.branch_taken]]
    BY <2>1 DEF QueueView
  <2>3. 1 .. 0 = {}
    OBVIOUS
  <2> HIDE DEF q
  <2> QED
    BY <2>2, <2>3
<1> QED
  BY <1>2, <1>6, <1>7 DEF Queue!Squash

(* Every other edge is a cycle of the queue. *)
LEMMA EdgeCycles ==
  ASSUME IInv, TypeOK', NEW dec \in DecodeInputs, NEW wb \in WbInputs, Step(dec, wb),
         ~commit_branch_taken_o
  PROVE  Queue!Cycle
<1> DEFINE c == IF commit_valid_o THEN 1 ELSE 0
           d == IF dec.valid THEN 1 ELSE 0
           q == QueueView
           k0 == Dist(wb.rob_idx) + 1
           done == [q EXCEPT ![k0] = [q[k0] EXCEPT !.completed = TRUE, !.taken = wb.branch_taken]]
           r == IF Accepts(wb) THEN done ELSE q
           rest == IF commit_valid_o THEN Tail(r) ELSE r
           new == Queue!Instr(kanata_id_counter)
<1>1. /\ TypeOK /\ head_ptr_q \in Idx /\ tail_ptr_q \in Idx
      /\ rob_q \in [Idx -> Entry] /\ kanata_id_counter \in Nat
  BY MaxIdAssumption DEF IInv, TypeOK
<1>2. /\ dec \in DecodeInput /\ wb \in WbInput
      /\ wb.branch_taken \in BOOLEAN /\ wb.rob_idx \in Idx
      /\ kanata_id_counter' = IF dec.valid THEN kanata_id_counter + 1 ELSE kanata_id_counter
  BY <1>1, EdgeFacts DEF WbInput
<1>3. /\ Count' = Count - c + d
      /\ commit_valid_o => Count >= 1
      /\ dec.valid => Count < ROB_SIZE - 1
      /\ \A k \in 1 .. Count - c : Slot(k)' = Slot(k + c)
      /\ dec.valid => \A k : k = Count - c + 1 => Slot(k)' = tail_ptr_q
  BY PlacesStep
<1>4. /\ Count \in 0 .. ROB_SIZE - 1
      /\ \A k \in 1 .. Count : /\ Slot(k) \in Idx /\ InWindow(Slot(k))
                               /\ Dist(Slot(k)) = k - 1
      /\ Accepts(wb) => k0 \in 1 .. Count /\ Slot(k0) = wb.rob_idx
  <2>1. Accepts(wb) => InWindow(wb.rob_idx)
    BY <1>2 DEF Accepts, IInv, WindowInv
  <2> QED
    BY <1>1, <1>2, <2>1, Places
<1>5. /\ q \in Seq(Item) /\ Len(q) = Count
      /\ \A k \in 1 .. Count : q[k] = View(rob_q[Slot(k)])
  BY <1>1, QueueIsSeq DEF QueueFacts
<1>6. /\ q' \in Seq(Item) /\ Len(q') = Count'
      /\ \A k \in 1 .. Count' : q'[k] = View(rob_q'[Slot(k)'])
  BY QueueIsSeqNext DEF QueueFacts
<1>7. /\ \A i \in Idx : InWindow(i) =>
           View(rob_q'[i]) = IF Accepts(wb) /\ i = wb.rob_idx
                               THEN [View(rob_q[i]) EXCEPT !.completed = TRUE,
                                                           !.taken = wb.branch_taken]
                               ELSE View(rob_q[i])
      /\ dec.valid => View(rob_q'[tail_ptr_q]) = new
  BY ViewStep
<1>8. new \in Item
  BY <1>1 DEF Queue!Instr, Item
(* The queue with the write-back of the cycle. *)
<1>9. /\ r \in Queue!Completed(q)
      /\ r \in Seq(Item) /\ Len(r) = Count
      /\ \A k \in 1 .. Count : r[k] = View(rob_q'[Slot(k)])
  <2>1. CASE Accepts(wb)
    <3> DEFINE e == [q[k0] EXCEPT !.completed = TRUE, !.taken = wb.branch_taken]
    <3>1. k0 \in 1 .. Len(q) /\ q[k0] \in Item
      BY <1>4, <1>5, <2>1
    <3>2. \A x \in Item : [x EXCEPT !.completed = TRUE, !.taken = wb.branch_taken] \in Item
      BY <1>2 DEF Item
    <3>3. e \in Item
      BY <3>1, <3>2
    <3>4. r = [q EXCEPT ![k0] = e]
      BY <2>1
    <3>5. r \in Queue!Completed(q)
      BY <1>2, <2>1, <3>1, CompletedQueue
    <3> HIDE DEF q, k0
    <3>6. e = View(rob_q'[Slot(k0)])
      BY <1>4, <1>5, <1>7, <2>1
    <3> HIDE DEF r, e
    <3>7. r \in Seq(Item) /\ Len(r) = Len(q)
          /\ \A k \in 1 .. Len(q) : r[k] = IF k = k0 THEN e ELSE q[k]
      BY <1>5, <3>1, <3>3, <3>4, ExceptSeq
    <3>8. \A k \in 1 .. Count : k # k0 => Slot(k) # wb.rob_idx
      BY <1>4, <2>1
    <3>9. \A k \in 1 .. Count : k # k0 => q[k] = View(rob_q'[Slot(k)])
      BY <1>4, <1>5, <1>7, <3>8
    <3> QED
      BY <1>5, <3>5, <3>6, <3>7, <3>9
  <2>2. CASE ~Accepts(wb)
    <3>1. r = q
      BY <2>2
    <3>2. r \in Queue!Completed(q)
      BY <3>1, CompletedQueue
    <3> HIDE DEF r, q
    <3> QED
      BY <1>4, <1>5, <1>7, <2>2, <3>1, <3>2
  <2> QED
    BY <2>1, <2>2
(* The front of the queue is the head entry. *)
<1>10. Queue!FrontDone <=> commit_valid_o
  <2>1. Queue!FrontDone <=> q # << >> /\ Head(q).completed
    BY DEF Queue!FrontDone
  <2> HIDE DEF q
  <2>2. q # << >> <=> Count >= 1
    BY <1>4, <1>5
  <2>3. rob_q[head_ptr_q].valid <=> Count >= 1
    BY <1>1, ROBSizeAssumption DEF IInv, WindowInv, InWindow, Count, Idx
  <2>4. Count >= 1 => Head(q) = View(rob_q[head_ptr_q])
    <3>1. Slot(1) = head_ptr_q
      BY <1>1, ROBSizeAssumption DEF Slot, Idx
    <3> QED
      BY <1>4, <1>5, <3>1
  <2> QED
    BY <1>1, <2>1, <2>2, <2>3, <2>4, ViewFields DEF commit_valid_o
<1>11. ~Queue!FrontTaken
  <2> SUFFICES ASSUME Queue!FrontDone, Head(q).taken
               PROVE  FALSE
    BY DEF Queue!FrontTaken
  <2>1. commit_valid_o /\ Count >= 1
    BY <1>3, <1>10
  <2>2. Slot(1) = head_ptr_q
    BY <1>1, ROBSizeAssumption DEF Slot, Idx
  <2> HIDE DEF q
  <2>3. Head(q) = View(rob_q[head_ptr_q])
    BY <1>4, <1>5, <2>1, <2>2
  <2> QED
    BY <1>1, <2>1, <2>3, ViewFields DEF commit_branch_taken_o
(* What is left of it. *)
<1> HIDE DEF r, q, k0, new
<1>12. /\ rest \in Seq(Item) /\ Len(rest) = Count - c
       /\ \A k \in 1 .. Count - c : rest[k] = r[k + c]
  <2>1. CASE commit_valid_o
    <3>1. r # << >>
      BY <1>3, <1>9, <2>1
    <3>2. Tail(r) \in Seq(Item) /\ Len(Tail(r)) = Len(r) - 1
          /\ \A k \in 1 .. Len(Tail(r)) : Tail(r)[k] = r[k + 1]
      BY <1>9, <3>1, HeadTailProperties
    <3> QED
      BY <1>9, <2>1, <3>2
  <2>2. CASE ~commit_valid_o
    BY <1>9, <2>2
  <2> QED
    BY <2>1, <2>2
<1>13. \A k \in 1 .. Count - c : k \in 1 .. Count' /\ q'[k] = rest[k]
  <2> SUFFICES ASSUME NEW k \in 1 .. Count - c
               PROVE  k \in 1 .. Count' /\ q'[k] = rest[k]
    OBVIOUS
  <2>1. k + c \in 1 .. Count /\ k \in 1 .. Count'
    BY <1>3, <1>4
  <2>2. q'[k] = View(rob_q'[Slot(k + c)])
    BY <1>3, <1>6, <2>1
  <2>3. rest[k] = View(rob_q'[Slot(k + c)])
    BY <1>9, <1>12, <2>1
  <2> QED
    BY <2>1, <2>2, <2>3
<1>14. CASE dec.valid
  <2> DEFINE grown == Append(rest, new)
  <2> HIDE DEF rest
  <2>1. /\ grown \in Seq(Item) /\ Len(grown) = Count - c + 1
        /\ \A k \in 1 .. Count - c : grown[k] = rest[k]
        /\ grown[Count - c + 1] = new
    BY <1>8, <1>12, AppendProperties
  <2> DEFINE n == Count - c + 1
  <2>2. n \in 1 .. Count' /\ Count' = n
    BY <1>3, <1>4, <1>14
  <2>3. ASSUME NEW k \in 1 .. Count', k = n
        PROVE  q'[k] = new
    <3>1. Slot(k)' = tail_ptr_q
      BY <1>3, <1>14, <2>3
    <3> QED
      BY <1>6, <1>7, <1>14, <3>1
  <2>4. q'[n] = new
    BY <2>2, <2>3
  <2>5. \A k \in 1 .. Count' : k = n \/ k \in 1 .. Count - c
    BY <1>3, <1>4, <1>14
  <2> HIDE DEF grown, n
  <2>6. \A k \in 1 .. Len(q') : q'[k] = grown[k]
    BY <1>6, <1>13, <2>1, <2>4, <2>5 DEF n
  <2>7. q' = grown
    BY <1>6, <2>1, <2>2, <2>6, SeqEqual DEF n
  <2> QED
    BY <1>2, <1>3, <1>5, <1>9, <1>10, <1>11, <1>14, <2>7
       DEF Queue!Cycle, grown, rest, new, q
<1>15. CASE ~dec.valid
  <2> HIDE DEF rest
  <2>1. Len(q') = Len(rest) /\ \A k \in 1 .. Len(q') : q'[k] = rest[k]
    BY <1>3, <1>4, <1>6, <1>12, <1>13, <1>15
  <2>2. q' = rest
    BY <1>6, <1>12, <2>1, SeqEqual
  <2> QED
    BY <1>2, <1>9, <1>10, <1>11, <1>15, <2>2 DEF Queue!Cycle, rest, q
<1> QED
  BY <1>14, <1>15

(* rob.sv's ring of valid bits and pointers is a bounded first-in          *)
(* first-out queue: decode's instruction enters at the back, write-back    *)
(* completes one in place, the completed front commits, and a taken branch *)
(* that commits empties the queue (rob.sv, the always_comb block).         *)
THEOREM RefinementCorrect == Spec => ImplementsInstrQueue
<1>1. Init => Queue!Init
  <2> SUFFICES ASSUME Init
               PROVE  QueueView = << >> /\ kanata_id_counter = 0
    BY DEF Queue!Init
  <2>1. Count = 0
    BY DEF Init, Reset, ResetFrom, Count
  <2> DEFINE f(k) == LET e == rob_q[(head_ptr_q + k - 1) % ROB_SIZE]
                     IN  [id |-> e.kanata_id, completed |-> e.completed,
                          taken |-> e.completed /\ e.branch_taken]
  <2>2. QueueView = [k \in 1 .. 0 |-> f(k)]
    BY <2>1 DEF QueueView
  <2> HIDE DEF f
  <2>3. 1 .. 0 = {}
    OBVIOUS
  <2> QED
    BY <2>2, <2>3 DEF Init
<1>2. IInv /\ IInv' /\ [Next]_vars => [Queue!Next]_(Queue!vars)
  <2> SUFFICES ASSUME IInv, IInv', [Next]_vars
               PROVE  [Queue!Next]_(Queue!vars)
    OBVIOUS
  <2>1. ASSUME NEW dec \in DecodeInputs, NEW wb \in WbInputs, Step(dec, wb)
        PROVE  Queue!Next
    <3>1. TypeOK'
      BY DEF IInv
    <3>2. CASE commit_branch_taken_o
      BY <2>1, <3>2, FlushSquashes DEF Queue!Next
    <3>3. CASE ~commit_branch_taken_o
      BY <2>1, <3>1, <3>3, EdgeCycles DEF Queue!Next
    <3> QED
      BY <3>2, <3>3
  <2>2. CASE UNCHANGED vars
    BY <2>2 DEF vars, Queue!vars, QueueView, Count
  <2> QED
    BY <2>1, <2>2 DEF Next
<1> QED
  BY <1>1, <1>2, Invariance, PTL DEF Spec, Queue!Spec, ImplementsInstrQueue
=============================================================================
