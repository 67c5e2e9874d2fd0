-------------------------- MODULE StoreBufferProofs --------------------------
(***************************************************************************)
(* Theorems about the store buffer, for every STORE_BUFFER_SIZE and every  *)
(* set of addresses and data.  The last part proves that it implements its *)
(* abstract specification, StoreQueue.                                     *)
(***************************************************************************)
EXTENDS StoreBuffer, SequenceTheorems, WellFoundedInduction, TLAPS

(* The pointer increment, without the modulus. *)
LEMMA SuccLemma ==
  ASSUME NEW i \in Idx
  PROVE  /\ Succ(i) = IF i = STORE_BUFFER_SIZE - 1 THEN 0 ELSE i + 1
         /\ Succ(i) \in Idx
BY SBSizeAssumption DEF Succ, Idx

(* What each update of a single slot does. *)
LEMMA FreedSlot ==
  ASSUME NEW e \in Entry
  PROVE  LET f == [e EXCEPT !.valid = FALSE]
         IN  /\ f \in Entry /\ ~f.valid
             /\ f.committed = e.committed /\ f.discarded = e.discarded
BY DEF Entry

LEMMA CommittedSlot ==
  ASSUME NEW e \in Entry
  PROVE  LET f == [e EXCEPT !.committed = TRUE]
         IN  /\ f \in Entry /\ f.committed
             /\ f.valid = e.valid /\ f.discarded = e.discarded
BY DEF Entry

LEMMA DiscardedSlot ==
  ASSUME NEW e \in Entry
  PROVE  LET f == [e EXCEPT !.discarded = TRUE]
         IN  /\ f \in Entry /\ f.discarded
             /\ f.valid = e.valid /\ f.committed = e.committed
BY DEF Entry

(* The next value of the slots, field by field. *)
LEMMA NextSlots ==
  ASSUME TypeOK, NEW in \in Input
  PROVE  /\ store_buffer_d(in) \in [Idx -> Entry]
         /\ \A i \in Idx :
              /\ store_buffer_d(in)[i].valid <=>
                   /\ (Accepts(in) /\ i = tail_ptr_q) \/ store_buffer_q[i].valid
                   /\ ~(FreesHead(in) /\ i = head_ptr_q)
              /\ store_buffer_d(in)[i].committed <=>
                   \/ ~(Accepts(in) /\ i = tail_ptr_q) /\ store_buffer_q[i].committed
                   \/ in.commit /\ i = in.idx_commit
              /\ store_buffer_d(in)[i].discarded <=>
                   \/ ~(Accepts(in) /\ i = tail_ptr_q) /\ store_buffer_q[i].discarded
                   \/ i \in in.discard
<1> DEFINE A == Accept(store_buffer_q, in)
           F == Free(A, in)
           C == MarkCommitted(F, in)
<1>0. /\ store_buffer_q \in [Idx -> Entry]
      /\ tail_ptr_q \in Idx /\ head_ptr_q \in Idx /\ in.idx_commit \in Idx
      /\ in.discard \subseteq Idx
  BY DEF TypeOK, Input
<1>1. /\ A \in [Idx -> Entry]
      /\ \A i \in Idx :
           /\ A[i].valid <=> (Accepts(in) /\ i = tail_ptr_q) \/ store_buffer_q[i].valid
           /\ A[i].committed <=> ~(Accepts(in) /\ i = tail_ptr_q) /\ store_buffer_q[i].committed
           /\ A[i].discarded <=> ~(Accepts(in) /\ i = tail_ptr_q) /\ store_buffer_q[i].discarded
  <2> DEFINE new == [data |-> in.data, addr |-> in.addr, valid |-> TRUE,
                     committed |-> FALSE, discarded |-> FALSE]
  <2>1. new \in Entry /\ new.valid /\ ~new.committed /\ ~new.discarded
    BY DEF Input, Entry
  <2>2. CASE Accepts(in)
    <3>1. A = [store_buffer_q EXCEPT ![tail_ptr_q] = new]
      BY <2>2 DEF Accept
    <3> HIDE DEF A, new
    <3> QED
      BY <1>0, <2>1, <2>2, <3>1
  <2>3. CASE ~Accepts(in)
    BY <1>0, <2>3 DEF Accept
  <2> QED
    BY <2>2, <2>3
<1> HIDE DEF A
<1>2. /\ F \in [Idx -> Entry]
      /\ \A i \in Idx :
           /\ F[i].valid <=> A[i].valid /\ ~(FreesHead(in) /\ i = head_ptr_q)
           /\ F[i].committed <=> A[i].committed
           /\ F[i].discarded <=> A[i].discarded
  <2>0. A \in [Idx -> Entry]
    BY <1>1
  <2>1. CASE FreesHead(in)
    <3>1. F = [A EXCEPT ![head_ptr_q] = [A[head_ptr_q] EXCEPT !.valid = FALSE]]
      BY <2>1 DEF Free
    <3> HIDE DEF F
    <3> QED
      BY <1>0, <2>0, <2>1, <3>1, FreedSlot
  <2>2. CASE ~FreesHead(in)
    BY <2>0, <2>2 DEF Free
  <2> QED
    BY <2>1, <2>2
<1> HIDE DEF F
<1>3. /\ C \in [Idx -> Entry]
      /\ \A i \in Idx :
           /\ C[i].valid <=> F[i].valid
           /\ C[i].committed <=> F[i].committed \/ (in.commit /\ i = in.idx_commit)
           /\ C[i].discarded <=> F[i].discarded
  <2>0. F \in [Idx -> Entry]
    BY <1>2
  <2>1. CASE in.commit
    <3>1. C = [F EXCEPT ![in.idx_commit] =
                 [F[in.idx_commit] EXCEPT !.committed = TRUE]]
      BY <2>1 DEF MarkCommitted
    <3> HIDE DEF C
    <3> QED
      BY <1>0, <2>0, <2>1, <3>1, CommittedSlot
  <2>2. CASE ~in.commit
    BY <2>0, <2>2 DEF MarkCommitted
  <2> QED
    BY <2>1, <2>2
<1>4. store_buffer_d(in) = MarkDiscarded(C, in)
  BY DEF store_buffer_d, C, F, A
<1> HIDE DEF C
<1>5. /\ store_buffer_d(in) \in [Idx -> Entry]
      /\ \A i \in Idx :
           /\ store_buffer_d(in)[i].valid <=> C[i].valid
           /\ store_buffer_d(in)[i].committed <=> C[i].committed
           /\ store_buffer_d(in)[i].discarded <=> C[i].discarded \/ i \in in.discard
  <2>0. C \in [Idx -> Entry]
    BY <1>3
  <2> QED
    BY <1>0, <1>4, <2>0, DiscardedSlot DEF MarkDiscarded
<1> QED
  BY <1>1, <1>2, <1>3, <1>5

(* Everything the invariants need to know of one clock edge. *)
LEMMA EdgeFacts ==
  ASSUME NEW in \in Inputs, Step(in)
  PROVE  /\ in \in Input
         /\ store_buffer_q' = store_buffer_d(in)
         /\ head_ptr_q' = IF FreesHead(in) THEN Succ(head_ptr_q) ELSE head_ptr_q
         /\ tail_ptr_q' = IF Accepts(in) THEN Succ(tail_ptr_q) ELSE tail_ptr_q
BY DEF Inputs, Step, NoRetire, CommitOldest, FlushAll, Clock

(* Every register of the buffer keeps its type (store_buffer.sv, the       *)
(* always_ff block), and the slots the reorder buffer is told of are slots *)
(* of the buffer.                                                          *)
THEOREM TypeCorrect == Spec => []TypeOK
<1>1. Init => TypeOK
  BY SBSizeAssumption, AddrAssumption, SBDataAssumption
     DEF Init, Reset, ResetEntry, TypeOK, Entry, Idx
<1>2. TypeOK /\ [Next]_vars => TypeOK'
  <2> SUFFICES ASSUME TypeOK, [Next]_vars
               PROVE  TypeOK'
    OBVIOUS
  <2>1. ASSUME NEW in \in Inputs, Step(in)
        PROVE  TypeOK'
    <3>1. store_buffer_q' \in [Idx -> Entry]
      BY <2>1, EdgeFacts, NextSlots
    <3>2. head_ptr_q' \in Idx /\ tail_ptr_q' \in Idx
      BY <2>1, EdgeFacts, SuccLemma DEF TypeOK
    <3>3. pending' \in Seq(Idx)
      <4>1. Taken(in) \in Seq(Idx)
        BY DEF Taken, store_buffer_idx_o, TypeOK
      <4>2. CASE NoRetire(in)
        BY <4>1, <4>2 DEF NoRetire, TypeOK
      <4>3. CASE CommitOldest(in)
        BY <4>1, <4>3 DEF CommitOldest, TypeOK
      <4>4. CASE FlushAll(in)
        BY <4>4 DEF FlushAll
      <4> QED
        BY <2>1, <4>2, <4>3, <4>4 DEF Step
    <3>4. written' \in {<<>>} \cup {<<s>> : s \in [addr : Addr, data : Data]}
      <4>1. CacheTakes(in)
        BY <2>1 DEF Step, NoRetire, CommitOldest, FlushAll
      <4>2. [addr |-> addr_o, data |-> data_wr_o] \in [addr : Addr, data : Data]
        BY AddrAssumption, SBDataAssumption DEF addr_o, data_wr_o, TypeOK, Entry
      <4> QED
        BY <4>1, <4>2 DEF CacheTakes
    <3> QED
      BY <3>1, <3>2, <3>3, <3>4 DEF TypeOK
  <2>2. CASE UNCHANGED vars
    BY <2>2 DEF vars, TypeOK
  <2> QED
    BY <2>1, <2>2 DEF Next
<1> QED
  BY <1>1, <1>2, PTL DEF Spec

----------------------------------------------------------------------------

(* A freed head is a valid slot, and a slot is taken only if one is free.  *)
LEMMA WindowStep ==
  ASSUME TypeOK, TypeOK', WindowInv, NEW in \in Inputs, Step(in)
  PROVE  WindowInv'
<1> DEFINE N == STORE_BUFFER_SIZE
           v(i) == store_buffer_q[i].valid
           acc == Accepts(in)
           fr  == FreesHead(in)
<1>1. /\ head_ptr_q \in Idx /\ tail_ptr_q \in Idx
      /\ head_ptr_q' \in Idx /\ tail_ptr_q' \in Idx
  BY DEF TypeOK
<1>2. /\ fr => v(head_ptr_q)
      /\ acc => (tail_ptr_q = head_ptr_q => ~v(head_ptr_q))
  BY DEF FreesHead, rsp_valid_o, DropsHead, Accepts, req_ready_o
<1>3. /\ head_ptr_q' = IF fr THEN (IF head_ptr_q = N - 1 THEN 0 ELSE head_ptr_q + 1)
                             ELSE head_ptr_q
      /\ tail_ptr_q' = IF acc THEN (IF tail_ptr_q = N - 1 THEN 0 ELSE tail_ptr_q + 1)
                              ELSE tail_ptr_q
  BY <1>1, EdgeFacts, SuccLemma
<1>4. \A i \in Idx : v(i)' <=> /\ (acc /\ i = tail_ptr_q) \/ v(i)
                               /\ ~(fr /\ i = head_ptr_q)
  BY EdgeFacts, NextSlots
<1>5. \A i \in Idx : v(i) <=> Dist(i) < Count
  BY DEF WindowInv
<1> SUFFICES ASSUME NEW i \in Idx
             PROVE  v(i)' <=> Dist(i)' < Count'
  BY DEF WindowInv
<1>6. /\ v(i) <=> Dist(i) < Count
      /\ v(head_ptr_q) <=> Dist(head_ptr_q) < Count
      /\ store_buffer_q[head_ptr_q'].valid <=> Dist(head_ptr_q') < Count
      /\ store_buffer_q'[head_ptr_q'].valid <=>
           /\ (acc /\ head_ptr_q' = tail_ptr_q) \/ store_buffer_q[head_ptr_q'].valid
           /\ ~(fr /\ head_ptr_q' = head_ptr_q)
      /\ v(i)' <=> ((acc /\ i = tail_ptr_q) \/ v(i)) /\ ~(fr /\ i = head_ptr_q)
  BY <1>1, <1>4, <1>5
<1> HIDE DEF acc, fr
<1>7. CASE acc /\ fr
  BY <1>1, <1>2, <1>3, <1>6, <1>7, SBSizeAssumption DEF Dist, Count, Idx
<1>8. CASE acc /\ ~fr
  BY <1>1, <1>2, <1>3, <1>6, <1>8, SBSizeAssumption DEF Dist, Count, Idx
<1>9. CASE ~acc /\ fr
  BY <1>1, <1>2, <1>3, <1>6, <1>9, SBSizeAssumption DEF Dist, Count, Idx
<1>10. CASE ~acc /\ ~fr
  BY <1>1, <1>2, <1>3, <1>6, <1>10, SBSizeAssumption DEF Dist, Count, Idx
<1> QED
  BY <1>7, <1>8, <1>9, <1>10

(* A new store never overwrites one that waits, and freeing the head never *)
(* leaves a hole, for every size (store_buffer.sv, the pointer and         *)
(* valid-bit updates).                                                     *)
THEOREM WindowCorrect == Spec => []WindowInv
<1>1. Init => WindowInv
  <2> SUFFICES ASSUME Init, NEW i \in Idx
               PROVE  store_buffer_q[i].valid <=> Dist(i) < Count
    BY DEF WindowInv
  <2>1. /\ ~store_buffer_q[i].valid
        /\ head_ptr_q = 0 /\ tail_ptr_q = 0
        /\ ~store_buffer_q[0].valid
    BY SBSizeAssumption DEF Init, Reset, ResetEntry, Idx
  <2> QED
    BY <2>1 DEF Dist, Count, Idx
<1>2. TypeOK /\ TypeOK' /\ WindowInv /\ [Next]_vars => WindowInv'
  <2> SUFFICES ASSUME TypeOK, TypeOK', WindowInv, [Next]_vars
               PROVE  WindowInv'
    OBVIOUS
  <2>1. ASSUME NEW in \in Inputs, Step(in)
        PROVE  WindowInv'
    BY <2>1, WindowStep
  <2>2. CASE UNCHANGED vars
    BY <2>2 DEF vars, WindowInv, Dist, Count
  <2> QED
    BY <2>1, <2>2 DEF Next
<1> QED
  BY <1>1, <1>2, TypeCorrect, PTL DEF Spec

----------------------------------------------------------------------------

(* The slot the search visits in its k-th step, without the modulus. *)
LEMMA BackLemma ==
  ASSUME tail_ptr_q \in Idx, NEW k \in 1 .. STORE_BUFFER_SIZE - 1
  PROVE  /\ Back(k) = IF k <= tail_ptr_q THEN tail_ptr_q - k
                                         ELSE tail_ptr_q - k + STORE_BUFFER_SIZE
         /\ Back(k) \in Idx
BY SBSizeAssumption DEF Back, Idx

(* A set of naturals that is not empty has a least element. *)
LEMMA LeastElement ==
  ASSUME NEW S, S \subseteq Nat, S # {}
  PROVE  \E k \in S : \A j \in S : k <= j
<1>1. PICK k \in S : \A j \in S : ~(<<j, k>> \in OpToRel(<, Nat))
  BY WFMin, NatLessThanWellFounded
<1>2. \A j \in S : ~(j < k)
  BY <1>1 DEF OpToRel
<1> QED
  BY <1>2

(* A load is given the youngest older store while a slot is free           *)
(* (store_buffer.sv, the bypass search).  Without req_ready_o the theorem  *)
(* is false: the search never looks at slot tail_ptr_q, which holds the    *)
(* oldest store when the buffer is full.                                   *)
THEOREM BypassCorrect == Spec => []BypassYoungest
<1>1. TypeOK /\ WindowInv => BypassYoungest
  <2> SUFFICES ASSUME TypeOK, WindowInv, req_ready_o, NEW a \in Addr
               PROVE  /\ bypass_o(a) <=> \E i \in Idx : Matches(i, a)
                      /\ bypass_o(a) =>
                           \E i \in Idx :
                             /\ Matches(i, a)
                             /\ data_rd_o(a) = store_buffer_q[i].data
                             /\ \A j \in Idx : Matches(j, a) => Dist(j) <= Dist(i)
    BY DEF BypassYoungest
  <2> DEFINE K        == 1 .. STORE_BUFFER_SIZE - 1
             Hits     == {k \in K : Matches(Back(k), a)}
             First(k) == /\ Matches(Back(k), a)
                         /\ \A j \in 1 .. k - 1 : ~Matches(Back(j), a)
  <2>1. head_ptr_q \in Idx /\ tail_ptr_q \in Idx
    BY DEF TypeOK
  (* A matching slot is in the window, and the window stops at the tail.    *)
  <2>2. ASSUME NEW i \in Idx, Matches(i, a)
        PROVE  i # tail_ptr_q /\ Dist(i) < Count /\ Count <= Dist(tail_ptr_q)
    <3>1. Dist(i) < Count
      BY <2>2 DEF WindowInv, Matches
    <3>2. head_ptr_q # tail_ptr_q
      BY <2>1, <3>1, SBSizeAssumption DEF req_ready_o, Count, Dist, Idx
    <3> QED
      BY <2>1, <3>1, <3>2, SBSizeAssumption DEF Count, Dist, Idx
  <2>3. ASSUME NEW i \in Idx, Matches(i, a)
        PROVE  \E k \in K : Back(k) = i
    <3> DEFINE k == IF i < tail_ptr_q THEN tail_ptr_q - i
                                      ELSE tail_ptr_q - i + STORE_BUFFER_SIZE
    <3>1. k \in K
      BY <2>1, <2>2, <2>3, SBSizeAssumption DEF Idx
    <3>2. Back(k) = i
      BY <2>1, <3>1, BackLemma, SBSizeAssumption DEF Idx
    <3> QED
      BY <3>1, <3>2
  <2>4. bypass_o(a) <=> \E i \in Idx : Matches(i, a)
    BY <2>1, <2>3, BackLemma DEF bypass_o
  <2>5. ASSUME bypass_o(a)
        PROVE  \E i \in Idx :
                 /\ Matches(i, a)
                 /\ data_rd_o(a) = store_buffer_q[i].data
                 /\ \A j \in Idx : Matches(j, a) => Dist(j) <= Dist(i)
    <3>1. \E k \in K : First(k)
      <4>1. Hits # {} /\ Hits \subseteq Nat
        BY <2>5 DEF bypass_o
      <4>2. PICK k \in Hits : \A j \in Hits : k <= j
        <5> HIDE DEF Hits
        <5> QED
          BY <4>1, LeastElement
      <4>3. \A j \in 1 .. k - 1 : j \in K /\ ~(k <= j)
        BY <4>2, SBSizeAssumption
      <4> QED
        BY <4>2, <4>3
    <3> DEFINE c == CHOOSE k \in K : First(k)
    <3>2. c \in K /\ First(c)
      BY <3>1, Zenon
    <3>3. data_rd_o(a) = store_buffer_q[Back(c)].data
      BY <2>5 DEF data_rd_o, bypass_slot
    <3> HIDE DEF c
    <3>4. Back(c) \in Idx /\ Matches(Back(c), a)
      BY <2>1, <3>2, BackLemma
    <3>5. ASSUME NEW j \in Idx, Matches(j, a)
          PROVE  Dist(j) <= Dist(Back(c))
      <4>1. PICK k \in K : Back(k) = j
        BY <2>3, <3>5
      <4>2. k >= c
        BY <3>2, <3>5, <4>1, SBSizeAssumption
      <4>3. /\ j = IF k <= tail_ptr_q THEN tail_ptr_q - k
                                      ELSE tail_ptr_q - k + STORE_BUFFER_SIZE
            /\ Back(c) = IF c <= tail_ptr_q THEN tail_ptr_q - c
                                      ELSE tail_ptr_q - c + STORE_BUFFER_SIZE
        BY <2>1, <3>2, <4>1, BackLemma
      <4>4. /\ Dist(j) < Dist(tail_ptr_q)
            /\ Dist(Back(c)) < Dist(tail_ptr_q)
        <5>1. /\ Dist(j) < Count /\ Count <= Dist(tail_ptr_q)
              /\ Dist(Back(c)) < Count
          BY <2>2, <3>4, <3>5
        <5> QED
          BY <2>1, <3>4, <5>1, SBSizeAssumption DEF Dist, Count, Idx
      <4> HIDE DEF First
      <4> QED
        BY <2>1, <3>2, <4>2, <4>3, <4>4, SBSizeAssumption DEF Dist, Idx
    <3> QED
      BY <3>3, <3>4, <3>5
  <2> QED
    BY <2>4, <2>5
<1> QED
  BY <1>1, TypeCorrect, WindowCorrect, PTL
----------------------------------------------------------------------------

(* The ages of the slots over one clock edge: a taken slot is younger than *)
(* every store in the buffer, and a freed head is a decided one.           *)
LEMMA AgesStep ==
  ASSUME TypeOK, WindowInv, NEW in \in Inputs, Step(in)
  PROVE  /\ Accepts(in) =>
              /\ ~store_buffer_q[tail_ptr_q].valid
              /\ \A i \in Idx : store_buffer_q[i].valid => Dist(i) < Dist(tail_ptr_q)
         /\ FreesHead(in) => store_buffer_q[head_ptr_q].valid /\ ~Speculative(head_ptr_q)
         /\ \A i \in Idx :
              ~(FreesHead(in) /\ i = head_ptr_q) =>
                Dist(i)' = IF FreesHead(in) THEN Dist(i) - 1 ELSE Dist(i)
<1>1. head_ptr_q \in Idx /\ tail_ptr_q \in Idx
  BY DEF TypeOK
<1>2. FreesHead(in) => store_buffer_q[head_ptr_q].valid /\ ~Speculative(head_ptr_q)
  BY DEF FreesHead, rsp_valid_o, DropsHead, Speculative
<1>3. ASSUME Accepts(in)
      PROVE  /\ ~store_buffer_q[tail_ptr_q].valid
             /\ \A i \in Idx : store_buffer_q[i].valid => Dist(i) < Dist(tail_ptr_q)
  <2>1. tail_ptr_q = head_ptr_q => ~store_buffer_q[head_ptr_q].valid
    BY <1>3 DEF Accepts, req_ready_o
  <2>2. \A i \in Idx : store_buffer_q[i].valid <=> Dist(i) < Count
    BY DEF WindowInv
  <2>3. Count <= Dist(tail_ptr_q)
    BY <1>1, <2>1, SBSizeAssumption DEF Count, Dist, Idx
  <2>4. \A i \in Idx : Dist(i) \in Int
    BY <1>1, SBSizeAssumption DEF Dist, Idx
  <2>5. Count \in Int
    BY <1>1, <2>4, SBSizeAssumption DEF Count
  <2> QED
    BY <1>1, <2>2, <2>3, <2>4, <2>5
<1>4. head_ptr_q' = IF FreesHead(in)
                      THEN IF head_ptr_q = STORE_BUFFER_SIZE - 1 THEN 0 ELSE head_ptr_q + 1
                      ELSE head_ptr_q
  BY <1>1, EdgeFacts, SuccLemma
<1>5. ASSUME NEW i \in Idx, ~(FreesHead(in) /\ i = head_ptr_q)
      PROVE  Dist(i)' = IF FreesHead(in) THEN Dist(i) - 1 ELSE Dist(i)
  BY <1>1, <1>4, <1>5, SBSizeAssumption DEF Dist, Idx
<1> QED
  BY <1>2, <1>3, <1>5

LEMMA LastOfConcat ==
  ASSUME NEW s \in Seq(Idx), NEW t \in Seq(Idx), Len(t) = 1
  PROVE  (s \o t)[Len(s) + 1] = t[1]
<1>1. Len(s) \in Nat
  OBVIOUS
<1>2. Len(s) + 1 \in 1 .. Len(s) + Len(t) /\ ~(Len(s) + 1 <= Len(s)) /\ Len(s) + 1 - Len(s) = 1
  BY <1>1
<1> QED
  BY <1>1, <1>2

(* The stores in flight after an edge without a flush: the oldest leaves   *)
(* if it commits, and a taken slot is the last.                            *)
LEMMA PendingShift ==
  ASSUME TypeOK, NEW in \in Inputs, NoRetire(in) \/ CommitOldest(in)
  PROVE  \E s \in {0, 1} :
           /\ in.discard = {} /\ (in.commit <=> s = 1)
           /\ s = 1 => 1 \in 1 .. Len(pending) /\ in.idx_commit = pending[1]
           /\ Len(pending') = Len(pending) - s + (IF Accepts(in) THEN 1 ELSE 0)
           /\ \A k \in 1 .. Len(pending) - s : pending'[k] = pending[k + s]
           /\ Accepts(in) => pending'[Len(pending')] = tail_ptr_q
<1>1. pending \in Seq(Idx) /\ tail_ptr_q \in Idx
  BY DEF TypeOK
<1>2. /\ Taken(in) \in Seq(Idx) /\ Len(Taken(in)) = IF Accepts(in) THEN 1 ELSE 0
      /\ Accepts(in) => Taken(in)[1] = tail_ptr_q
  BY <1>1 DEF Taken, store_buffer_idx_o
<1>3. CASE NoRetire(in)
  <2>1. in.discard = {} /\ ~in.commit /\ pending' = pending \o Taken(in)
    BY <1>3 DEF NoRetire
  <2>2. Len(pending') = Len(pending) + (IF Accepts(in) THEN 1 ELSE 0)
    BY <1>1, <1>2, <2>1
  <2>3. \A k \in 1 .. Len(pending) : pending'[k] = pending[k]
    BY <1>1, <1>2, <2>1
  <2>4. Accepts(in) => pending'[Len(pending')] = tail_ptr_q
    BY <1>1, <1>2, <2>1, <2>2, LastOfConcat
  <2> QED
    BY <1>1, <2>1, <2>2, <2>3, <2>4
<1>4. CASE CommitOldest(in)
  <2> DEFINE t == Tail(pending)
  <2>1. /\ in.discard = {} /\ in.commit /\ pending' = t \o Taken(in)
        /\ pending # << >> /\ in.idx_commit = Head(pending)
    BY <1>4 DEF CommitOldest
  <2>2. /\ t \in Seq(Idx) /\ Len(t) = Len(pending) - 1
        /\ \A k \in 1 .. Len(t) : t[k] = pending[k + 1]
        /\ Len(pending) \in Nat /\ 1 \in 1 .. Len(pending) /\ in.idx_commit = pending[1]
    BY <1>1, <2>1
  <2> HIDE DEF t
  <2>3. Len(pending') = Len(t) + (IF Accepts(in) THEN 1 ELSE 0)
    BY <1>2, <2>1, <2>2
  <2>4. \A k \in 1 .. Len(t) : pending'[k] = t[k]
    BY <1>2, <2>1, <2>2
  <2>5. Accepts(in) => pending'[Len(pending')] = tail_ptr_q
    BY <1>2, <2>1, <2>2, <2>3, LastOfConcat
  <2> QED
    BY <2>1, <2>2, <2>3, <2>4, <2>5
<1> QED
  BY <1>3, <1>4

LEMMA PendingStep ==
  ASSUME TypeOK, TypeOK', WindowInv, PendingInv, NEW in \in Inputs, Step(in)
  PROVE  PendingInv'
<1>1. /\ head_ptr_q \in Idx /\ tail_ptr_q \in Idx
      /\ pending \in Seq(Idx) /\ Len(pending) \in Nat
      /\ \A k \in 1 .. Len(pending) : pending[k] \in Idx
      /\ \A i \in Idx : Dist(i) \in Int
  BY SBSizeAssumption DEF TypeOK, Dist, Idx
<1>2. \A i \in Idx :
        /\ store_buffer_q'[i].valid <=>
             /\ (Accepts(in) /\ i = tail_ptr_q) \/ store_buffer_q[i].valid
             /\ ~(FreesHead(in) /\ i = head_ptr_q)
        /\ store_buffer_q'[i].committed <=>
             \/ ~(Accepts(in) /\ i = tail_ptr_q) /\ store_buffer_q[i].committed
             \/ in.commit /\ i = in.idx_commit
        /\ store_buffer_q'[i].discarded <=>
             \/ ~(Accepts(in) /\ i = tail_ptr_q) /\ store_buffer_q[i].discarded
             \/ i \in in.discard
  BY EdgeFacts, NextSlots
<1>3. CASE FlushAll(in)
  <2>1. /\ pending' = << >> /\ ~Accepts(in)
        /\ \A k \in 1 .. Len(pending) : pending[k] \in in.discard
    BY <1>3 DEF FlushAll, Accepts
  <2>2. \A i \in Idx : ~Speculative(i)'
    BY <1>2, <2>1 DEF PendingInv, Speculative
  <2> QED
    BY <2>1, <2>2 DEF PendingInv
<1>4. CASE NoRetire(in) \/ CommitOldest(in)
  <2> DEFINE acc == Accepts(in)
             fr  == FreesHead(in)
             n   == Len(pending)
             n1  == Len(pending')
  <2>1. PICK s \in {0, 1} :
           /\ in.discard = {} /\ (in.commit <=> s = 1)
           /\ s = 1 => 1 \in 1 .. n /\ in.idx_commit = pending[1]
           /\ n1 = n - s + (IF acc THEN 1 ELSE 0)
           /\ \A k \in 1 .. n - s : pending'[k] = pending[k + s]
           /\ acc => pending'[n1] = tail_ptr_q
    BY <1>4, PendingShift
  <2>2. /\ acc => /\ ~store_buffer_q[tail_ptr_q].valid
                  /\ \A i \in Idx : store_buffer_q[i].valid => Dist(i) < Dist(tail_ptr_q)
        /\ fr => store_buffer_q[head_ptr_q].valid /\ ~Speculative(head_ptr_q)
        /\ \A i \in Idx : ~(fr /\ i = head_ptr_q) =>
             Dist(i)' = IF fr THEN Dist(i) - 1 ELSE Dist(i)
    BY AgesStep
  <2>3. /\ \A i \in Idx : Speculative(i) <=> \E k \in 1 .. n : pending[k] = i
        /\ \A j, k \in 1 .. n : j < k => Dist(pending[j]) < Dist(pending[k])
        /\ \A i, j \in Idx : (store_buffer_q[i].valid /\ ~Speculative(i) /\ Speculative(j))
                               => Dist(i) < Dist(j)
    BY DEF PendingInv
  <2> HIDE DEF acc, fr, n, n1
  <2>4. s = 1 => Speculative(pending[1]) /\ pending[1] \in Idx
    BY <1>1, <2>1, <2>3 DEF n
  <2>5. acc => ~Speculative(tail_ptr_q) /\ ~(fr /\ tail_ptr_q = head_ptr_q)
    BY <2>2 DEF Speculative
  <2>6. ASSUME NEW i \in Idx
        PROVE  Speculative(i)' <=> \/ acc /\ i = tail_ptr_q
                                   \/ Speculative(i) /\ ~(s = 1 /\ i = pending[1])
    <3>1. CASE acc /\ i = tail_ptr_q
      <4>1. ~(in.commit /\ i = in.idx_commit)
        BY <2>1, <2>4, <2>5, <3>1
      <4> QED
        BY <1>2, <2>1, <2>5, <3>1, <4>1 DEF Speculative, acc, fr
    <3>2. CASE ~(acc /\ i = tail_ptr_q)
      BY <1>2, <2>1, <2>2, <3>2 DEF Speculative, acc, fr
    <3> QED
      BY <3>1, <3>2
  (* The ages of what is still there keep their order, and the taken slot   *)
  (* is the youngest.                                                       *)
  <2>7. ASSUME NEW i \in Idx, store_buffer_q'[i].valid
        PROVE  /\ ~(fr /\ i = head_ptr_q)
               /\ Dist(i)' = IF fr THEN Dist(i) - 1 ELSE Dist(i)
               /\ ~(acc /\ i = tail_ptr_q) => store_buffer_q[i].valid
    BY <1>2, <2>2, <2>7 DEF acc, fr
  <2>8. \A i, j \in Idx :
          (store_buffer_q'[i].valid /\ store_buffer_q'[j].valid /\ Dist(i) < Dist(j))
             => Dist(i)' < Dist(j)'
    BY <1>1, <2>7
  <2>9. \A i \in Idx : Speculative(i)' => store_buffer_q'[i].valid
    BY DEF Speculative
  <2>10. \A k \in 1 .. n - s : k + s \in 1 .. n /\ pending'[k] = pending[k + s]
    BY <1>1, <2>1 DEF n
  <2>11. \A k \in 1 .. n1 : k \in 1 .. n - s \/ (acc /\ k = n1 /\ pending'[k] = tail_ptr_q)
    BY <1>1, <2>1 DEF n
  (* The first conjunct. *)
  <2>12. \A i \in Idx : Speculative(i)' <=> \E k \in 1 .. n1 : pending'[k] = i
    <3> SUFFICES ASSUME NEW i \in Idx
                 PROVE  Speculative(i)' <=> \E k \in 1 .. n1 : pending'[k] = i
      OBVIOUS
    <3>1. ASSUME NEW k \in 1 .. n1, pending'[k] = i
          PROVE  Speculative(i)'
      <4>1. CASE acc /\ k = n1 /\ pending'[k] = tail_ptr_q
        BY <2>6, <3>1, <4>1
      <4>2. CASE k \in 1 .. n - s
        <5>1. Speculative(i)
          BY <2>3, <2>10, <3>1, <4>2
        <5>2. s = 1 => Dist(pending[1]) < Dist(pending[k + s])
          BY <1>1, <2>1, <2>3, <2>10, <4>2 DEF n
        <5>3. ~(s = 1 /\ i = pending[1])
          BY <1>1, <2>4, <2>10, <3>1, <4>2, <5>2
        <5> QED
          BY <2>6, <5>1, <5>3
      <4> QED
        BY <2>11, <4>1, <4>2
    <3>2. ASSUME Speculative(i)'
          PROVE  \E k \in 1 .. n1 : pending'[k] = i
      <4>1. CASE acc /\ i = tail_ptr_q
        <5>1. n1 \in 1 .. n1
          BY <1>1, <2>1, <4>1 DEF n
        <5> QED
          BY <2>1, <4>1, <5>1
      <4>2. CASE Speculative(i) /\ ~(s = 1 /\ i = pending[1])
        <5>1. PICK k \in 1 .. n : pending[k] = i
          BY <2>3, <4>2
        <5>2. k - s \in 1 .. n - s /\ k - s \in 1 .. n1 /\ (k - s) + s = k
          BY <1>1, <2>1, <4>2, <5>1 DEF n
        <5>3. pending'[k - s] = i
          BY <2>10, <5>1, <5>2
        <5> QED
          BY <5>2, <5>3
      <4> QED
        BY <2>6, <3>2, <4>1, <4>2
    <3> QED
      BY <3>1, <3>2
  (* The second. *)
  <2>13. ASSUME NEW j \in 1 .. n1, NEW k \in 1 .. n1, j < k
         PROVE  (Dist(pending[j]) < Dist(pending[k]))'
    <3> DEFINE D1(i) == IF head_ptr_q' <= i THEN i - head_ptr_q'
                                            ELSE i - head_ptr_q' + STORE_BUFFER_SIZE
    <3>a. /\ \A i \in Idx : Dist(i)' = D1(i)
          /\ Dist(pending[j])' = D1(pending'[j])
          /\ Dist(pending[k])' = D1(pending'[k])
      BY DEF Dist
    <3> HIDE DEF D1
    <3>0. \A m \in 1 .. n1 : /\ pending'[m] \in Idx
                              /\ store_buffer_q'[pending'[m]].valid
      <4>1. \A m \in 1 .. n1 : pending'[m] \in Idx
        BY <1>1, <2>10, <2>11 DEF n
      <4> QED
        BY <2>9, <2>12, <4>1
    <3>1. j \in 1 .. n - s
      BY <1>1, <2>1, <2>11, <2>13 DEF n
    <3>2. Dist(pending'[j]) < Dist(pending'[k])
      <4>1. CASE k \in 1 .. n - s
        <5>1. j + s < k + s
          BY <2>1, <2>13
        <5> QED
          BY <2>3, <2>10, <3>1, <4>1, <5>1
      <4>2. CASE acc /\ pending'[k] = tail_ptr_q
        <5>1. store_buffer_q[pending[j + s]].valid
          BY <1>1, <2>3, <2>10, <3>1 DEF Speculative, n
        <5> QED
          BY <1>1, <2>2, <2>10, <3>1, <4>2, <5>1 DEF n
      <4> QED
        BY <2>11, <4>1, <4>2
    <3>3. \A p, q \in Idx :
            (store_buffer_q'[p].valid /\ store_buffer_q'[q].valid /\ Dist(p) < Dist(q))
              => D1(p) < D1(q)
      BY <2>8, <3>a
    <3>4. D1(pending'[j]) < D1(pending'[k])
      BY <2>13, <3>0, <3>2, <3>3
    <3> QED
      BY <3>a, <3>4
  (* The third. *)
  <2>14. ASSUME NEW i \in Idx, NEW j \in Idx,
                store_buffer_q'[i].valid, ~Speculative(i)', Speculative(j)'
         PROVE  Dist(i)' < Dist(j)'
    <3>1. ~(acc /\ i = tail_ptr_q) /\ store_buffer_q[i].valid
      BY <2>6, <2>7, <2>14
    <3>2. Dist(i) < Dist(j)
      <4>1. CASE acc /\ j = tail_ptr_q
        BY <2>2, <3>1, <4>1
      <4>2. CASE Speculative(j) /\ ~Speculative(i)
        BY <2>3, <3>1, <4>2
      <4>3. CASE Speculative(j) /\ s = 1 /\ i = pending[1] /\ j # pending[1]
        <5>1. PICK k \in 1 .. n : pending[k] = j
          BY <2>3, <4>3
        <5>2. 1 < k /\ 1 \in 1 .. n
          BY <1>1, <2>1, <4>3, <5>1 DEF n
        <5> QED
          BY <2>3, <4>3, <5>1, <5>2
      <4> QED
        BY <2>6, <2>14, <3>1, <4>1, <4>2, <4>3
    <3> QED
      BY <2>8, <2>9, <2>14, <3>2
  <2>15. /\ \A i \in Idx : Speculative(i)' <=> \E k \in 1 .. Len(pending') : pending'[k] = i
         /\ \A j, k \in 1 .. Len(pending') : j < k => (Dist(pending[j]) < Dist(pending[k]))'
         /\ \A i, j \in Idx : (store_buffer_q'[i].valid /\ ~Speculative(i)' /\ Speculative(j)')
                               => Dist(i)' < Dist(j)'
    BY <2>12, <2>13, <2>14 DEF n1
  <2> QED
    BY <2>15 DEF PendingInv
<1> QED
  BY <1>3, <1>4 DEF Step

(* The slot numbers that the reorder buffer holds for its stores in flight *)
(* name exactly the undecided slots, oldest first and behind every decided *)
(* one (store_buffer.sv, the commit and discard marks): no slot is taken   *)
(* again under a store that has still to commit.                           *)
THEOREM PendingCorrect == Spec => []PendingInv
<1>1. Init => PendingInv
  BY DEF Init, Reset, ResetEntry, PendingInv, Speculative
<1>2. TypeOK /\ TypeOK' /\ WindowInv /\ PendingInv /\ [Next]_vars => PendingInv'
  <2> SUFFICES ASSUME TypeOK, TypeOK', WindowInv, PendingInv, [Next]_vars
               PROVE  PendingInv'
    OBVIOUS
  <2>1. ASSUME NEW in \in Inputs, Step(in)
        PROVE  PendingInv'
    BY <2>1, PendingStep
  <2>2. CASE UNCHANGED vars
    BY <2>2 DEF vars, PendingInv, Speculative, Dist
  <2> QED
    BY <2>1, <2>2 DEF Next
<1> QED
  BY <1>1, <1>2, TypeCorrect, WindowCorrect, PTL DEF Spec

----------------------------------------------------------------------------
(* The refinement. *)

(* Lists of slots in ring order, counted from slot h. *)
From(h, i) == IF h <= i THEN i - h ELSE i - h + STORE_BUFFER_SIZE

Increasing(h, w) ==
  \A j, k \in 1 .. Len(w) : j < k => From(h, w[j]) < From(h, w[k])

Lists(h, S, w) ==
  /\ w \in Seq(Idx) /\ Increasing(h, w)
  /\ \A i \in Idx : i \in S <=> \E k \in 1 .. Len(w) : w[k] = i

LEMMA FromFacts ==
  ASSUME NEW h \in Idx
  PROVE  /\ \A i \in Idx : From(h, i) \in 0 .. STORE_BUFFER_SIZE - 1
         /\ \A i, j \in Idx : From(h, i) = From(h, j) => i = j
BY SBSizeAssumption DEF From, Idx

LEMMA ListTypes ==
  ASSUME NEW h \in Idx, NEW w \in Seq(Idx)
  PROVE  /\ Len(w) \in Nat
         /\ \A k \in 1 .. Len(w) : w[k] \in Idx /\ From(h, w[k]) \in Nat
<1>1. \A k \in 1 .. Len(w) : w[k] \in Idx
  BY ElementOfSeq
<1>2. \A i \in Idx : From(h, i) \in Nat
  BY FromFacts, SBSizeAssumption
<1> QED
  BY <1>1, <1>2

(* Such a list is no longer than the part of the ring that it is from. *)
LEMMA ListFits ==
  ASSUME NEW h \in Idx, NEW w \in Seq(Idx), Increasing(h, w), NEW m \in Nat,
         \A k \in 1 .. Len(w) : From(h, w[k]) < m
  PROVE  Len(w) <= m
<1> DEFINE Bad == {k \in 1 .. Len(w) : From(h, w[k]) < k - 1}
<1>1. Len(w) \in Nat /\ \A k \in 1 .. Len(w) : w[k] \in Idx /\ From(h, w[k]) \in Nat
  BY ListTypes
<1>2. Bad = {}
  <2> SUFFICES ASSUME Bad # {}
               PROVE  FALSE
    OBVIOUS
  <2>1. Bad \subseteq Nat
    BY <1>1
  <2>2. PICK k \in Bad : \A j \in Bad : k <= j
    <3> HIDE DEF Bad
    <3> QED
      BY <2>1, LeastElement
  <2>3. k \in 1 .. Len(w) /\ From(h, w[k]) < k - 1
    BY <2>2
  <2>4. k # 1
    BY <1>1, <2>3
  <2>5. k - 1 \in 1 .. Len(w) /\ k - 1 < k
    BY <1>1, <2>3, <2>4
  <2>6. From(h, w[k - 1]) < From(h, w[k])
    BY <2>3, <2>5 DEF Increasing
  <2>7. ~(From(h, w[k - 1]) < (k - 1) - 1)
    BY <1>1, <2>2, <2>5
  <2> QED
    BY <1>1, <2>3, <2>5, <2>6, <2>7
<1>3. CASE Len(w) # 0
  BY <1>1, <1>2, <1>3
<1> QED
  BY <1>1, <1>3

(* Two lists of the same slots have no first difference ... *)
LEMMA NoFirstDifference ==
  ASSUME NEW h \in Idx, NEW S, NEW v, NEW w, Lists(h, S, v), Lists(h, S, w),
         NEW k \in 1 .. Len(v), k \in 1 .. Len(w),
         \A j \in 1 .. k - 1 : v[j] = w[j]
  PROVE  ~(From(h, v[k]) < From(h, w[k]))
<1>1. /\ v \in Seq(Idx) /\ w \in Seq(Idx) /\ Len(v) \in Nat /\ Len(w) \in Nat
      /\ Increasing(h, v) /\ Increasing(h, w)
      /\ \A j \in 1 .. Len(v) : v[j] \in Idx /\ From(h, v[j]) \in Nat
      /\ \A j \in 1 .. Len(w) : w[j] \in Idx /\ From(h, w[j]) \in Nat
  BY ListTypes DEF Lists
<1> SUFFICES ASSUME From(h, v[k]) < From(h, w[k])
             PROVE  FALSE
  OBVIOUS
<1>2. PICK j \in 1 .. Len(w) : w[j] = v[k]
  BY <1>1 DEF Lists
<1>3. CASE j < k
  <2>1. j \in 1 .. k - 1 /\ j \in 1 .. Len(v)
    BY <1>1, <1>3
  <2>2. From(h, v[j]) < From(h, v[k])
    BY <1>1, <1>3, <2>1 DEF Increasing
  <2> QED
    BY <1>1, <1>2, <2>1, <2>2
<1>4. CASE k < j
  <2>1. From(h, w[k]) < From(h, w[j])
    BY <1>1, <1>4 DEF Increasing
  <2> QED
    BY <1>1, <1>2, <2>1
<1>5. CASE k = j
  BY <1>1, <1>2, <1>5
<1> QED
  BY <1>1, <1>3, <1>4, <1>5

(* ... and neither goes on where the other ends. *)
LEMMA NotLonger ==
  ASSUME NEW h \in Idx, NEW S, NEW v, NEW w, Lists(h, S, v), Lists(h, S, w),
         \A k \in 1 .. Len(v) : k \in 1 .. Len(w) => v[k] = w[k]
  PROVE  Len(w) <= Len(v)
<1>1. /\ v \in Seq(Idx) /\ w \in Seq(Idx) /\ Len(v) \in Nat /\ Len(w) \in Nat
      /\ Increasing(h, w)
      /\ \A j \in 1 .. Len(w) : w[j] \in Idx /\ From(h, w[j]) \in Nat
  BY ListTypes DEF Lists
<1> SUFFICES ASSUME Len(v) < Len(w)
             PROVE  FALSE
  BY <1>1
<1> DEFINE n == Len(v) + 1
<1>2. n \in 1 .. Len(w)
  BY <1>1
<1>3. PICK j \in 1 .. Len(v) : v[j] = w[n]
  BY <1>1, <1>2 DEF Lists
<1>4. j \in 1 .. Len(w) /\ j < n /\ w[j] = w[n]
  BY <1>1, <1>3
<1> HIDE DEF n
<1>5. From(h, w[j]) < From(h, w[n])
  BY <1>1, <1>2, <1>4 DEF Increasing
<1> QED
  BY <1>1, <1>2, <1>4, <1>5

LEMMA ListUnique ==
  ASSUME NEW h \in Idx, NEW S, NEW v, NEW w, Lists(h, S, v), Lists(h, S, w)
  PROVE  v = w
<1> DEFINE Diff == {k \in 1 .. Len(v) : k \in 1 .. Len(w) /\ v[k] # w[k]}
<1>1. /\ v \in Seq(Idx) /\ w \in Seq(Idx) /\ Len(v) \in Nat /\ Len(w) \in Nat
      /\ \A j \in 1 .. Len(v) : v[j] \in Idx /\ From(h, v[j]) \in Nat
      /\ \A j \in 1 .. Len(w) : w[j] \in Idx /\ From(h, w[j]) \in Nat
  BY ListTypes DEF Lists
<1>2. Diff = {}
  <2> SUFFICES ASSUME Diff # {}
               PROVE  FALSE
    OBVIOUS
  <2>1. Diff \subseteq Nat
    BY <1>1
  <2>2. PICK k \in Diff : \A j \in Diff : k <= j
    <3> HIDE DEF Diff
    <3> QED
      BY <2>1, LeastElement
  <2>3. k \in 1 .. Len(v) /\ k \in 1 .. Len(w) /\ v[k] # w[k]
    BY <2>2
  <2>4. ASSUME NEW j \in 1 .. k - 1
        PROVE  v[j] = w[j]
    <3>1. j \in 1 .. Len(v) /\ j \in 1 .. Len(w) /\ ~(k <= j)
      BY <1>1, <2>3
    <3> QED
      BY <2>2, <3>1
  <2>5. ~(From(h, v[k]) < From(h, w[k])) /\ ~(From(h, w[k]) < From(h, v[k]))
    BY <2>3, <2>4, NoFirstDifference
  <2>6. From(h, v[k]) = From(h, w[k])
    BY <1>1, <2>3, <2>5
  <2> QED
    BY <1>1, <2>3, <2>6, FromFacts
<1>3. \A k \in 1 .. Len(v) : k \in 1 .. Len(w) => v[k] = w[k]
  BY <1>2
<1>4. Len(w) <= Len(v)
  BY <1>3, NotLonger
<1>5. Len(v) <= Len(w)
  BY <1>3, NotLonger
<1>6. Len(v) = Len(w)
  BY <1>1, <1>4, <1>5
<1> QED
  BY <1>1, <1>3, <1>6, SeqEqual

(* So the list that is chosen is the one there is. *)
Orders(h, S) ==
  {w \in UNION {[1 .. n -> S] : n \in 0 .. STORE_BUFFER_SIZE} :
     /\ \A i \in S : \E k \in DOMAIN w : w[k] = i
     /\ \A j, k \in DOMAIN w : j < k => From(h, w[j]) < From(h, w[k])}

LEMMA ListChosen ==
  ASSUME NEW h \in Idx, NEW S \in SUBSET Idx, NEW w, Lists(h, S, w)
  PROVE  (CHOOSE v \in Orders(h, S) : TRUE) = w
<1>1. /\ w \in Seq(Idx) /\ Len(w) \in Nat /\ Increasing(h, w)
      /\ \A k \in 1 .. Len(w) : w[k] \in S
      /\ DOMAIN w = 1 .. Len(w)
  BY DEF Lists
<1>2. Len(w) <= STORE_BUFFER_SIZE
  <2>1. \A k \in 1 .. Len(w) : From(h, w[k]) < STORE_BUFFER_SIZE
    BY <1>1, FromFacts, SBSizeAssumption
  <2> QED
    BY <1>1, <2>1, ListFits, SBSizeAssumption
<1>3. w \in Orders(h, S)
  <2>1. w \in [1 .. Len(w) -> S] /\ Len(w) \in 0 .. STORE_BUFFER_SIZE
    BY <1>1, <1>2, SBSizeAssumption
  <2>2. w \in UNION {[1 .. n -> S] : n \in 0 .. STORE_BUFFER_SIZE}
    BY <2>1
  <2>3. \A i \in S : \E k \in DOMAIN w : w[k] = i
    BY <1>1 DEF Lists
  <2>4. \A j, k \in DOMAIN w : j < k => From(h, w[j]) < From(h, w[k])
    BY <1>1 DEF Increasing
  <2> QED
    BY <2>2, <2>3, <2>4 DEF Orders
<1>4. ASSUME NEW v \in Orders(h, S)
      PROVE  v = w
  <2>1. PICK n \in 0 .. STORE_BUFFER_SIZE : v \in [1 .. n -> S]
    BY DEF Orders
  <2>2. v \in [1 .. n -> Idx] /\ n \in Nat /\ DOMAIN v = 1 .. n
    BY <2>1, SBSizeAssumption
  <2>3. v \in Seq(Idx) /\ Len(v) = n
    BY <2>2
  <2>4. Lists(h, S, v)
    BY <2>1, <2>2, <2>3 DEF Orders, Lists, Increasing
  <2> QED
    BY <2>4, ListUnique
<1> QED
  BY <1>3, <1>4
----------------------------------------------------------------------------
(* The stores in a list of slots. *)

Item == [addr : Addr, data : Data]
Stored(q, i) == [addr |-> q[i].addr, data |-> q[i].data]
Contents(q, w) == [k \in 1 .. Len(w) |-> Stored(q, w[k])]

LEMMA ContentsSeq ==
  ASSUME NEW q \in [Idx -> Entry], NEW w \in Seq(Idx)
  PROVE  /\ Contents(q, w) \in Seq(Item) /\ Len(Contents(q, w)) = Len(w)
         /\ \A k \in 1 .. Len(w) :
              Contents(q, w)[k] = Stored(q, w[k])
<1>1. Len(w) \in Nat /\ \A k \in 1 .. Len(w) : w[k] \in Idx
  BY ListTypes, ElementOfSeq
<1>2. \A k \in 1 .. Len(w) : Stored(q, w[k]) \in Item
  BY <1>1 DEF Entry, Item, Stored
<1>3. Contents(q, w) \in [1 .. Len(w) -> Item]
  BY <1>2 DEF Contents
<1>4. Contents(q, w) \in Seq(Item) /\ Len(Contents(q, w)) = Len(w)
  BY <1>1, <1>3
<1>5. \A k \in 1 .. Len(w) :
        Contents(q, w)[k] = Stored(q, w[k])
  BY DEF Contents
<1> QED
  BY <1>4, <1>5

LEMMA ContentsSame ==
  ASSUME NEW q \in [Idx -> Entry], NEW r \in [Idx -> Entry], NEW w \in Seq(Idx),
         \A k \in 1 .. Len(w) : r[w[k]].addr = q[w[k]].addr /\ r[w[k]].data = q[w[k]].data
  PROVE  Contents(r, w) = Contents(q, w)
BY DEF Contents, Stored

LEMMA ContentsTail ==
  ASSUME NEW q \in [Idx -> Entry], NEW w \in Seq(Idx), w # << >>
  PROVE  /\ Contents(q, w) # << >> /\ Contents(q, Tail(w)) = Tail(Contents(q, w))
         /\ Head(Contents(q, w)) = Stored(q, w[1])
<1> DEFINE c == Contents(q, w)
           t == Contents(q, Tail(w))
<1>1. /\ Tail(w) \in Seq(Idx) /\ Len(Tail(w)) = Len(w) - 1
      /\ \A k \in 1 .. Len(Tail(w)) : Tail(w)[k] = w[k + 1]
      /\ Len(w) \in Nat /\ Len(w) >= 1
  BY HeadTailProperties, ListTypes, EmptySeq
<1>2. /\ c \in Seq(Item) /\ Len(c) = Len(w)
      /\ \A k \in 1 .. Len(w) : c[k] = Stored(q, w[k])
  BY ContentsSeq
<1>2a. /\ t \in Seq(Item) /\ Len(t) = Len(w) - 1
      /\ \A k \in 1 .. Len(w) - 1 : t[k] = Stored(q, w[k + 1])
  <2> DEFINE v == Tail(w)
  <2>1. v \in Seq(Idx) /\ Len(v) = Len(w) - 1 /\ \A k \in 1 .. Len(w) - 1 : v[k] = w[k + 1]
    BY <1>1
  <2> HIDE DEF v
  <2>2. /\ Contents(q, v) \in Seq(Item) /\ Len(Contents(q, v)) = Len(v)
        /\ \A k \in 1 .. Len(v) : Contents(q, v)[k] = Stored(q, v[k])
    BY <2>1, ContentsSeq
  <2>3. /\ Contents(q, v) \in Seq(Item) /\ Len(Contents(q, v)) = Len(w) - 1
        /\ \A k \in 1 .. Len(w) - 1 : Contents(q, v)[k] = Stored(q, w[k + 1])
    BY <2>1, <2>2
  <2> QED
    BY <2>3 DEF v
<1> HIDE DEF c, t
<1>3. c # << >> /\ Head(c) = c[1]
  BY <1>1, <1>2
<1>4. /\ Tail(c) \in Seq(Item) /\ Len(Tail(c)) = Len(c) - 1
      /\ \A k \in 1 .. Len(Tail(c)) : Tail(c)[k] = c[k + 1]
  BY <1>2, <1>3, HeadTailProperties
<1>5. ASSUME NEW k \in 1 .. Len(t)
      PROVE  t[k] = Tail(c)[k]
  <2>1. k \in 1 .. Len(w) - 1 /\ k \in 1 .. Len(Tail(c)) /\ k + 1 \in 1 .. Len(w)
    BY <1>1, <1>2, <1>2a, <1>4
  <2> QED
    BY <1>2, <1>2a, <1>4, <2>1
<1>6. t = Tail(c)
  BY <1>1, <1>2, <1>2a, <1>4, <1>5, SeqEqual
<1>7. 1 \in 1 .. Len(w)
  BY <1>1
<1> QED
  BY <1>2, <1>3, <1>6, <1>7 DEF c, t

LEMMA ContentsAppend ==
  ASSUME NEW q \in [Idx -> Entry], NEW w \in Seq(Idx), NEW i \in Idx
  PROVE  Contents(q, Append(w, i)) = Append(Contents(q, w), Stored(q, i))
<1> DEFINE c == Contents(q, w)
           a == Contents(q, Append(w, i))
           e == Stored(q, i)
<1>1. /\ Append(w, i) \in Seq(Idx) /\ Len(Append(w, i)) = Len(w) + 1
      /\ \A k \in 1 .. Len(w) : Append(w, i)[k] = w[k]
      /\ Append(w, i)[Len(w) + 1] = i /\ Len(w) \in Nat
  BY AppendProperties, ListTypes
<1>2. /\ c \in Seq(Item) /\ Len(c) = Len(w)
      /\ \A k \in 1 .. Len(w) : c[k] = Stored(q, w[k])
  BY ContentsSeq
<1>3. /\ a \in Seq(Item) /\ Len(a) = Len(w) + 1
      /\ \A k \in 1 .. Len(w) : a[k] = Stored(q, w[k])
      /\ a[Len(w) + 1] = e
  <2> DEFINE v == Append(w, i)
  <2>1. /\ v \in Seq(Idx) /\ Len(v) = Len(w) + 1 /\ Len(w) \in Nat
        /\ \A k \in 1 .. Len(w) : v[k] = w[k]
        /\ v[Len(w) + 1] = i
    BY <1>1
  <2> HIDE DEF v
  <2>2. /\ Contents(q, v) \in Seq(Item) /\ Len(Contents(q, v)) = Len(v)
        /\ \A k \in 1 .. Len(v) : Contents(q, v)[k] = Stored(q, v[k])
    BY <2>1, ContentsSeq
  <2>3. /\ Contents(q, v) \in Seq(Item) /\ Len(Contents(q, v)) = Len(w) + 1
        /\ \A k \in 1 .. Len(w) : Contents(q, v)[k] = Stored(q, w[k])
        /\ Contents(q, v)[Len(w) + 1] = Stored(q, i)
    BY <2>1, <2>2
  <2> QED
    BY <2>3 DEF v
<1>4. e \in Item
  BY DEF Entry, Item, Stored
<1> HIDE DEF c, a, e
<1>5. /\ Append(c, e) \in Seq(Item) /\ Len(Append(c, e)) = Len(c) + 1
      /\ \A k \in 1 .. Len(c) : Append(c, e)[k] = c[k]
      /\ Append(c, e)[Len(c) + 1] = e
  BY <1>2, <1>4, AppendProperties
<1>6. \A k \in 1 .. Len(w) + 1 : k \in 1 .. Len(w) \/ k = Len(w) + 1
  BY <1>1
<1>7. \A k \in 1 .. Len(a) : a[k] = Append(c, e)[k]
  BY <1>2, <1>3, <1>5, <1>6
<1>8. a = Append(c, e)
  BY <1>2, <1>3, <1>5, <1>7, SeqEqual
<1> QED
  BY <1>8 DEF c, a, e

(* The two queues of the abstract specification. *)
ViewFacts ==
  /\ \A w \in Seq(Idx) : Lists(head_ptr_q, CommittedSlots, w) =>
       StoresOf(CommittedSlots) = Contents(store_buffer_q, w)
  /\ \A w \in Seq(Idx) : Lists(head_ptr_q, SpeculativeSlots, w) =>
       StoresOf(SpeculativeSlots) = Contents(store_buffer_q, w)

LEMMA Views ==
  TypeOK => ViewFacts
<1> SUFFICES ASSUME TypeOK, NEW S \in SUBSET Idx, NEW w \in Seq(Idx), Lists(head_ptr_q, S, w)
             PROVE  StoresOf(S) = Contents(store_buffer_q, w)
  <2>1. CommittedSlots \in SUBSET Idx /\ SpeculativeSlots \in SUBSET Idx
    BY DEF CommittedSlots, SpeculativeSlots
  <2> QED
    BY <2>1 DEF ViewFacts
<1>1. RingOrders(S) = Orders(head_ptr_q, S)
  BY DEF RingOrders, Orders, Dist, From
<1>2. (CHOOSE v \in Orders(head_ptr_q, S) : TRUE) = w
  BY ListChosen DEF TypeOK
<1>3. (CHOOSE v \in RingOrders(S) : TRUE) = w
  BY <1>1, <1>2
<1>4. DOMAIN w = 1 .. Len(w)
  OBVIOUS
<1> QED
  BY <1>3, <1>4 DEF StoresOf, Contents, Stored

LEMMA ViewsNext ==
  TypeOK' => ViewFacts'
BY Views, PTL

(* The slots that the reorder buffer holds list the speculative stores. *)
LEMMA PendingLists ==
  TypeOK /\ PendingInv => Lists(head_ptr_q, SpeculativeSlots, pending)
BY DEF TypeOK, PendingInv, Lists, Increasing, SpeculativeSlots, Dist, From

LEMMA PendingListsNext ==
  TypeOK' /\ PendingInv' => Lists(head_ptr_q, SpeculativeSlots, pending)'
BY PendingLists, PTL
----------------------------------------------------------------------------

(* The stores in the buffer keep what they hold, and a taken slot holds    *)
(* what was asked for.                                                     *)
LEMMA NextContents ==
  ASSUME TypeOK, WindowInv, NEW in \in Inputs, Step(in)
  PROVE  /\ \A i \in Idx : store_buffer_q[i].valid =>
              Stored(store_buffer_q', i) = Stored(store_buffer_q, i)
         /\ Accepts(in) =>
              Stored(store_buffer_q', tail_ptr_q) = [addr |-> in.addr, data |-> in.data]
<1> DEFINE A == Accept(store_buffer_q, in)
           F == Free(A, in)
           C == MarkCommitted(F, in)
           D == MarkDiscarded(C, in)
<1>0. /\ store_buffer_q \in [Idx -> Entry] /\ in \in Input
      /\ tail_ptr_q \in Idx /\ head_ptr_q \in Idx /\ in.idx_commit \in Idx
  BY DEF TypeOK, Inputs, Input
<1>1. /\ A \in [Idx -> Entry]
      /\ \A i \in Idx : ~(Accepts(in) /\ i = tail_ptr_q) => A[i] = store_buffer_q[i]
      /\ Accepts(in) => Stored(A, tail_ptr_q) = [addr |-> in.addr, data |-> in.data]
  <2> DEFINE new == [data |-> in.data, addr |-> in.addr, valid |-> TRUE,
                     committed |-> FALSE, discarded |-> FALSE]
  <2>1. new \in Entry /\ new.addr = in.addr /\ new.data = in.data
    BY <1>0 DEF Input, Entry
  <2>2. CASE Accepts(in)
    <3>1. A = [store_buffer_q EXCEPT ![tail_ptr_q] = new]
      BY <2>2 DEF Accept
    <3> HIDE DEF A, new
    <3> QED
      BY <1>0, <2>1, <2>2, <3>1 DEF Stored
  <2>3. CASE ~Accepts(in)
    BY <1>0, <2>3 DEF Accept
  <2> QED
    BY <2>2, <2>3
<1> HIDE DEF A
<1>2. \A e \in Entry : /\ [e EXCEPT !.valid = FALSE] \in Entry
                        /\ [e EXCEPT !.valid = FALSE].addr = e.addr
                        /\ [e EXCEPT !.valid = FALSE].data = e.data
                        /\ [e EXCEPT !.committed = TRUE] \in Entry
                        /\ [e EXCEPT !.committed = TRUE].addr = e.addr
                        /\ [e EXCEPT !.committed = TRUE].data = e.data
                        /\ [e EXCEPT !.discarded = TRUE].addr = e.addr
                        /\ [e EXCEPT !.discarded = TRUE].data = e.data
  BY DEF Entry
<1>3. /\ F \in [Idx -> Entry]
      /\ \A i \in Idx : F[i].addr = A[i].addr /\ F[i].data = A[i].data
  <2>0. A \in [Idx -> Entry]
    BY <1>1
  <2>1. CASE FreesHead(in)
    <3>1. F = [A EXCEPT ![head_ptr_q] = [A[head_ptr_q] EXCEPT !.valid = FALSE]]
      BY <2>1 DEF Free
    <3> HIDE DEF F
    <3> QED
      BY <1>0, <1>2, <2>0, <3>1
  <2>2. CASE ~FreesHead(in)
    BY <2>0, <2>2 DEF Free
  <2> QED
    BY <2>1, <2>2
<1> HIDE DEF F
<1>4. /\ C \in [Idx -> Entry]
      /\ \A i \in Idx : C[i].addr = F[i].addr /\ C[i].data = F[i].data
  <2>0. F \in [Idx -> Entry]
    BY <1>3
  <2>1. CASE in.commit
    <3>1. C = [F EXCEPT ![in.idx_commit] = [F[in.idx_commit] EXCEPT !.committed = TRUE]]
      BY <2>1 DEF MarkCommitted
    <3> HIDE DEF C
    <3> QED
      BY <1>0, <1>2, <2>0, <3>1
  <2>2. CASE ~in.commit
    BY <2>0, <2>2 DEF MarkCommitted
  <2> QED
    BY <2>1, <2>2
<1> HIDE DEF C
<1>5. \A i \in Idx : D[i].addr = C[i].addr /\ D[i].data = C[i].data
  <2>0. C \in [Idx -> Entry]
    BY <1>4
  <2> QED
    BY <1>2, <2>0 DEF MarkDiscarded
<1>6. store_buffer_q' = D
  BY EdgeFacts DEF store_buffer_d, A, F, C
<1> HIDE DEF D
<1>7. \A i \in Idx : Stored(store_buffer_q', i) = Stored(A, i)
  BY <1>3, <1>4, <1>5, <1>6 DEF Stored
<1>8. Accepts(in) => ~store_buffer_q[tail_ptr_q].valid
  BY AgesStep
<1>9. ASSUME NEW i \in Idx, store_buffer_q[i].valid
      PROVE  Stored(store_buffer_q', i) = Stored(store_buffer_q, i)
  <2>1. A[i] = store_buffer_q[i]
    BY <1>1, <1>8, <1>9
  <2> QED
    BY <1>7, <2>1 DEF Stored
<1> QED
  BY <1>0, <1>1, <1>7, <1>9

(* The head of the buffer, when the data cache takes it. *)
Written(in) == rsp_valid_o /\ in.rsp_ready

(* The list of the committed stores after an edge: the first leaves when   *)
(* it is written, and the oldest store in flight comes last when it        *)
(* commits.                                                                *)
LEMMA CommittedStep ==
  ASSUME TypeOK, TypeOK', WindowInv, PendingInv, NEW in \in Inputs, Step(in),
         NEW w, Lists(head_ptr_q, CommittedSlots, w)
  PROVE  /\ w \in Seq(Idx)
         /\ Written(in) => w # << >> /\ w[1] = head_ptr_q
         /\ in.commit => pending # << >> /\ pending[1] \in Idx
         /\ LET rest == IF Written(in) THEN Tail(w) ELSE w
                u    == IF in.commit THEN Append(rest, pending[1]) ELSE rest
            IN  Lists(head_ptr_q', CommittedSlots', u)
<1> DEFINE h == head_ptr_q
           s == IF Written(in) THEN 1 ELSE 0
           rest == IF Written(in) THEN Tail(w) ELSE w
           u == IF in.commit THEN Append(rest, pending[1]) ELSE rest
<1>1. /\ h \in Idx /\ tail_ptr_q \in Idx /\ h' \in Idx
      /\ w \in Seq(Idx) /\ Len(w) \in Nat
      /\ \A k \in 1 .. Len(w) : w[k] \in Idx
      /\ \A i \in Idx : From(h, i) \in Nat
      /\ Increasing(h, w)
      /\ \A i \in Idx : i \in CommittedSlots <=> \E k \in 1 .. Len(w) : w[k] = i
  <2>1. h \in Idx /\ tail_ptr_q \in Idx /\ h' \in Idx /\ w \in Seq(Idx)
    BY DEF TypeOK, Lists
  <2>2. \A i \in Idx : From(h, i) \in Nat
    BY <2>1, FromFacts, SBSizeAssumption
  <2>3. Len(w) \in Nat /\ \A k \in 1 .. Len(w) : w[k] \in Idx
    BY <2>1, ListTypes, ElementOfSeq
  <2> QED
    BY <2>1, <2>2, <2>3 DEF Lists
<1>2. in.commit => /\ pending # << >> /\ pending[1] \in Idx /\ in.idx_commit = pending[1]
                   /\ Speculative(pending[1])
  <2> SUFFICES ASSUME in.commit
               PROVE  /\ pending # << >> /\ pending[1] \in Idx /\ in.idx_commit = pending[1]
                      /\ Speculative(pending[1])
    OBVIOUS
  <2>1. pending \in Seq(Idx) /\ pending # << >> /\ in.idx_commit = Head(pending)
    BY DEF Step, NoRetire, CommitOldest, FlushAll, TypeOK
  <2>2. 1 \in 1 .. Len(pending) /\ Head(pending) = pending[1]
    BY <2>1
  <2>3. pending[1] \in Idx
    BY <2>1, <2>2
  <2> QED
    BY <2>1, <2>2, <2>3 DEF PendingInv
<1>3. /\ Written(in) => h \in CommittedSlots
      /\ FreesHead(in) /\ ~Written(in) => h \notin CommittedSlots
      /\ FreesHead(in) => store_buffer_q[h].valid /\ ~Speculative(h)
      /\ Written(in) => FreesHead(in)
  BY <1>1, AgesStep DEF Written, FreesHead, rsp_valid_o, DropsHead, CommittedSlots
<1>4. \A i \in Idx :
        i \in CommittedSlots' <=> \/ i \in CommittedSlots /\ ~(Written(in) /\ i = h)
                                  \/ in.commit /\ i = pending[1]
  <2>1. \A i \in Idx :
          /\ store_buffer_q'[i].valid <=>
               /\ (Accepts(in) /\ i = tail_ptr_q) \/ store_buffer_q[i].valid
               /\ ~(FreesHead(in) /\ i = h)
          /\ store_buffer_q'[i].committed <=>
               \/ ~(Accepts(in) /\ i = tail_ptr_q) /\ store_buffer_q[i].committed
               \/ in.commit /\ i = in.idx_commit
    BY EdgeFacts, NextSlots
  <2>2. Accepts(in) => ~store_buffer_q[tail_ptr_q].valid
    BY AgesStep
  <2> HIDE DEF h
  <2>3. \A i \in Idx : i \in CommittedSlots <=>
                          store_buffer_q[i].valid /\ store_buffer_q[i].committed
    BY DEF CommittedSlots
  <2>4. \A i \in Idx : i \in CommittedSlots' <=>
                          store_buffer_q'[i].valid /\ store_buffer_q'[i].committed
    BY DEF CommittedSlots
  <2> QED
    BY <1>2, <1>3, <2>1, <2>2, <2>3, <2>4 DEF Speculative
<1>5. Written(in) => 1 \in 1 .. Len(w) /\ w[1] = h
  <2> SUFFICES ASSUME Written(in)
               PROVE  1 \in 1 .. Len(w) /\ w[1] = h
    OBVIOUS
  <2>1. PICK k \in 1 .. Len(w) : w[k] = h
    BY <1>1, <1>3
  <2>2. From(h, h) = 0
    BY <1>1 DEF From, Idx
  <2>3. 1 \in 1 .. Len(w) /\ (k # 1 => 1 < k)
    BY <1>1
  <2>4. k # 1 => From(h, w[1]) < From(h, w[k])
    BY <1>1, <2>3 DEF Increasing
  <2> HIDE DEF h
  <2> QED
    BY <1>1, <2>1, <2>2, <2>3, <2>4
<1>6. /\ rest \in Seq(Idx) /\ Len(rest) = Len(w) - s /\ s \in {0, 1}
      /\ \A k \in 1 .. Len(w) - s : rest[k] = w[k + s]
  <2>1. CASE Written(in)
    <3>1. w # << >>
      BY <1>1, <1>5, <2>1
    <3>2. Tail(w) \in Seq(Idx) /\ Len(Tail(w)) = Len(w) - 1
          /\ \A k \in 1 .. Len(Tail(w)) : Tail(w)[k] = w[k + 1]
      BY <1>1, <3>1, HeadTailProperties
    <3> QED
      BY <2>1, <3>2
  <2>2. CASE ~Written(in)
    BY <1>1, <2>2
  <2> QED
    BY <2>1, <2>2
<1> HIDE DEF rest
<1>7. /\ Increasing(h, rest) /\ Len(rest) \in Nat
      /\ \A k \in 1 .. Len(rest) : rest[k] \in Idx
      /\ \A i \in Idx : i \in CommittedSlots /\ ~(Written(in) /\ i = h) <=>
                          \E k \in 1 .. Len(rest) : rest[k] = i
  <2>0. \A k \in 1 .. Len(rest) : k + s \in 1 .. Len(w) /\ rest[k] = w[k + s]
    <3> HIDE DEF s
    <3> QED
      BY <1>1, <1>6
  <2>1. Increasing(h, rest) /\ Len(rest) \in Nat
    <3>1. \A j, k \in 1 .. Len(rest) : j < k => j + s < k + s
      BY <1>6, ListTypes
    <3> QED
      BY <1>1, <1>6, <2>0, <3>1, ListTypes DEF Increasing
  <2>2. \A k \in 1 .. Len(rest) : rest[k] \in Idx
    BY <1>1, <2>0
  <2>3. ASSUME NEW i \in Idx, NEW k \in 1 .. Len(rest), rest[k] = i
        PROVE  i \in CommittedSlots /\ ~(Written(in) /\ i = h)
    <3>1. i \in CommittedSlots
      BY <1>1, <2>0, <2>3
    <3>2. Written(in) => From(h, w[1]) < From(h, w[k + s])
      BY <1>1, <1>5, <2>0, <2>1 DEF Increasing
    <3> QED
      BY <1>1, <1>5, <2>0, <2>3, <3>1, <3>2
  <2>4. ASSUME NEW i \in Idx, i \in CommittedSlots, ~(Written(in) /\ i = h)
        PROVE  \E k \in 1 .. Len(rest) : rest[k] = i
    <3>1. PICK k \in 1 .. Len(w) : w[k] = i
      BY <1>1, <2>4
    <3>2. k - s \in 1 .. Len(rest) /\ (k - s) + s = k
      BY <1>1, <1>5, <1>6, <2>4, <3>1
    <3> QED
      BY <2>0, <3>1, <3>2
  <2> QED
    BY <2>1, <2>2, <2>3, <2>4
<1> HIDE DEF h
<1>8. /\ u \in Seq(Idx) /\ Increasing(h, u)
      /\ \A i \in Idx : i \in CommittedSlots' <=> \E k \in 1 .. Len(u) : u[k] = i
  <2>1. CASE in.commit
    <3> DEFINE p == pending[1]
    <3>1. /\ u = Append(rest, p) /\ p \in Idx
      BY <1>2, <2>1
    <3> HIDE DEF u, p
    <3>2. /\ u \in Seq(Idx) /\ Len(u) = Len(rest) + 1
          /\ \A k \in 1 .. Len(rest) : u[k] = rest[k]
          /\ u[Len(rest) + 1] = p
      BY <1>6, <3>1, AppendProperties
    <3>3. \A i \in CommittedSlots : From(h, i) < From(h, p)
      BY <1>2, <2>1 DEF PendingInv, Dist, From, CommittedSlots, Speculative, p, h
    <3>4. \A k \in 1 .. Len(rest) : From(h, rest[k]) < From(h, p)
      BY <1>7, <3>3
    <3>5. \A k \in 1 .. Len(u) : k \in 1 .. Len(rest) \/ k = Len(rest) + 1
      BY <1>7, <3>2
    <3>6. \A k \in 1 .. Len(rest) : k \in 1 .. Len(u) /\ ~(Len(rest) + 1 < k)
      BY <1>7, <3>2
    <3>7. Increasing(h, u)
      <4> SUFFICES ASSUME NEW j \in 1 .. Len(u), NEW k \in 1 .. Len(u), j < k
                   PROVE  From(h, u[j]) < From(h, u[k])
        BY DEF Increasing
      <4>1. j \in 1 .. Len(rest)
        BY <1>7, <3>2
      <4>2. CASE k \in 1 .. Len(rest)
        BY <1>7, <3>2, <4>1, <4>2 DEF Increasing
      <4>3. CASE k = Len(rest) + 1
        BY <3>2, <3>4, <4>1, <4>3
      <4> QED
        BY <3>5, <4>2, <4>3
    <3>8. Len(rest) + 1 \in 1 .. Len(u)
      BY <1>7, <3>2
    <3>9. \A i \in Idx : i \in CommittedSlots' <=> \E k \in 1 .. Len(u) : u[k] = i
      BY <1>4, <1>7, <2>1, <3>2, <3>5, <3>6, <3>8 DEF p
    <3> QED
      BY <3>2, <3>7, <3>9
  <2>2. CASE ~in.commit
    BY <1>4, <1>6, <1>7, <2>2
  <2> QED
    BY <2>1, <2>2
(* None of these slots is freed, so all their distances change alike.      *)
<1> HIDE DEF u
<1>9. Increasing(h', u)
  <2>1. h' = IF FreesHead(in) THEN (IF h = STORE_BUFFER_SIZE - 1 THEN 0 ELSE h + 1) ELSE h
    BY <1>1, EdgeFacts, SuccLemma DEF h
  <2>2. ASSUME NEW i \in Idx, i \in CommittedSlots'
        PROVE  From(h', i) = IF FreesHead(in) THEN From(h, i) - 1 ELSE From(h, i)
    <3>1. FreesHead(in) => i # h
      BY <1>2, <1>3, <1>4, <2>2
    <3> QED
      BY <1>1, <2>1, <3>1, SBSizeAssumption DEF From, Idx
  <2>3. \A k \in 1 .. Len(u) : u[k] \in Idx /\ u[k] \in CommittedSlots'
    BY <1>8, ElementOfSeq
  <2> SUFFICES ASSUME NEW j \in 1 .. Len(u), NEW k \in 1 .. Len(u), j < k
               PROVE  From(h', u[j]) < From(h', u[k])
    BY DEF Increasing
  <2>4. From(h, u[j]) < From(h, u[k]) /\ From(h, u[j]) \in Nat /\ From(h, u[k]) \in Nat
    BY <1>1, <1>8, <2>3 DEF Increasing
  <2> QED
    BY <2>2, <2>3, <2>4
<1>10. Lists(h', CommittedSlots', u)
  BY <1>8, <1>9 DEF Lists
<1>11. Written(in) => w # << >>
  BY <1>1, <1>5
<1> QED
  BY <1>1, <1>2, <1>5, <1>10, <1>11 DEF h, u, rest
----------------------------------------------------------------------------

(* While a slot can be taken, the two queues do not fill the buffer. *)
LEMMA BufferFits ==
  ASSUME TypeOK, WindowInv, PendingInv, NEW in \in Inputs, Step(in), Accepts(in),
         NEW w, Lists(head_ptr_q, CommittedSlots, w)
  PROVE  Len(w) + Len(pending) < STORE_BUFFER_SIZE
<1> DEFINE h == head_ptr_q
           cat == w \o pending
           m == From(h, tail_ptr_q)
<1>1. /\ h \in Idx /\ tail_ptr_q \in Idx /\ w \in Seq(Idx) /\ pending \in Seq(Idx)
      /\ Increasing(h, w) /\ Increasing(h, pending)
      /\ \A k \in 1 .. Len(w) : w[k] \in CommittedSlots
      /\ \A k \in 1 .. Len(pending) : pending[k] \in SpeculativeSlots
  BY PendingLists, ElementOfSeq DEF TypeOK, Lists
<1>2. m \in 0 .. STORE_BUFFER_SIZE - 1 /\ m \in Nat
  BY <1>1, FromFacts, SBSizeAssumption
<1>3. /\ cat \in Seq(Idx) /\ Len(cat) = Len(w) + Len(pending)
      /\ \A k \in 1 .. Len(w) + Len(pending) :
           cat[k] = IF k <= Len(w) THEN w[k] ELSE pending[k - Len(w)]
      /\ Len(w) \in Nat /\ Len(pending) \in Nat
  BY <1>1, ConcatProperties, ListTypes
<1>4. /\ \A i \in CommittedSlots : store_buffer_q[i].valid /\ i \in Idx
      /\ \A i \in SpeculativeSlots : store_buffer_q[i].valid /\ i \in Idx
      /\ \A i \in CommittedSlots, j \in SpeculativeSlots : From(h, i) < From(h, j)
  BY DEF CommittedSlots, SpeculativeSlots, Speculative, PendingInv, Dist, From
<1>5. \A i \in Idx : store_buffer_q[i].valid => From(h, i) < m
  BY AgesStep DEF Dist, From
<1> HIDE DEF h, cat, m
<1>6. \A k \in 1 .. Len(cat) : k \in 1 .. Len(w) \/ k - Len(w) \in 1 .. Len(pending)
  BY <1>3
<1>7. \A k \in 1 .. Len(cat) : store_buffer_q[cat[k]].valid /\ cat[k] \in Idx
  BY <1>1, <1>3, <1>4, <1>6
<1>8. Increasing(h, cat)
  <2> SUFFICES ASSUME NEW j \in 1 .. Len(cat), NEW k \in 1 .. Len(cat), j < k
               PROVE  From(h, cat[j]) < From(h, cat[k])
    BY DEF Increasing
  <2>1. CASE k <= Len(w)
    <3>1. j \in 1 .. Len(w) /\ k \in 1 .. Len(w)
      BY <1>3, <2>1
    <3> QED
      BY <1>1, <1>3, <3>1 DEF Increasing
  <2>2. CASE j <= Len(w) /\ ~(k <= Len(w))
    <3>1. j \in 1 .. Len(w) /\ k - Len(w) \in 1 .. Len(pending)
      BY <1>3, <2>2
    <3>2. cat[j] = w[j] /\ cat[k] = pending[k - Len(w)]
      BY <1>3, <2>2
    <3> QED
      BY <1>1, <1>4, <3>1, <3>2
  <2>3. CASE ~(j <= Len(w))
    <3>1. /\ j - Len(w) \in 1 .. Len(pending) /\ k - Len(w) \in 1 .. Len(pending)
          /\ j - Len(w) < k - Len(w) /\ ~(k <= Len(w))
      BY <1>3, <2>3
    <3>2. cat[j] = pending[j - Len(w)] /\ cat[k] = pending[k - Len(w)]
      BY <1>3, <2>3, <3>1
    <3> QED
      BY <1>1, <3>1, <3>2 DEF Increasing
  <2> QED
    BY <1>3, <2>1, <2>2, <2>3
<1>9. Len(cat) <= m
  BY <1>1, <1>2, <1>3, <1>5, <1>7, <1>8, ListFits
<1> QED
  BY <1>2, <1>3, <1>9, SBSizeAssumption

(* What a slot list of the abstract specification may become. *)
LEMMA Grown ==
  ASSUME NEW v
  PROVE  /\ v \in Stores!MayGrow(v)
         /\ Len(StoresOf(CommittedSlots)) + Len(StoresOf(SpeculativeSlots)) < STORE_BUFFER_SIZE =>
              \A e \in [addr : Addr, data : Data] : Append(v, e) \in Stores!MayGrow(v)
BY DEF Stores!MayGrow

LEMMA EdgeRefines ==
  ASSUME TypeOK, TypeOK', WindowInv, PendingInv, PendingInv', NEW in \in Inputs, Step(in),
         NEW w, Lists(head_ptr_q, CommittedSlots, w)
  PROVE  Stores!Next
<1> DEFINE q == store_buffer_q
           q1 == store_buffer_q'
           com == StoresOf(CommittedSlots)
           spec == StoresOf(SpeculativeSlots)
           left == IF Written(in) THEN Tail(w) ELSE w
           base == IF in.commit THEN Tail(pending) ELSE pending
           rc == IF Written(in) THEN Tail(com) ELSE com
           rs == IF in.commit THEN Tail(spec) ELSE spec
<1>1. /\ q \in [Idx -> Entry] /\ q1 \in [Idx -> Entry] /\ w \in Seq(Idx)
      /\ pending \in Seq(Idx) /\ pending' \in Seq(Idx) /\ tail_ptr_q \in Idx
  BY DEF TypeOK, Lists
<1>2. PICK u : u = IF in.commit THEN Append(left, pending[1]) ELSE left
  OBVIOUS
<1>3. /\ Written(in) => w # << >> /\ w[1] = head_ptr_q
      /\ in.commit => pending # << >> /\ pending[1] \in Idx
      /\ Lists(head_ptr_q', CommittedSlots', u)
  BY <1>2, CommittedStep
<1>4. u \in Seq(Idx)
  BY <1>3 DEF Lists
<1>5. com = Contents(q, w) /\ spec = Contents(q, pending)
  BY <1>1, Views, PendingLists DEF ViewFacts
<1>6. com' = Contents(q1, u)
  BY <1>3, <1>4, ViewsNext DEF ViewFacts
<1>7. spec' = Contents(q1, pending')
  BY <1>1, ViewsNext, PendingListsNext DEF ViewFacts
<1>8. /\ \A i \in Idx : q[i].valid => Stored(q1, i) = Stored(q, i)
      /\ Accepts(in) => Stored(q1, tail_ptr_q) = [addr |-> in.addr, data |-> in.data]
  BY NextContents
<1>9. /\ \A k \in 1 .. Len(w) : w[k] \in Idx /\ q[w[k]].valid
      /\ \A k \in 1 .. Len(pending) : pending[k] \in Idx /\ q[pending[k]].valid
  BY <1>1, ElementOfSeq DEF Lists, CommittedSlots, PendingInv, Speculative
<1>10. /\ left \in Seq(Idx) /\ base \in Seq(Idx)
       /\ \A k \in 1 .. Len(left) : \E j \in 1 .. Len(w) : left[k] = w[j]
       /\ \A k \in 1 .. Len(base) : \E j \in 1 .. Len(pending) : base[k] = pending[j]
  <2>1. \A v \in Seq(Idx) : v # << >> =>
          /\ Tail(v) \in Seq(Idx)
          /\ \A k \in 1 .. Len(Tail(v)) : k + 1 \in 1 .. Len(v) /\ Tail(v)[k] = v[k + 1]
    <3> SUFFICES ASSUME NEW v \in Seq(Idx), v # << >>
                 PROVE  /\ Tail(v) \in Seq(Idx)
                        /\ \A k \in 1 .. Len(Tail(v)) : k + 1 \in 1 .. Len(v) /\ Tail(v)[k] = v[k + 1]
      OBVIOUS
    <3>1. /\ Tail(v) \in Seq(Idx) /\ Len(Tail(v)) = Len(v) - 1
          /\ \A k \in 1 .. Len(Tail(v)) : Tail(v)[k] = v[k + 1]
          /\ Len(v) \in Nat
      BY HeadTailProperties, ListTypes
    <3> QED
      BY <3>1
  <2> QED
    BY <1>1, <1>3, <2>1
<1>11. Contents(q1, left) = rc
  <2>1. Contents(q, left) = rc
    BY <1>1, <1>3, <1>5, ContentsTail
  <2>2. \A k \in 1 .. Len(left) : Stored(q1, left[k]) = Stored(q, left[k])
    BY <1>8, <1>9, <1>10
  <2> HIDE DEF left
  <2>3. Contents(q1, left) = Contents(q, left)
    BY <2>2 DEF Contents
  <2> QED
    BY <2>1, <2>3
<1>12. Contents(q1, base) = rs
  <2>1. Contents(q, base) = rs
    BY <1>1, <1>3, <1>5, ContentsTail
  <2>2. \A k \in 1 .. Len(base) : Stored(q1, base[k]) = Stored(q, base[k])
    BY <1>8, <1>9, <1>10
  <2> HIDE DEF base
  <2>3. Contents(q1, base) = Contents(q, base)
    BY <2>2 DEF Contents
  <2> QED
    BY <2>1, <2>3
(* Memory gets the oldest committed store, or nothing. *)
<1>13. Stores!Writes(rc) /\ rc \in Stores!Rests
  <2>0. CacheTakes(in)
    BY DEF Step, NoRetire, CommitOldest, FlushAll
  <2>1. CASE Written(in)
    <3>1. com # << >> /\ Head(com) = Stored(q, head_ptr_q)
      BY <1>1, <1>3, <1>5, <2>1, ContentsTail
    <3>2. written' = << Stored(q, head_ptr_q) >>
      BY <2>0, <2>1 DEF CacheTakes, Written, addr_o, data_wr_o, Stored
    <3> HIDE DEF com
    <3>3. rc = Tail(com) /\ written' = << Head(com) >>
      BY <2>1, <3>1, <3>2
    <3> QED
      BY <3>1, <3>3 DEF Stores!Writes, Stores!Rests, com
  <2>2. CASE ~Written(in)
    BY <2>0, <2>2 DEF Stores!Writes, Stores!Rests, CacheTakes, Written
  <2> QED
    BY <2>1, <2>2
<1> HIDE DEF rc
<1>14. CASE FlushAll(in)
  <2>1. pending' = << >> /\ ~in.commit
    BY <1>14 DEF FlushAll
  <2>2. spec' = << >>
    <3>1. Contents(q1, << >>) = << >>
      BY DEF Contents
    <3> QED
      BY <1>7, <2>1, <3>1
  <2>3. com' = rc
    BY <1>2, <1>6, <1>11, <2>1
  <2> QED
    BY <1>13, <2>2, <2>3 DEF Stores!Next, Stores!Flush
<1>15. CASE NoRetire(in) \/ CommitOldest(in)
  <2>1. pending' = IF Accepts(in) THEN Append(base, tail_ptr_q) ELSE base
    <3>1. pending' = base \o Taken(in)
      BY <1>15 DEF NoRetire, CommitOldest
    <3>2. CASE Accepts(in)
      <4>1. Taken(in) = << tail_ptr_q >>
        BY <3>2 DEF Taken, store_buffer_idx_o
      <4> HIDE DEF base
      <4>2. base \o << tail_ptr_q >> = Append(base, tail_ptr_q)
        BY <1>1, <1>10, AppendIsConcat
      <4> QED
        BY <3>1, <3>2, <4>1, <4>2
    <3>3. CASE ~Accepts(in)
      <4>1. Taken(in) = << >>
        BY <3>3 DEF Taken
      <4> HIDE DEF base
      <4> QED
        BY <1>10, <3>1, <3>3, <4>1, ConcatEmptySeq
    <3> QED
      BY <3>2, <3>3
  <2>2. spec' \in Stores!MayGrow(rs)
    <3>1. CASE Accepts(in)
      <4>1. spec' = Append(rs, [addr |-> in.addr, data |-> in.data])
        <5>1. pending' = Append(base, tail_ptr_q)
          BY <2>1, <3>1
        <5> HIDE DEF base
        <5>2. Contents(q1, Append(base, tail_ptr_q))
                = Append(Contents(q1, base), Stored(q1, tail_ptr_q))
          BY <1>1, <1>10, ContentsAppend
        <5>3. Stored(q1, tail_ptr_q) = [addr |-> in.addr, data |-> in.data]
          BY <1>8, <3>1
        <5> HIDE DEF q1, rs, spec
        <5> QED
          BY <1>7, <1>12, <5>1, <5>2, <5>3
      <4>2. [addr |-> in.addr, data |-> in.data] \in [addr : Addr, data : Data]
        BY DEF Inputs, Input
      <4>3. Len(com) + Len(spec) < STORE_BUFFER_SIZE
        <5>1. Len(com) = Len(w) /\ Len(spec) = Len(pending)
          BY <1>1, <1>5, ContentsSeq
        <5> QED
          BY <3>1, <5>1, BufferFits
      <4> QED
        BY <4>1, <4>2, <4>3, Grown
    <3>2. CASE ~Accepts(in)
      BY <1>7, <1>12, <2>1, <3>2, Grown
    <3> QED
      BY <3>1, <3>2
  <2>3. CASE in.commit
    <3>1. com' = Append(rc, Stored(q1, pending[1]))
      <4> HIDE DEF left
      <4>1. u = Append(left, pending[1])
        BY <1>2, <2>3
      <4> QED
        BY <1>1, <1>3, <1>6, <1>10, <1>11, <2>3, <4>1, ContentsAppend DEF Stored
    <3>2. spec # << >> /\ Head(spec) = Stored(q, pending[1])
      BY <1>1, <1>3, <1>5, <2>3, ContentsTail
    <3>3. Stored(q1, pending[1]) = Stored(q, pending[1])
      <4>1. 1 \in 1 .. Len(pending)
        BY <1>1, <1>3, <2>3
      <4> QED
        BY <1>8, <1>9, <4>1
    <3>4. rs = Tail(spec)
      BY <2>3
    <3> HIDE DEF com, spec, rs
    <3>5. com' = Append(rc, Head(spec)) /\ spec' \in Stores!MayGrow(Tail(spec))
      BY <2>2, <3>1, <3>2, <3>3, <3>4
    <3> QED
      BY <1>13, <3>2, <3>5 DEF Stores!Next, Stores!Commit, com, spec
  <2>4. CASE ~in.commit
    <3>1. com' = rc
      BY <1>2, <1>6, <1>11, <2>4
    <3>2. spec' \in Stores!MayGrow(spec)
      BY <2>2, <2>4
    <3> QED
      BY <1>13, <3>1, <3>2 DEF Stores!Next, Stores!Hold
  <2> QED
    BY <2>3, <2>4
<1> QED
  BY <1>14, <1>15 DEF Step

(* The committed stores have a list: it is the one that CommittedStep      *)
(* keeps.                                                                  *)
Listed == \E w : Lists(head_ptr_q, CommittedSlots, w)

LEMMA ListedCorrect == Spec => []Listed
<1>1. Init => Listed
  <2> SUFFICES ASSUME Init
               PROVE  Lists(head_ptr_q, CommittedSlots, << >>)
    BY DEF Listed
  <2>1. \A i \in Idx : i \notin CommittedSlots
    BY DEF Init, Reset, ResetEntry, CommittedSlots
  <2> QED
    BY <2>1 DEF Lists, Increasing
<1>2. TypeOK /\ TypeOK' /\ WindowInv /\ PendingInv /\ Listed /\ [Next]_vars => Listed'
  <2> SUFFICES ASSUME TypeOK, TypeOK', WindowInv, PendingInv, Listed, [Next]_vars
               PROVE  Listed'
    OBVIOUS
  <2>1. ASSUME NEW in \in Inputs, Step(in)
        PROVE  Listed'
    <3>1. PICK w : Lists(head_ptr_q, CommittedSlots, w)
      BY DEF Listed
    <3>2. PICK u : Lists(head_ptr_q', CommittedSlots', u)
      BY <2>1, <3>1, CommittedStep
    <3> QED
      BY <3>2 DEF Listed
  <2>2. CASE UNCHANGED vars
    BY <2>2 DEF vars, Listed, CommittedSlots
  <2> QED
    BY <2>1, <2>2 DEF Next
<1> QED
  BY <1>1, <1>2, TypeCorrect, WindowCorrect, PendingCorrect, PTL DEF Spec

(* store_buffer.sv's ring of slots is two first-in first-out queues:       *)
(* memory gets exactly the committed stores, once each and in program      *)
(* order, whatever the data cache's delays and the flushes.                *)
THEOREM RefinementCorrect == Spec => ImplementsStoreQueue
<1>1. Init => Stores!Init
  <2> SUFFICES ASSUME Init
               PROVE  /\ StoresOf(CommittedSlots) = << >> /\ StoresOf(SpeculativeSlots) = << >>
                      /\ written = << >>
    BY DEF Stores!Init
  <2>1. TypeOK
    BY SBSizeAssumption, AddrAssumption, SBDataAssumption
       DEF Init, Reset, ResetEntry, TypeOK, Entry, Idx
  <2>2. \A i \in Idx : i \notin CommittedSlots /\ i \notin SpeculativeSlots
    BY DEF Init, Reset, ResetEntry, CommittedSlots, SpeculativeSlots, Speculative
  <2>3. /\ Lists(head_ptr_q, CommittedSlots, << >>)
        /\ Lists(head_ptr_q, SpeculativeSlots, << >>)
    BY <2>2 DEF Lists, Increasing
  <2>4. Contents(store_buffer_q, << >>) = << >>
    BY DEF Contents
  <2>5. << >> \in Seq(Idx)
    OBVIOUS
  <2>6. ViewFacts
    BY <2>1, Views
  <2>7. /\ StoresOf(CommittedSlots) = Contents(store_buffer_q, << >>)
        /\ StoresOf(SpeculativeSlots) = Contents(store_buffer_q, << >>)
    BY <2>3, <2>5, <2>6 DEF ViewFacts
  <2>8. written = << >>
    BY DEF Init
  <2> QED
    BY <2>4, <2>7, <2>8
<1>2. /\ TypeOK /\ TypeOK' /\ WindowInv /\ PendingInv /\ PendingInv' /\ Listed
      /\ [Next]_vars
      => [Stores!Next]_(Stores!vars)
  <2> SUFFICES ASSUME TypeOK, TypeOK', WindowInv, PendingInv, PendingInv', Listed, [Next]_vars
               PROVE  [Stores!Next]_(Stores!vars)
    OBVIOUS
  <2>1. ASSUME NEW in \in Inputs, Step(in)
        PROVE  Stores!Next
    <3>1. PICK w : Lists(head_ptr_q, CommittedSlots, w)
      BY DEF Listed
    <3> QED
      BY <2>1, <3>1, EdgeRefines
  <2>2. CASE UNCHANGED vars
    BY <2>2 DEF vars, Stores!vars, StoresOf, RingOrders, CommittedSlots,
                SpeculativeSlots, Speculative, Dist
  <2> QED
    BY <2>1, <2>2 DEF Next
<1> QED
  BY <1>1, <1>2, TypeCorrect, WindowCorrect, PendingCorrect, ListedCorrect, PTL
     DEF Spec, Stores!Spec, ImplementsStoreQueue
=============================================================================
