---------------------------- MODULE StoreBuffer ----------------------------
(***************************************************************************)
(* The store buffer, rtl/datapath/mem/store_buffer.sv.                     *)
(*                                                                         *)
(* A ring of slots.  A store takes the tail slot when it passes the memory *)
(* stage, before it commits; the reorder buffer later marks the slot as    *)
(* committed, or as discarded when a taken branch flushes the store.  The  *)
(* head slot is written to the data cache once committed and dropped once  *)
(* discarded.  One step is one rising edge of clk_i.                       *)
(*                                                                         *)
(* The inputs of a cycle are one record:                                   *)
(*   req, addr, data    a store that asks for the tail slot                *)
(*   rsp_ready          the data cache accepts what addr_o, data_wr_o say  *)
(*   commit, idx_commit the slot that commits                              *)
(*   discard            the slots of the flushed stores                    *)
(***************************************************************************)
EXTENDS Integers, Sequences

CONSTANTS
  STORE_BUFFER_SIZE,  \* number of slots (4 in tartaruga_pkg.sv)
  Addr, Data          \* addresses and values of stores

ASSUME SBSizeAssumption == STORE_BUFFER_SIZE \in Nat /\ STORE_BUFFER_SIZE >= 2
ASSUME AddrAssumption   == 0 \in Addr
ASSUME SBDataAssumption == 0 \in Data

VARIABLES
  store_buffer_q,
  head_ptr_q,  \* oldest slot
  tail_ptr_q,  \* next slot to take
  pending,     \* environment: the slots of the stores that are in flight in
               \* the reorder buffer, in program order (store_buffer_idx)
  written      \* environment: the stores the data cache took in this cycle,
               \* one or none

vars == <<store_buffer_q, head_ptr_q, tail_ptr_q, pending, written>>

Idx == 0 .. STORE_BUFFER_SIZE - 1

Entry == [data : Data, addr : Addr, valid : BOOLEAN, committed : BOOLEAN,
          discarded : BOOLEAN]

Input == [req : BOOLEAN, addr : Addr, data : Data, rsp_ready : BOOLEAN,
          commit : BOOLEAN, idx_commit : Idx, discard : SUBSET Idx]

ResetEntry == [data |-> 0, addr |-> 0, valid |-> FALSE, committed |-> FALSE,
               discarded |-> FALSE]

Reset ==
  /\ store_buffer_q = [i \in Idx |-> ResetEntry]
  /\ head_ptr_q = 0
  /\ tail_ptr_q = 0

Succ(i) == (i + 1) % STORE_BUFFER_SIZE

----------------------------------------------------------------------------
(* Outputs. *)

AlwaysReady == TRUE  \* mutant of req_ready_o: the full test is missing

req_ready_o ==
  ~(tail_ptr_q = head_ptr_q /\ store_buffer_q[head_ptr_q].valid)

(* mutant of store_buffer_idx_o: the next tail is reported. *)
ReportsNextTail == Succ(tail_ptr_q)

store_buffer_idx_o == tail_ptr_q

(* The head slot is offered to the data cache; committed goes before       *)
(* discarded.                                                              *)
rsp_valid_o ==
  store_buffer_q[head_ptr_q].valid /\ store_buffer_q[head_ptr_q].committed

addr_o == IF rsp_valid_o THEN store_buffer_q[head_ptr_q].addr ELSE 0
data_wr_o == IF rsp_valid_o THEN store_buffer_q[head_ptr_q].data ELSE 0

(* mutant of DropsHead: a discard bit wins over the committed bit. *)
DropsCommitted ==
  store_buffer_q[head_ptr_q].valid /\ store_buffer_q[head_ptr_q].discarded

NeverDrops == FALSE  \* mutant of DropsHead: discarded slots are kept

DropsHead ==
  /\ store_buffer_q[head_ptr_q].valid
  /\ ~store_buffer_q[head_ptr_q].committed
  /\ store_buffer_q[head_ptr_q].discarded

(* mutant of Back: the search starts at the oldest slot. *)
Forward(k) == (tail_ptr_q + k) % STORE_BUFFER_SIZE

(* The search for a load's address goes backwards from the last slot taken *)
(* and stops before tail_ptr_q.                                            *)
Back(k) == (tail_ptr_q - k) % STORE_BUFFER_SIZE

Matches(i, addr) == store_buffer_q[i].valid /\ store_buffer_q[i].addr = addr

bypass_o(addr) == \E k \in 1 .. STORE_BUFFER_SIZE - 1 : Matches(Back(k), addr)

bypass_slot(addr) ==
  Back(CHOOSE k \in 1 .. STORE_BUFFER_SIZE - 1 :
         /\ Matches(Back(k), addr)
         /\ \A j \in 1 .. k - 1 : ~Matches(Back(j), addr))

data_rd_o(addr) ==
  IF bypass_o(addr) THEN store_buffer_q[bypass_slot(addr)].data ELSE 0

----------------------------------------------------------------------------
(* The next state, in the order of the always_comb block. *)

Accepts(in) == in.req /\ req_ready_o

Accept(q, in) ==
  IF Accepts(in)
    THEN [q EXCEPT ![tail_ptr_q] =
            [data |-> in.data, addr |-> in.addr, valid |-> TRUE,
             committed |-> FALSE, discarded |-> FALSE]]
    ELSE q

(* The head slot is freed when the data cache takes it or it was discarded.*)
FreesHead(in) == (rsp_valid_o /\ in.rsp_ready) \/ DropsHead

Free(q, in) ==
  IF FreesHead(in) THEN [q EXCEPT ![head_ptr_q].valid = FALSE] ELSE q

MarkCommitted(q, in) ==
  IF in.commit THEN [q EXCEPT ![in.idx_commit].committed = TRUE] ELSE q

MarkDiscarded(q, in) ==
  [i \in Idx |->
     IF i \in in.discard THEN [q[i] EXCEPT !.discarded = TRUE] ELSE q[i]]

store_buffer_d(in) ==
  MarkDiscarded(MarkCommitted(Free(Accept(store_buffer_q, in), in), in), in)

Clock(in) ==
  /\ store_buffer_q' = store_buffer_d(in)
  /\ head_ptr_q' = IF FreesHead(in) THEN Succ(head_ptr_q) ELSE head_ptr_q
  /\ tail_ptr_q' = IF Accepts(in) THEN Succ(tail_ptr_q) ELSE tail_ptr_q

----------------------------------------------------------------------------
(* The buffer with its environment.  The reorder buffer commits the stores *)
(* in flight oldest first.  When a taken branch commits it flushes them    *)
(* all; no store commits or passes the memory stage in that cycle (mem.sv: *)
(* still_alive_i is low), and the discard bits cover every store in flight *)
(* but may also name other slots: a flushed store that has not written     *)
(* back yet carries the slot number its entry last held (rob.sv 143).      *)

Taken(in) == IF Accepts(in) THEN <<store_buffer_idx_o>> ELSE <<>>

CacheTakes(in) ==
  written' = IF rsp_valid_o /\ in.rsp_ready
               THEN <<[addr |-> addr_o, data |-> data_wr_o]>> ELSE <<>>

NoRetire(in) ==
  /\ ~in.commit /\ in.discard = {}
  /\ Clock(in) /\ CacheTakes(in)
  /\ pending' = pending \o Taken(in)

CommitOldest(in) ==
  /\ in.commit /\ in.discard = {}
  /\ pending # <<>> /\ in.idx_commit = Head(pending)
  /\ Clock(in) /\ CacheTakes(in)
  /\ pending' = Tail(pending) \o Taken(in)

FlushAll(in) ==
  /\ ~in.commit /\ ~in.req
  /\ \A k \in 1 .. Len(pending) : pending[k] \in in.discard
  /\ Clock(in) /\ CacheTakes(in)
  /\ pending' = <<>>

Step(in) == NoRetire(in) \/ CommitOldest(in) \/ FlushAll(in)

(* The inputs of a cycle; what a low valid signal leaves undefined is 0.   *)
Inputs ==
  {in \in Input :
     /\ ~in.req => in.addr = 0 /\ in.data = 0
     /\ ~in.commit => in.idx_commit = 0
     /\ in.discard # {} => ~in.req /\ ~in.commit}

Init == Reset /\ pending = <<>> /\ written = <<>>

Next == \E in \in Inputs : Step(in)

(* The data cache answers every request sooner or later. *)
ReadyCycle == \E in \in {x \in Inputs : x.rsp_ready} : Step(in)

Spec == Init /\ [][Next]_vars
FairSpec == Spec /\ WF_vars(ReadyCycle)

----------------------------------------------------------------------------
(* Properties. *)

(* The pointers stay inside the ring, the slots stay entries, and the slot *)
(* numbers given to the reorder buffer are slots of the buffer.            *)
TypeOK ==
  /\ store_buffer_q \in [Idx -> Entry]
  /\ head_ptr_q \in Idx
  /\ tail_ptr_q \in Idx
  /\ pending \in Seq(Idx)
  /\ written \in {<<>>} \cup {<<s>> : s \in [addr : Addr, data : Data]}

(* Number of slots from the head to slot i, around the ring. *)
Dist(i) ==
  IF head_ptr_q <= i THEN i - head_ptr_q ELSE i - head_ptr_q + STORE_BUFFER_SIZE

(* Slots in use: equal pointers mean empty or full, and the head tells.    *)
Count ==
  IF head_ptr_q = tail_ptr_q
    THEN IF store_buffer_q[head_ptr_q].valid THEN STORE_BUFFER_SIZE ELSE 0
    ELSE Dist(tail_ptr_q)

(* The valid slots are exactly those from the head to the tail: a new      *)
(* store never overwrites one that waits, and the freed head never leaves  *)
(* a hole, whether the buffer is empty, full, or takes and frees a slot in *)
(* the same cycle.                                                         *)
WindowInv == \A i \in Idx : store_buffer_q[i].valid <=> Dist(i) < Count

Speculative(i) ==
  /\ store_buffer_q[i].valid
  /\ ~store_buffer_q[i].committed
  /\ ~store_buffer_q[i].discarded

(* The slot numbers the reorder buffer holds for its stores in flight name *)
(* exactly the slots whose fate is open, in ring order, and every other    *)
(* store in the buffer is older: a slot is never recycled under a store    *)
(* that still has to commit, and no undecided store can block a committed  *)
(* one.                                                                    *)
PendingInv ==
  /\ \A i \in Idx : Speculative(i) <=> \E k \in 1 .. Len(pending) : pending[k] = i
  /\ \A j, k \in 1 .. Len(pending) : j < k => Dist(pending[j]) < Dist(pending[k])
  /\ \A i, j \in Idx :
       (store_buffer_q[i].valid /\ ~Speculative(i) /\ Speculative(j))
         => Dist(i) < Dist(j)

(* While a slot is free, a load is given the value of the youngest store   *)
(* in the buffer with its address, and goes to the data cache only when no *)
(* store in the buffer has it.                                             *)
BypassYoungest ==
  req_ready_o =>
    \A a \in Addr :
      /\ bypass_o(a) <=> \E i \in Idx : Matches(i, a)
      /\ bypass_o(a) =>
           \E i \in Idx :
             /\ Matches(i, a)
             /\ data_rd_o(a) = store_buffer_q[i].data
             /\ \A j \in Idx : Matches(j, a) => Dist(j) <= Dist(i)

(* A slot whose store has committed or was discarded becomes free again,   *)
(* so the buffer never stays full of decided stores: the head does not     *)
(* stand still on a decided slot for ever.                                 *)
Decided(i) == store_buffer_q[i].committed \/ store_buffer_q[i].discarded

DecidedLeaves ==
  \/ []<>~(store_buffer_q[head_ptr_q].valid /\ Decided(head_ptr_q))
  \/ []<><<head_ptr_q' # head_ptr_q>>_vars

----------------------------------------------------------------------------
(* The buffer implements StoreQueue: the queues are the committed and the  *)
(* speculative slots read in ring order.  Discarded slots are in neither.  *)

(* The sequences that list a set of slots in ring order; there is one.     *)
RingOrders(S) ==
  {w \in UNION {[1 .. n -> S] : n \in 0 .. STORE_BUFFER_SIZE} :
     /\ \A i \in S : \E k \in DOMAIN w : w[k] = i
     /\ \A j, k \in DOMAIN w : j < k => Dist(w[j]) < Dist(w[k])}

StoresOf(S) ==
  LET w == CHOOSE w \in RingOrders(S) : TRUE
  IN  [k \in DOMAIN w |-> [addr |-> store_buffer_q[w[k]].addr,
                           data |-> store_buffer_q[w[k]].data]]

CommittedSlots ==
  {i \in Idx : store_buffer_q[i].valid /\ store_buffer_q[i].committed}
SpeculativeSlots == {i \in Idx : Speculative(i)}

Stores == INSTANCE StoreQueue
            WITH committed <- StoresOf(CommittedSlots),
                 speculative <- StoresOf(SpeculativeSlots),
                 Stores <- [addr : Addr, data : Data],
                 Capacity <- STORE_BUFFER_SIZE

(* Memory receives the committed stores and no other, once each and in     *)
(* program order, whatever the cache's delays and the flushes.             *)
ImplementsStoreQueue == Stores!Spec
=============================================================================
