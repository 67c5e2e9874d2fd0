-------------------------------- MODULE ROB --------------------------------
(***************************************************************************)
(* The reorder buffer, rtl/datapath/wb/rob.sv.                             *)
(*                                                                         *)
(* The circuit is synchronous: one step of the model is one rising edge of *)
(* clk_i.  The operators named *_o are the combinational outputs, functions*)
(* of the registers (and, where the code makes them so, of the inputs of   *)
(* the same cycle); Clock(dec, wb) is the edge itself.  An edge does up to *)
(* three things at once, in the order of the always_comb block: decode     *)
(* allocates the tail entry, the write-back stage completes an entry, and  *)
(* the head entry commits.  A committing taken branch flushes the buffer.  *)
(*                                                                         *)
(* pc, instr and new_pc are payload that the buffer carries from input to  *)
(* output without looking at it.  kanata_id, which the code carries in     *)
(* each entry for its trace, identifies the instruction and stands for     *)
(* them here.                                                              *)
(***************************************************************************)
EXTENDS Integers, FiniteSets

CONSTANTS
  ROB_SIZE,  \* number of entries (16 in tartaruga_pkg.sv)
  Regs,      \* register addresses; 0 is the hardwired zero register
  Data,      \* values of result
  SBIdx,     \* values of store_buffer_idx
  Kinds,     \* the decoded instructions, as far as the buffer looks at them
  MaxId      \* bound of the model: ids 0 .. MaxId-1 are ever allocated

ASSUME ROBSizeAssumption == ROB_SIZE \in Nat /\ ROB_SIZE >= 2
ASSUME RegsAssumption    == Regs \subseteq Nat /\ 0 \in Regs
ASSUME DataAssumption    == 0 \in Data
ASSUME SBIdxAssumption   == SBIdx # {}
ASSUME KindsAssumption   ==
  Kinds \subseteq
    [addr_rd : Regs, write_enable : BOOLEAN, store_to_mem : BOOLEAN]
ASSUME MaxIdAssumption   == MaxId \in Nat

VARIABLES
  rob_q,             \* the entries
  head_ptr_q,        \* next entry to commit
  tail_ptr_q,        \* next entry to allocate
  kanata_id_counter  \* environment: id of the next instruction (fetch.sv)

vars == <<rob_q, head_ptr_q, tail_ptr_q, kanata_id_counter>>

Idx == 0 .. ROB_SIZE - 1

(* rob_entry_t, without the payload that kanata_id stands for. *)
Entry ==
  [valid : BOOLEAN, completed : BOOLEAN, addr_rd : Regs,
   write_enable : BOOLEAN, store_to_mem : BOOLEAN, result : Data,
   branch_taken : BOOLEAN, store_buffer_idx : SBIdx, kanata_id : Nat]

(* The signals from decode and from the write-back register. *)
DecodeInput ==
  [valid : BOOLEAN, addr_rd : Regs, write_enable : BOOLEAN,
   store_to_mem : BOOLEAN, kanata_id : Nat]
WbInput ==
  [valid : BOOLEAN, rob_idx : Idx, result : Data, branch_taken : BOOLEAN,
   store_buffer_idx : SBIdx]

(* Reset clears every field except store_buffer_idx, which is left as it   *)
(* powers up.                                                              *)
ResetEntry(s) ==
  [valid |-> FALSE, completed |-> FALSE, addr_rd |-> 0,
   write_enable |-> FALSE, store_to_mem |-> FALSE, result |-> 0,
   branch_taken |-> FALSE, store_buffer_idx |-> s, kanata_id |-> 0]

ResetFrom(s) ==
  /\ rob_q = [i \in Idx |-> ResetEntry(s[i])]
  /\ head_ptr_q = 0
  /\ tail_ptr_q = 0

Reset == \E s \in [Idx -> SBIdx] : ResetFrom(s)

Succ(i) == (i + 1) % ROB_SIZE

----------------------------------------------------------------------------
(* Outputs that depend on the registers only. *)

(* mutant of rob_full_o: the full test of store_buffer.sv. *)
FullAtTail == tail_ptr_q = head_ptr_q /\ rob_q[head_ptr_q].valid

rob_full_o == Succ(tail_ptr_q) = head_ptr_q /\ rob_q[head_ptr_q].valid

commit_valid_o == rob_q[head_ptr_q].valid /\ rob_q[head_ptr_q].completed

(* mutant of commit_branch_taken_o: completed is not looked at, so the bit *)
(* may be the one the previous occupant of the entry left behind.          *)
StaleBranchTaken == rob_q[head_ptr_q].valid /\ rob_q[head_ptr_q].branch_taken

commit_branch_taken_o == commit_valid_o /\ rob_q[head_ptr_q].branch_taken

(* mutant of Back: the search starts at the oldest entry. *)
Forward(k) == (tail_ptr_q + k) % ROB_SIZE

(* The search for the producer of register rs goes backwards from the last *)
(* allocated entry and stops before tail_ptr_q; the first match wins.      *)
Back(k) == (tail_ptr_q - k) % ROB_SIZE

Writes(i, rs) ==
  /\ rob_q[i].valid
  /\ rob_q[i].addr_rd = rs
  /\ rob_q[i].write_enable
  /\ rob_q[i].addr_rd # 0

hazard_o(rs) == \E k \in 1 .. ROB_SIZE - 1 : Writes(Back(k), rs)

rob_entry_o(rs) ==
  Back(CHOOSE k \in 1 .. ROB_SIZE - 1 :
         /\ Writes(Back(k), rs)
         /\ \A j \in 1 .. k - 1 : ~Writes(Back(j), rs))

----------------------------------------------------------------------------
(* The next value of the entries, built up as the always_comb block does.  *)

(* mutants of Fresh: a field of the previous occupant survives. *)
FreshKeepsId(e, dec) ==
  [e EXCEPT !.valid = TRUE, !.completed = FALSE, !.addr_rd = dec.addr_rd,
            !.write_enable = dec.write_enable,
            !.store_to_mem = dec.store_to_mem]
FreshKeepsCompleted(e, dec) ==
  [e EXCEPT !.valid = TRUE, !.addr_rd = dec.addr_rd,
            !.write_enable = dec.write_enable,
            !.store_to_mem = dec.store_to_mem, !.kanata_id = dec.kanata_id]

(* An entry given to a new instruction.  completed is cleared because the  *)
(* previous occupant may have been flushed after it completed; the fields  *)
(* that write-back fills keep their old values until then.                 *)
Fresh(e, dec) ==
  [e EXCEPT !.valid        = TRUE,
            !.completed    = FALSE,
            !.addr_rd      = dec.addr_rd,
            !.write_enable = dec.write_enable,
            !.store_to_mem = dec.store_to_mem,
            !.kanata_id    = dec.kanata_id]

Complete(e, wb) ==
  [e EXCEPT !.completed        = TRUE,
            !.result           = wb.result,
            !.branch_taken     = wb.branch_taken,
            !.store_buffer_idx = wb.store_buffer_idx]

Freed(e) == [e EXCEPT !.valid = FALSE]

Allocate(r, dec) ==
  IF dec.valid THEN [r EXCEPT ![tail_ptr_q] = Fresh(@, dec)] ELSE r

(* A write-back that meets a free entry is dropped. *)
Accepts(wb) == wb.valid /\ rob_q[wb.rob_idx].valid

WriteBack(r, wb) ==
  IF Accepts(wb) THEN [r EXCEPT ![wb.rob_idx] = Complete(@, wb)] ELSE r

Retire(r) == IF commit_valid_o THEN [r EXCEPT ![head_ptr_q] = Freed(@)] ELSE r

BeforeFlush(dec, wb) == Retire(WriteBack(Allocate(rob_q, dec), wb))

rob_d(dec, wb) ==
  LET r == BeforeFlush(dec, wb)
  IN  IF commit_branch_taken_o THEN [i \in Idx |-> Freed(r[i])] ELSE r

(* The store buffer slots to discard: those of the stores being flushed.   *)
discard_store_buffer_o(dec, wb) ==
  LET r == BeforeFlush(dec, wb)
  IN  {r[i].store_buffer_idx :
         i \in {j \in Idx : /\ commit_branch_taken_o
                            /\ r[j].valid /\ r[j].store_to_mem}}

still_alive_o(check_alive, dec, wb) == rob_d(dec, wb)[check_alive].valid

----------------------------------------------------------------------------
(* The clock edge, by what the head entry does. *)

AdvanceTail(dec) ==
  tail_ptr_q' = IF dec.valid THEN Succ(tail_ptr_q) ELSE tail_ptr_q

NoCommit(dec, wb) ==
  /\ ~commit_valid_o
  /\ rob_q' = rob_d(dec, wb)
  /\ AdvanceTail(dec)
  /\ UNCHANGED head_ptr_q

CommitHead(dec, wb) ==
  /\ commit_valid_o
  /\ ~commit_branch_taken_o
  /\ rob_q' = rob_d(dec, wb)
  /\ AdvanceTail(dec)
  /\ head_ptr_q' = Succ(head_ptr_q)

(* mutant of CommitTakenBranch: the flush forgets the tail pointer. *)
FlushKeepsTail(dec, wb) ==
  /\ commit_branch_taken_o
  /\ rob_q' = rob_d(dec, wb)
  /\ head_ptr_q' = 0
  /\ UNCHANGED tail_ptr_q

CommitTakenBranch(dec, wb) ==
  /\ commit_branch_taken_o
  /\ rob_q' = rob_d(dec, wb)
  /\ head_ptr_q' = 0
  /\ tail_ptr_q' = 0

Clock(dec, wb) ==
  NoCommit(dec, wb) \/ CommitHead(dec, wb) \/ CommitTakenBranch(dec, wb)

----------------------------------------------------------------------------
(* The buffer with its environment.  Decode never allocates while the      *)
(* buffer is full or a taken branch commits (datapath.sv: stall and        *)
(* decode_to_exe_d.valid).  The write-back register may name any entry: an *)
(* instruction that was flushed keeps travelling through the pipeline and  *)
(* writes back to an index that is free or has been reused.                *)

DecodeAllowed(dec) ==
  dec.valid => /\ ~rob_full_o
               /\ ~commit_branch_taken_o
               /\ dec.kanata_id = kanata_id_counter
               /\ kanata_id_counter < MaxId

(* A cycle without a valid input is represented by one value of the rest.  *)
NoDecode ==
  [valid |-> FALSE, addr_rd |-> 0, write_enable |-> FALSE,
   store_to_mem |-> FALSE, kanata_id |-> 0]

Decoded(kind, id) ==
  [valid |-> TRUE, addr_rd |-> kind.addr_rd,
   write_enable |-> kind.write_enable, store_to_mem |-> kind.store_to_mem,
   kanata_id |-> id]

DecodeInputs == {NoDecode} \cup {Decoded(k, kanata_id_counter) : k \in Kinds}

NoWb == [valid |-> FALSE, rob_idx |-> 0, result |-> 0, branch_taken |-> FALSE,
         store_buffer_idx |-> CHOOSE s \in SBIdx : TRUE]

WbInputs == {NoWb} \cup {wb \in WbInput : wb.valid}

Init ==
  /\ Reset
  /\ kanata_id_counter = 0

Step(dec, wb) ==
  /\ DecodeAllowed(dec)
  /\ Clock(dec, wb)
  /\ kanata_id_counter' =
       IF dec.valid THEN kanata_id_counter + 1 ELSE kanata_id_counter

Next == \E dec \in DecodeInputs, wb \in WbInputs : Step(dec, wb)

Spec == Init /\ [][Next]_vars

----------------------------------------------------------------------------
(* Properties. *)

(* The pointers stay inside the ring under the modular increment and the   *)
(* entries stay records of rob_entry_t.                                    *)
TypeOK ==
  /\ rob_q \in [Idx -> Entry]
  /\ head_ptr_q \in Idx
  /\ tail_ptr_q \in Idx
  /\ kanata_id_counter \in 0 .. MaxId

(* Slots from the head up to, not including, the tail, around the ring.    *)
InWindow(i) ==
  IF head_ptr_q <= tail_ptr_q
    THEN head_ptr_q <= i /\ i < tail_ptr_q
    ELSE head_ptr_q <= i \/ i < tail_ptr_q

(* The valid bits and the two pointers always tell the same story: the     *)
(* valid entries are exactly those between head_ptr_q and tail_ptr_q.  So  *)
(* an allocation never overwrites an instruction in flight, the buffer     *)
(* never holds ROB_SIZE instructions (head = tail always means empty), and *)
(* neither a wrap-around, a simultaneous allocation and commit, nor a      *)
(* flush leaves an entry stranded outside the window.                      *)
WindowInv == \A i \in Idx : rob_q[i].valid <=> InWindow(i)

(* Number of slots from the head to slot i, around the ring. *)
Dist(i) ==
  IF head_ptr_q <= i THEN i - head_ptr_q ELSE i - head_ptr_q + ROB_SIZE

(* Program order: walking the ring from the head meets the instructions in *)
(* the order in which decode delivered them.                               *)
AgeOrder ==
  /\ \A i \in Idx : rob_q[i].valid => rob_q[i].kanata_id < kanata_id_counter
  /\ \A i, j \in Idx :
       (rob_q[i].valid /\ rob_q[j].valid /\ Dist(i) < Dist(j))
         => rob_q[i].kanata_id < rob_q[j].kanata_id

(* rob_full_o is raised exactly when ROB_SIZE - 1 entries are in use: not  *)
(* later, which would let decode overwrite the head, and not earlier.      *)
FullIsExact ==
  rob_full_o <=> Cardinality({i \in Idx : rob_q[i].valid}) = ROB_SIZE - 1

(* Hazard detection finds the youngest instruction in flight that writes   *)
(* the register (the one with the greatest id), and reports no hazard only *)
(* when no instruction in flight writes it.                                *)
HazardIsYoungestWriter ==
  \A rs \in Regs :
    LET W == {i \in Idx : Writes(i, rs)}
    IN  /\ hazard_o(rs) <=> W # {}
        /\ hazard_o(rs) =>
             /\ rob_entry_o(rs) \in W
             /\ \A i \in W :
                  rob_q[i].kanata_id <= rob_q[rob_entry_o(rs)].kanata_id

(* In-order commit: when an instruction commits, everything that stays or  *)
(* enters the buffer in that cycle is younger, so the sequence of commits  *)
(* follows program order; and what a cycle removes from the buffer is      *)
(* either the committed head or, behind a taken branch, younger than it.   *)
InOrderStep ==
  /\ commit_valid_o =>
       \A i \in Idx :
         rob_q'[i].valid => rob_q'[i].kanata_id > rob_q[head_ptr_q].kanata_id
  /\ \A i \in Idx :
       (rob_q[i].valid /\ ~rob_q'[i].valid) =>
         \/ i = head_ptr_q /\ commit_valid_o
         \/ /\ commit_branch_taken_o
            /\ rob_q[i].kanata_id > rob_q[head_ptr_q].kanata_id

(* Every step of the buffer retires in order. *)
InOrderCommit == [][InOrderStep]_vars

----------------------------------------------------------------------------
(* What the buffer promises to the rest of the core, InstrQueue, and the   *)
(* mapping under which it keeps the promise: the queue is the window read  *)
(* from the head.  branch_taken is meaningful once completed is set.       *)

Count ==
  IF head_ptr_q <= tail_ptr_q
    THEN tail_ptr_q - head_ptr_q
    ELSE tail_ptr_q - head_ptr_q + ROB_SIZE

QueueView ==
  [k \in 1 .. Count |->
     LET e == rob_q[(head_ptr_q + k - 1) % ROB_SIZE]
     IN  [id |-> e.kanata_id, completed |-> e.completed,
          taken |-> e.completed /\ e.branch_taken]]

Queue == INSTANCE InstrQueue
           WITH queue <- QueueView, next_id <- kanata_id_counter,
                Capacity <- ROB_SIZE - 1

(* The ring of valid bits and pointers implements a bounded FIFO queue     *)
(* that retires completed heads and is emptied by a taken branch.          *)
ImplementsInstrQueue == Queue!Spec
=============================================================================
