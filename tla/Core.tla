-------------------------------- MODULE Core --------------------------------
(***************************************************************************)
(* The pipeline of rtl/datapath/datapath.sv: decode, execute (exe.sv, with *)
(* the delay line of mul.sv), the control of the memory stage (mem.sv),    *)
(* write-back and the register file (regfile.sv), composed with the        *)
(* reorder buffer (ROB) and the store buffer (StoreBuffer).  One step is   *)
(* one rising edge of clk_i; every register of every part changes in it.   *)
(*                                                                         *)
(* Values.  The program is arbitrary: each cycle the fetch stage may       *)
(* deliver any instruction of Instrs, whose branch outcome and address are *)
(* part of the choice.  The result of an instruction is Value(its id), and *)
(* 0 is any value that is no instruction's result (a reset register, an    *)
(* address, a jump target).  So a wrong value anywhere is the value of the *)
(* wrong instruction.                                                      *)
(*                                                                         *)
(* The caches appear as two inputs of the cycle, the fetch stage's valid_o *)
(* and the data cache's ready_o, each of which may be low for any number   *)
(* of cycles.                                                              *)
(***************************************************************************)
EXTENDS Integers, Sequences

CONSTANTS
  ROB_SIZE, STORE_BUFFER_SIZE,
  REG_COUNT,        \* registers (32 in riscv_pkg.sv)
  EXE_STAGES_MULT,  \* cycles of a multiplication in execute (5)
  Addr,             \* data addresses
  Instrs,           \* the decoded instructions the program may contain
  MaxId             \* bound of the model: instructions fetched

Regs == 0 .. REG_COUNT - 1

(* What the decoder tells of an instruction.  srcs are the source          *)
(* registers that are looked up; jump is jump_kind # BNONE; taken and addr *)
(* are the outcome and the address it will compute.                        *)
Instr ==
  [srcs : SUBSET Regs, addr_rd : Regs, write_enable : BOOLEAN,
   wb_origin : {"ALU", "MEM", "PC_4"}, store_to_mem : BOOLEAN,
   jump : BOOLEAN, taken : BOOLEAN, is_mul : BOOLEAN, addr : Addr]

ASSUME CoreSizeAssumption ==
  /\ ROB_SIZE \in Nat /\ ROB_SIZE >= 2
  /\ STORE_BUFFER_SIZE \in Nat /\ STORE_BUFFER_SIZE >= 2
  /\ REG_COUNT \in Nat /\ REG_COUNT >= 2
  /\ EXE_STAGES_MULT \in Nat /\ EXE_STAGES_MULT >= 2
  /\ MaxId \in Nat
ASSUME CoreAddrAssumption == 0 \in Addr

(* The instructions that decoder.sv can make of a word and branch.sv can   *)
(* give an outcome.                                                        *)
Decodable ==
  {i \in Instr :
     /\ i.taken => i.jump
     /\ i.jump => i.wb_origin # "MEM" /\ ~i.store_to_mem /\ ~i.is_mul
     /\ i.wb_origin = "PC_4" => i.taken
     /\ i.store_to_mem => i.wb_origin = "ALU" /\ ~i.write_enable /\ ~i.is_mul
     /\ i.is_mul => i.wb_origin = "ALU"}
ASSUME InstrsAssumption == Instrs \subseteq Decodable

VARIABLES
  kanata_id_counter,                         \* fetch.sv
  decode_q,                                  \* instruction_q, valid_decode, id_decode
  decode_to_exe_q, exe_to_mem_q, mem_to_wb_q,
  exe_pipe_q,                                \* exe.sv, without its unused last stage
  delay,                                     \* mul.sv
  registers_q,                               \* regfile.sv
  rob_q, rob_head_ptr_q, rob_tail_ptr_q,     \* rob.sv
  store_buffer_q, sb_head_ptr_q, sb_tail_ptr_q,  \* store_buffer.sv
  last_writer,  \* history: the last committed value of every register
  shadow_id,    \* history: the oldest taken branch in flight, MaxId if none
  path_id,      \* history: the first instruction of the current path
  clean,        \* history: FALSE once an entry has been reused too early
  dropped       \* history: TRUE once a multiplication has been dropped

rob_vars == <<rob_q, rob_head_ptr_q, rob_tail_ptr_q>>
sb_vars  == <<store_buffer_q, sb_head_ptr_q, sb_tail_ptr_q>>
vars ==
  <<kanata_id_counter, decode_q, decode_to_exe_q, exe_to_mem_q, mem_to_wb_q,
    exe_pipe_q, delay, registers_q, rob_vars, sb_vars, last_writer, shadow_id, path_id,
    clean, dropped>>

MAX_EXE_STAGES == EXE_STAGES_MULT
Value(id) == id + 1

RB == INSTANCE ROB
        WITH head_ptr_q <- rob_head_ptr_q, tail_ptr_q <- rob_tail_ptr_q,
             Data <- Nat, SBIdx <- 0 .. STORE_BUFFER_SIZE - 1, Kinds <- {}

SB == INSTANCE StoreBuffer
        WITH head_ptr_q <- sb_head_ptr_q, tail_ptr_q <- sb_tail_ptr_q,
             Data <- Nat, pending <- <<>>, written <- <<>>

----------------------------------------------------------------------------
(* Pipeline registers. *)

NopInstr ==
  [srcs |-> {}, addr_rd |-> 0, write_enable |-> FALSE, wb_origin |-> "ALU",
   store_to_mem |-> FALSE, jump |-> FALSE, taken |-> FALSE, is_mul |-> FALSE,
   addr |-> 0]

NOP_INSTR == [valid |-> FALSE, instr |-> NopInstr, rob_idx |-> 0, kanata_id |-> 0]

NoDecode == [valid |-> FALSE, instr |-> NopInstr, kanata_id |-> 0]

(* exe_to_mem_t and mem_to_wb_t add fields to the instruction that moves.  *)
ToMem(op, result, taken) ==
  [valid |-> op.valid, instr |-> op.instr, rob_idx |-> op.rob_idx,
   kanata_id |-> op.kanata_id, result |-> result, branch_taken |-> taken]

ToWb(op, valid, result, slot) ==
  [valid |-> valid, instr |-> op.instr, rob_idx |-> op.rob_idx,
   kanata_id |-> op.kanata_id, result |-> result,
   branch_taken |-> op.branch_taken, store_buffer_idx |-> slot]

----------------------------------------------------------------------------
(* Execute.  The metadata pipe shifts every cycle; the instruction in      *)
(* decode_to_exe_q enters it as many stages before the end as it takes     *)
(* cycles, unless the stage is occupied.                                   *)

Shifted(i) == IF i = 0 THEN NOP_INSTR ELSE exe_pipe_q[i - 1]

EntryStage ==
  IF decode_to_exe_q.instr.is_mul THEN 0 ELSE MAX_EXE_STAGES - 1

NoCollisionStall == FALSE
stall_from_exe == Shifted(EntryStage).valid

exe_pipe_d(i) ==
  IF i = EntryStage /\ ~stall_from_exe THEN decode_to_exe_q ELSE Shifted(i)

(* Only wb_origin ALU takes its result from the ALU; for the others it     *)
(* computes an address or a jump target.                                   *)
res_alu ==
  IF decode_to_exe_q.valid /\ decode_to_exe_q.instr.wb_origin = "ALU"
    THEN Value(decode_to_exe_q.kanata_id) ELSE 0

product ==
  IF decode_to_exe_q.valid /\ decode_to_exe_q.instr.is_mul
    THEN Value(decode_to_exe_q.kanata_id) ELSE 0

res_mul == delay[EXE_STAGES_MULT - 2]

exe_to_mem_d ==
  LET out == exe_pipe_d(MAX_EXE_STAGES - 1)
  IN  ToMem(out, IF out.instr.is_mul THEN res_mul ELSE res_alu,
            decode_to_exe_q.instr.taken /\ out.instr.jump /\ out.valid)

Execute(stalled_by_mem) ==
  /\ exe_pipe_q' = [i \in 0 .. MAX_EXE_STAGES - 2 |-> exe_pipe_d(i)]
  /\ delay' = [i \in 0 .. EXE_STAGES_MULT - 2 |->
                 IF i = 0 THEN product ELSE delay[i - 1]]
  /\ exe_to_mem_q' = IF stalled_by_mem THEN exe_to_mem_q ELSE exe_to_mem_d

----------------------------------------------------------------------------
(* Memory stage.  ready is the data cache's ready_o. *)

is_load  == exe_to_mem_q.valid /\ exe_to_mem_q.instr.wb_origin = "MEM"
is_store == exe_to_mem_q.valid /\ exe_to_mem_q.instr.store_to_mem

bypass_from_sb == SB!bypass_o(exe_to_mem_q.instr.addr)

is_collision == is_load /\ SB!rsp_valid_o /\ ~bypass_from_sb

stall_from_mem(ready) ==
  \/ is_load /\ ~ready
  \/ is_collision
  \/ is_store /\ ~SB!req_ready_o

StoreAlwaysValid(ready) ==
  \/ exe_to_mem_q.valid /\ ~is_load
  \/ is_load /\ (bypass_from_sb \/ (ready /\ ~is_collision))
OnlyAccessesValid(ready) ==
  \/ is_store /\ SB!req_ready_o
  \/ is_load /\ (bypass_from_sb \/ (ready /\ ~is_collision))
mem_valid(ready) ==
  \/ exe_to_mem_q.valid /\ ~is_load /\ ~is_store
  \/ is_store /\ SB!req_ready_o
  \/ is_load /\ (bypass_from_sb \/ (ready /\ ~is_collision))

(* A load obtains its own value here: whether it is the right one is the   *)
(* matter of LoadSeesYoungestStore.  A link register value is pc + 4.      *)
mem_result ==
  IF exe_to_mem_q.instr.wb_origin = "ALU"
    THEN exe_to_mem_q.result ELSE Value(exe_to_mem_q.kanata_id)

mem_to_wb_d(ready) ==
  ToWb(exe_to_mem_q, mem_valid(ready), mem_result, SB!store_buffer_idx_o)

----------------------------------------------------------------------------
(* Decode: operands from the register file, a completed entry of the       *)
(* reorder buffer, or the instruction that leaves execute or memory now.   *)

ExeMatchIgnoresValid(i) ==
  exe_to_mem_d.rob_idx = i /\ exe_to_mem_d.instr.wb_origin # "MEM"
FromExe(i) ==
  /\ exe_to_mem_d.valid
  /\ exe_to_mem_d.rob_idx = i
  /\ exe_to_mem_d.instr.wb_origin # "MEM"

FromMem(i, ready) == mem_to_wb_d(ready).valid /\ exe_to_mem_q.rob_idx = i

Solved(rs, ready) ==
  RB!hazard_o(rs) => LET i == RB!rob_entry_o(rs)
                     IN  rob_q[i].completed \/ FromExe(i) \/ FromMem(i, ready)

Operand(rs, ready) ==
  LET i == RB!rob_entry_o(rs)
  IN  CASE ~RB!hazard_o(rs)   -> registers_q[rs]
        [] RB!hazard_o(rs) /\ rob_q[i].completed -> rob_q[i].result
        [] RB!hazard_o(rs) /\ ~rob_q[i].completed /\ FromExe(i) ->
             exe_to_mem_d.result
        [] OTHER -> mem_result

stall(fetched, ready) ==
  \/ \E rs \in decode_q.instr.srcs : ~Solved(rs, ready)
  \/ stall_from_exe
  \/ ~fetched
  \/ RB!rob_full_o
  \/ stall_from_mem(ready)

NextFetch(stalled) ==
  kanata_id_counter' =
    IF stalled \/ RB!commit_branch_taken_o
      THEN kanata_id_counter ELSE kanata_id_counter + 1

DecodeNotFlushed(stalled, instr) ==
  decode_q' =
    IF stalled \/ RB!commit_branch_taken_o THEN decode_q
      ELSE [valid |-> TRUE, instr |-> instr, kanata_id |-> kanata_id_counter]
NextDecode(stalled, instr) ==
  decode_q' =
    CASE RB!commit_branch_taken_o -> NoDecode
      [] ~RB!commit_branch_taken_o /\ stalled -> decode_q
      [] OTHER -> [valid |-> TRUE, instr |-> instr,
                   kanata_id |-> kanata_id_counter]

(* held: execute or memory stalls; dec is what decode offers to the        *)
(* reorder buffer.                                                         *)
NextExe(stalled, held, dec) ==
  decode_to_exe_q' =
    CASE ~stalled -> [valid |-> dec.valid, instr |-> decode_q.instr,
                      rob_idx |-> rob_tail_ptr_q,
                      kanata_id |-> decode_q.kanata_id]
      [] stalled /\ ~held -> NOP_INSTR
      [] OTHER -> decode_to_exe_q

----------------------------------------------------------------------------
(* The two buffers and the register file. *)

RobDecode(stalled) ==
  [valid        |-> ~stalled /\ decode_q.valid /\ ~RB!commit_branch_taken_o,
   addr_rd      |-> decode_q.instr.addr_rd,
   write_enable |-> decode_q.instr.write_enable,
   store_to_mem |-> decode_q.instr.store_to_mem,
   kanata_id    |-> decode_q.kanata_id]

RobWb ==
  [valid            |-> mem_to_wb_q.valid,
   rob_idx          |-> mem_to_wb_q.rob_idx,
   result           |-> mem_to_wb_q.result,
   branch_taken     |-> mem_to_wb_q.branch_taken,
   store_buffer_idx |-> mem_to_wb_q.store_buffer_idx]

SbInput(dec, ready) ==
  LET head == rob_q[rob_head_ptr_q]
  IN  [req        |-> is_store /\ RB!still_alive_o(exe_to_mem_q.rob_idx, dec, RobWb),
       addr       |-> exe_to_mem_q.instr.addr,
       data       |-> Value(exe_to_mem_q.kanata_id),
       rsp_ready  |-> ready,
       commit     |-> RB!commit_valid_o /\ head.store_to_mem,
       idx_commit |-> IF RB!commit_valid_o THEN head.store_buffer_idx ELSE 0,
       discard    |-> RB!discard_store_buffer_o(dec, RobWb)]

CommitWrites(r) ==
  /\ RB!commit_valid_o
  /\ rob_q[rob_head_ptr_q].write_enable
  /\ rob_q[rob_head_ptr_q].addr_rd = r

(* The loop of regfile.sv covers registers 1 to REG_COUNT - 2. *)
WriteRegisters ==
  registers_q' =
    [r \in Regs |->
       IF r \in 1 .. REG_COUNT - 2 /\ CommitWrites(r)
         THEN rob_q[rob_head_ptr_q].result ELSE registers_q[r]]

----------------------------------------------------------------------------
(* History variables. *)

(* An instruction is on its way to an entry of the reorder buffer that is  *)
(* another instruction's by now.                                           *)
NamesOther(op) ==
  op.valid /\ rob_q[op.rob_idx].valid /\ rob_q[op.rob_idx].kanata_id # op.kanata_id

EntryReused ==
  \/ NamesOther(decode_to_exe_q) \/ NamesOther(exe_to_mem_q) \/ NamesOther(mem_to_wb_q)
  \/ \E k \in 0 .. MAX_EXE_STAGES - 2 : NamesOther(exe_pipe_q[k])

(* A multiplication leaves execute while the memory stage stalls.          *)
DropsMul(stalled_by_mem) == stalled_by_mem /\ exe_pipe_q[MAX_EXE_STAGES - 2].valid

History(dec, stalled_by_mem) ==
  /\ last_writer' =
       [r \in Regs |-> IF r # 0 /\ CommitWrites(r)
                         THEN Value(rob_q[rob_head_ptr_q].kanata_id)
                         ELSE last_writer[r]]
  /\ shadow_id' =
       CASE RB!commit_branch_taken_o -> MaxId
         [] ~RB!commit_branch_taken_o /\ dec.valid /\ decode_q.instr.taken
              /\ shadow_id = MaxId -> decode_q.kanata_id
         [] OTHER -> shadow_id
  /\ path_id' = IF RB!commit_branch_taken_o THEN kanata_id_counter ELSE path_id
  /\ clean' = (clean /\ ~EntryReused')
  /\ dropped' = (dropped \/ DropsMul(stalled_by_mem))

----------------------------------------------------------------------------

(* The last register of the register file and store_buffer_idx have no     *)
(* reset value; the Verilator build starts them at 0.                      *)
Init ==
  /\ kanata_id_counter = 0
  /\ decode_q = NoDecode
  /\ decode_to_exe_q = NOP_INSTR
  /\ exe_to_mem_q = ToMem(NOP_INSTR, 0, FALSE)
  /\ mem_to_wb_q = ToWb(ToMem(NOP_INSTR, 0, FALSE), FALSE, 0, 0)
  /\ exe_pipe_q = [i \in 0 .. MAX_EXE_STAGES - 2 |-> NOP_INSTR]
  /\ delay = [i \in 0 .. EXE_STAGES_MULT - 2 |-> 0]
  /\ registers_q = [r \in Regs |-> 0]
  /\ RB!ResetFrom([i \in RB!Idx |-> 0])
  /\ SB!Reset
  /\ last_writer = registers_q
  /\ shadow_id = MaxId
  /\ path_id = 0
  /\ clean = TRUE
  /\ dropped = FALSE

Cycle(fetched, instr, ready) ==
  /\ fetched => kanata_id_counter < MaxId
  /\ LET mem_stalled == stall_from_mem(ready)
         stalled     == stall(fetched, ready)
         dec         == RobDecode(stalled)
     IN  /\ NextFetch(stalled)
         /\ NextDecode(stalled, instr)
         /\ NextExe(stalled, stall_from_exe \/ mem_stalled, dec)
         /\ Execute(mem_stalled)
         /\ mem_to_wb_q' = mem_to_wb_d(ready)
         /\ RB!Clock(dec, RobWb)
         /\ SB!Clock(SbInput(dec, ready))
         /\ WriteRegisters
         /\ History(dec, mem_stalled)

Next ==
  \E ready \in BOOLEAN :
    \/ Cycle(FALSE, NopInstr, ready)
    \/ \E instr \in Instrs : Cycle(TRUE, instr, ready)

Spec == Init /\ [][Next]_vars

----------------------------------------------------------------------------
(* Properties. *)

(* The registers keep their types: an entry number is one of the ring, in  *)
(* whichever stage it travels, and an instruction one of the program.      *)
AnyInstr == Instrs \cup {NopInstr}
Ids      == 0 .. MaxId

Op    == [valid : BOOLEAN, instr : AnyInstr, rob_idx : RB!Idx, kanata_id : Ids]
MemOp == [valid : BOOLEAN, instr : AnyInstr, rob_idx : RB!Idx, kanata_id : Ids,
          result : Nat, branch_taken : BOOLEAN]
WbOp  == [valid : BOOLEAN, instr : AnyInstr, rob_idx : RB!Idx, kanata_id : Ids,
          result : Nat, branch_taken : BOOLEAN, store_buffer_idx : SB!Idx]

TypeOK ==
  /\ kanata_id_counter \in Ids
  /\ decode_q \in [valid : BOOLEAN, instr : AnyInstr, kanata_id : Ids]
  /\ decode_to_exe_q \in Op
  /\ exe_pipe_q \in [0 .. MAX_EXE_STAGES - 2 -> Op]
  /\ exe_to_mem_q \in MemOp
  /\ mem_to_wb_q \in WbOp
  /\ delay \in [0 .. EXE_STAGES_MULT - 2 -> Nat]
  /\ registers_q \in [Regs -> Nat]
  /\ rob_q \in [RB!Idx -> RB!Entry]
  /\ rob_head_ptr_q \in RB!Idx /\ rob_tail_ptr_q \in RB!Idx
  /\ store_buffer_q \in [SB!Idx -> SB!Entry]
  /\ sb_head_ptr_q \in SB!Idx /\ sb_tail_ptr_q \in SB!Idx
  /\ last_writer \in [Regs -> Nat]
  /\ shadow_id \in Ids /\ path_id \in Ids
  /\ clean \in BOOLEAN /\ dropped \in BOOLEAN

(* The instruction was fetched behind a taken branch: one that has not     *)
(* committed yet, or one that has and should have flushed it.              *)
Doomed(id) == id > shadow_id \/ id < path_id

(* Every completed entry was completed by its own instruction: its result  *)
(* is that instruction's, and a branch on the right path carries its own   *)
(* outcome.                                                                *)
OwnResults ==
  \A i \in RB!Idx :
    LET e == rob_q[i]
    IN  (e.valid /\ e.completed) =>
          /\ e.write_enable => e.result = Value(e.kanata_id)
          /\ ~Doomed(e.kanata_id) => (e.branch_taken <=> e.kanata_id = shadow_id)

(* That holds until an entry is given to a new instruction while one that  *)
(* was flushed, or has committed, is still on its way to it.               *)
OwnResultsWhileClean == clean => OwnResults

(* Until then an instruction on the right path leaves decode with the      *)
(* operands that sequential execution gives it: for each source register   *)
(* the result of the youngest older instruction that writes it, wherever   *)
(* the pipeline holds that result, or the last committed one.  The last    *)
(* register is never written when its producer commits.                    *)
Producers(rs) == {rob_q[i].kanata_id : i \in {j \in RB!Idx : RB!Writes(j, rs)}}

Expected(rs) ==
  LET W == Producers(rs)
  IN  IF W = {} THEN last_writer[rs]
                ELSE Value(CHOOSE id \in W : \A x \in W : x <= id)

OperandsRight ==
  clean =>
    \A ready \in BOOLEAN :
      (RobDecode(stall(TRUE, ready)).valid /\ ~Doomed(decode_q.kanata_id)) =>
        \A rs \in decode_q.instr.srcs :
          (rs # REG_COUNT - 1 \/ Producers(rs) # {}) => Operand(rs, ready) = Expected(rs)

(* Until then instructions fetched past a taken branch never commit.       *)
WrongPathNeverCommits ==
  (clean /\ RB!commit_valid_o) => ~Doomed(rob_q[rob_head_ptr_q].kanata_id)

(* An instruction that has not completed is still somewhere in the         *)
(* pipeline: no stage drops it while another one stalls, until a           *)
(* multiplication leaves execute in a cycle in which memory stalls.        *)
Holds(op, e) == op.valid /\ op.kanata_id = e.kanata_id

NothingLost ==
  ~dropped =>
    \A i \in RB!Idx :
      (rob_q[i].valid /\ ~rob_q[i].completed) =>
        \/ Holds(decode_to_exe_q, rob_q[i])
        \/ \E k \in 0 .. MAX_EXE_STAGES - 2 : Holds(exe_pipe_q[k], rob_q[i])
        \/ Holds(exe_to_mem_q, rob_q[i])
        \/ Holds(mem_to_wb_q, rob_q[i])

(* The two buffers agree on the stores in flight.  An entry learns its     *)
(* slot when the store writes back; the slots that the reorder buffer will *)
(* commit or discard are then exactly the undecided ones, in the same      *)
(* order, and every other store in the store buffer is older.  StoreBuffer *)
(* assumes this of its environment.  It holds until an entry is reused too *)
(* early: a flushed store may then take a slot.                            *)
WritesBack(i) == mem_to_wb_q.valid /\ mem_to_wb_q.rob_idx = i

StoresInFlight ==
  {i \in RB!Idx : /\ rob_q[i].valid /\ rob_q[i].store_to_mem
                  /\ rob_q[i].completed \/ WritesBack(i)}

SlotOf(i) == IF rob_q[i].completed THEN rob_q[i].store_buffer_idx
                                   ELSE mem_to_wb_q.store_buffer_idx

SlotsMatchStores ==
  /\ SB!WindowInv
  /\ clean =>
       /\ \A s \in SB!Idx :
            SB!Speculative(s) <=> \E i \in StoresInFlight : SlotOf(i) = s
       /\ \A i, j \in StoresInFlight :
            RB!Dist(i) < RB!Dist(j) => SB!Dist(SlotOf(i)) < SB!Dist(SlotOf(j))
       /\ \A s, t \in SB!Idx :
            (store_buffer_q[s].valid /\ ~SB!Speculative(s) /\ SB!Speculative(t))
              => SB!Dist(s) < SB!Dist(t)

(* A load on the right path takes its value from the store buffer exactly  *)
(* when a store that precedes it and was not flushed waits there with its  *)
(* address, and then from the youngest such store.                         *)
LoadIsLive ==
  /\ is_load
  /\ rob_q[exe_to_mem_q.rob_idx].valid
  /\ rob_q[exe_to_mem_q.rob_idx].kanata_id = exe_to_mem_q.kanata_id
  /\ ~Doomed(exe_to_mem_q.kanata_id)

Visible(i) ==
  /\ SB!Matches(i, exe_to_mem_q.instr.addr)
  /\ store_buffer_q[i].committed \/ ~store_buffer_q[i].discarded

LoadSeesYoungestStore ==
  \A ready \in BOOLEAN :
    (LoadIsLive /\ mem_valid(ready)) =>
      LET V == {i \in SB!Idx : Visible(i)}
      IN  /\ bypass_from_sb <=> V # {}
          /\ bypass_from_sb =>
               \A i \in V : SB!Dist(i) <= SB!Dist(SB!bypass_slot(exe_to_mem_q.instr.addr))

(* The same while the buffer has a free slot and no flushed store with the *)
(* load's address still waits in it to be dropped.                         *)
LoadRightOtherwise ==
  (/\ SB!req_ready_o
   /\ \A i \in SB!Idx : SB!Matches(i, exe_to_mem_q.instr.addr) => Visible(i))
    => LoadSeesYoungestStore

(* The oldest instruction in the reorder buffer commits sooner or later,   *)
(* so everything that enters the buffer leaves it, committed or flushed:   *)
(* no combination of stalls stops the pipeline.                            *)
OldestCommits == rob_q[rob_head_ptr_q].valid ~> RB!commit_valid_o

(* It does as long as no multiplication is dropped.                        *)
OldestCommitsOtherwise == []~dropped => OldestCommits
=============================================================================
